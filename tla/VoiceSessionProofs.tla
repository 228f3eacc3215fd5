------------------------- MODULE VoiceSessionProofs -------------------------
(***************************************************************************)
(* Proofs about the client and the server over one WebSocket, for every    *)
(* number of epochs, frames and packets and every size of the queues.      *)
(*                                                                         *)
(* ClientInv relates the application, its transport and the queue between  *)
(* them: which turn each of them is in, and what may still come of it.     *)
(* ServerInv relates the two ends: what is on its way to the server is of  *)
(* the turn it has or of the one behind the next turn.start, and that      *)
(* follows a turn the server has fenced, or is about to. DownInv is about  *)
(* the other direction: the messages on their way to the client, and the   *)
(* one that the server makes next, are a line that its transport takes,    *)
(* unless the turn has been cut.                                           *)
(***************************************************************************)
EXTENDS VoiceSession, TLAPS

Elements(s) == {s[i] : i \in 1..Len(s)}

LEMMA TailElements ==
  ASSUME NEW S, NEW s \in Seq(S), s # <<>>
  PROVE  /\ Tail(s) \in Seq(S) /\ Len(Tail(s)) = Len(s) - 1 /\ Len(s) \in Nat \ {0}
         /\ \A i \in 1..Len(Tail(s)) : Tail(s)[i] = s[i + 1]
         /\ Head(s) = s[1] /\ Head(s) \in S /\ Head(s) \in Elements(s)
         /\ Elements(Tail(s)) \subseteq Elements(s)
<1>1. /\ Tail(s) \in Seq(S) /\ Len(Tail(s)) = Len(s) - 1 /\ Len(s) \in Nat \ {0}
      /\ \A i \in 1..Len(Tail(s)) : Tail(s)[i] = s[i + 1]
      /\ Head(s) = s[1] /\ Head(s) \in S
  OBVIOUS
<1>2. \A i \in 1..Len(Tail(s)) : i + 1 \in 1..Len(s)
  BY <1>1
<1>3. 1 \in 1..Len(s)
  BY <1>1
<1> QED
  BY <1>1, <1>2, <1>3 DEF Elements

LEMMA AppendElements ==
  ASSUME NEW S, NEW s \in Seq(S), NEW e \in S
  PROVE  /\ Append(s, e) \in Seq(S) /\ Len(Append(s, e)) = Len(s) + 1 /\ Len(s) \in Nat
         /\ \A i \in 1..Len(s) : Append(s, e)[i] = s[i]
         /\ Append(s, e)[Len(s) + 1] = e
         /\ Elements(Append(s, e)) = Elements(s) \cup {e}
<1>1. /\ Append(s, e) \in Seq(S) /\ Len(Append(s, e)) = Len(s) + 1 /\ Len(s) \in Nat
      /\ \A i \in 1..Len(s) : Append(s, e)[i] = s[i]
      /\ Append(s, e)[Len(s) + 1] = e
  OBVIOUS
<1> DEFINE t == Append(s, e)
<1>2. /\ t \in Seq(S) /\ Len(t) = Len(s) + 1 /\ Len(s) \in Nat
      /\ \A i \in 1..Len(s) : t[i] = s[i]
      /\ t[Len(s) + 1] = e
  BY <1>1
<1> HIDE DEF t
<1>3. \A i \in 1..Len(t) : i \in 1..Len(s) \/ i = Len(s) + 1
  BY <1>2
<1>4. Elements(t) = Elements(s) \cup {e}
  BY <1>2, <1>3 DEF Elements
<1> QED
  BY <1>1, <1>4 DEF t

-----------------------------------------------------------------------------
(* Types.                                                                  *)

TrStates ==
  [conn : {"none", "opening", "open", "failed"}, session : BOOLEAN,
   turn : 0..MaxEpoch, response : 0..MaxEpoch,
   active : BOOLEAN, committed : BOOLEAN, uplink_ended : BOOLEAN,
   uplink : 0..MaxFrames, audio_started : BOOLEAN, audio_ended : BOOLEAN,
   downlink : 0..MaxAudio, response_done : BOOLEAN,
   cancel_sent : BOOLEAN, discard : BOOLEAN]

ClStates ==
  [state : States, epoch : 0..(MaxEpoch + 1), response : 0..MaxEpoch,
   pre : 0..PreRoll, up : 0..MaxFrames, at : {"loop", "preroll", "final", "commit"},
   hello_sent : BOOLEAN, wake : BOOLEAN, finish : BOOLEAN,
   admitted : BOOLEAN, ended : BOOLEAN, full : BOOLEAN]

SvStates ==
  [alive : BOOLEAN, hello : BOOLEAN, turn : 0..MaxEpoch, active : BOOLEAN,
   started : BOOLEAN, ended : BOOLEAN, committed : BOOLEAN,
   answer : {"none", "started", "audio", "over"}, audio : 0..MaxAudio,
   finishing : BOOLEAN, sending : {<<>>} \cup {<<m>> : m \in Downlink}]

Playbacks == {"idle", "active", "ending", "dropping", "failed"}

Typed ==
  /\ tr \in TrStates /\ cl \in ClStates /\ sv \in SvStates
  /\ c2s \in Seq(Uplink) /\ Len(c2s) <= SendCap + 1
  /\ s2c \in Seq(Downlink)
  /\ events \in Seq(Events) /\ Len(events) <= EventCap
  /\ overflow \in BOOLEAN /\ cut \in SUBSET Epochs
  /\ playback \in Playbacks /\ running \in BOOLEAN /\ raced \in BOOLEAN

LEMMA TypedMeans == Typed <=> TypeOK
BY DEF Typed, TypeOK, TransportTypeOK, ClientTypeOK, TrStates, ClStates, SvStates, Playbacks

-----------------------------------------------------------------------------
(* The application and its transport.                                      *)

Waits == {"WaitingForWake", "WaitingForSpeech", "WaitingForFollowUp"}

\* A send that is under way belongs to an utterance; what the counters of the
\* upload and a confirmed barge-in may be; who owns the playback.
ModesOf(c) ==
  /\ c.at # "loop" => c.state = "CapturingSpeech"
  /\ c.at \in {"preroll", "final"} => c.up < c.pre
  /\ c.state = "CapturingSpeech" /\ c.at = "loop" => c.up < MaxFrames
  /\ c.admitted => 0 < c.epoch /\ c.epoch < MaxEpoch
  /\ c.epoch = 0 => c.state = "WaitingForWake"

Modes == ModesOf(cl) /\ NoStalePlayback

\* Between two turns the application is ahead of its transport.
SameTurn ==
  /\ ~Session => tr.turn = 0
  /\ Session => IF cl.state \in Waits THEN tr.turn < cl.epoch ELSE tr.turn = cl.epoch

NotYetOpen ==
  tr.conn \in {"none", "opening"} =>
    /\ ~Session /\ ~tr.session /\ events = <<>> /\ c2s = <<>> /\ s2c = <<>>

TurnOf(t) ==
  /\ t.response \in {0, t.turn}
  /\ t.active => t.turn # 0 /\ ~t.response_done
  /\ t.audio_started \/ t.response_done => t.response # 0
  /\ t.cancel_sent => t.turn # 0
  /\ ~t.session => t.turn = 0

\* Nothing of the turn is let through any more.
Closed(t) == ~t.active /\ ~(t.response_done /\ t.cancel_sent)

TurnOver ==
  /\ tr.turn < cl.epoch => Closed(tr)
  /\ cl.state = "DrainingPlayback" => ~tr.active
  /\ tr.cancel_sent /\ tr.turn = cl.epoch => Pending
  /\ ~tr.session => ~Session

Links == SameTurn /\ NotYetOpen /\ TurnOf(tr) /\ TurnOver

Ends(e) == e.type = "cancelled" \/ (e.type = "error" /\ e.id # 0)

\* An event that waits is of the turn both are in, and the transport remembers
\* what it has let through.
Current(e) ==
  /\ e.id # 0 => /\ Session /\ e.id = cl.epoch /\ tr.turn = cl.epoch
                 /\ cl.state # "DrainingPlayback"
  /\ Ends(e) => ~tr.active /\ ~tr.response_done
  /\ e.type = "done" => ~tr.active
  /\ e.type = "cancelled" => Pending
  /\ e.type = "hello.ack" => ~Session /\ tr.session
  /\ e.id = 0 <=> e.type \in {"hello.ack", "transport"} \/ (e.type = "error" /\ ~Ends(e))

\* Nothing of a turn waits behind its end, and only the answer to a cancel
\* behind its response.done; one hello.ack.
Ordered(q) ==
  \A i, j \in 1..Len(q) : i < j =>
    /\ Ends(q[i]) => q[j].id = 0
    /\ q[i].type = "done" => q[j].id = 0 \/ q[j].type = "cancelled"
    /\ q[i].type = "hello.ack" => q[j].type # "hello.ack"

Queue_ == Ordered(events) /\ \A e \in Elements(events) : Current(e)

\* A cancel is sent once per turn, so it needs one place beyond the limit.
Outgoing ==
  /\ Len(c2s) > SendCap => tr.conn # "open" \/ tr.cancel_sent \/ (~tr.active /\ ~tr.response_done)
  /\ \A m \in Elements(c2s) : m.type # "hello" => m.id # 0

Plausible(m) ==
  /\ m.type = "pcm" => m.seq < MaxAudio
  /\ m.type = "hello.ack" => m.id = 0

Incoming ==
  /\ \A m \in Elements(s2c) : Plausible(m)
  /\ sv.sending # <<>> => Plausible(sv.sending[1])
  /\ sv.active => sv.turn # 0

\* What the answer sends once it has begun.
OfAnswer == {"audio_start", "pcm", "gap", "done"}

\* What the transport t has seen of the turn and the application c has not is
\* in the queue q between them.
Told(c, t, q) ==
  /\ \A i \in 1..Len(q) : q[i].type \in OfAnswer =>
       c.response # 0 \/ \E k \in 1..(i - 1) : q[k].type = "response.start"
  /\ \A e \in Elements(q) : e.type = "done" => t.response_done
  /\ c.state \notin Waits \cup {"DrainingPlayback"} /\ ~t.active =>
       \E e \in Elements(q) : e.type \in {"done", "error"}
  /\ c.state \notin Waits /\ t.response # 0 =>
       c.response # 0 \/ \E e \in Elements(q) : e.type = "response.start"

\* The upload and the answer as the application and its transport know them,
\* unless an event was lost; a pending cancel waits for its end only.
KnownOf(c, t, q, lost) ==
  /\ c.state = "CapturingSpeech" =>
       ~t.committed /\ t.uplink = c.up /\ (t.uplink_ended <=> c.at = "commit")
  /\ c.response # 0 => c.response = c.epoch /\ t.response = c.response
  /\ c.state \in {"PlayingResponse", "DrainingPlayback"} => c.response # 0
  /\ c.state = "DrainingPlayback" => t.response_done
  /\ \A e \in Elements(q) : e.type = "response.start" => t.response = e.id
  /\ c.state # "CancelPending" /\ ~lost => Told(c, t, q)

Known == KnownOf(cl, tr, events, overflow)

ClientInv == Typed /\ Modes /\ Links /\ Queue_ /\ Known /\ Outgoing /\ Incoming

-----------------------------------------------------------------------------
(* What the handlers of the client have in common.                         *)

\* What is left of the queue of events.
RestOf(rest) == rest = events \/ (events # <<>> /\ rest = Tail(events))

LEMMA RestKeeps ==
  ASSUME Typed, Queue_, NEW rest, RestOf(rest)
  PROVE  /\ rest \in Seq(Events) /\ Len(rest) <= EventCap /\ Ordered(rest)
         /\ Elements(rest) \subseteq Elements(events)
<1>1. CASE rest = events
  BY <1>1 DEF Typed, Queue_
<1>2. CASE events # <<>> /\ rest = Tail(events)
  <2>1. /\ rest \in Seq(Events) /\ Len(rest) = Len(events) - 1 /\ Len(events) \in Nat \ {0}
        /\ \A i \in 1..Len(rest) : rest[i] = events[i + 1]
        /\ Elements(rest) \subseteq Elements(events)
    BY <1>2, TailElements DEF Typed
  <2>2. Len(rest) <= EventCap
    BY <2>1, TransportAssumption, SMTT(30) DEF Typed, TransportAssumption
  <2>3. ASSUME NEW i \in 1..Len(rest), NEW j \in 1..Len(rest), i < j
        PROVE  /\ Ends(rest[i]) => rest[j].id = 0
               /\ rest[i].type = "done" => rest[j].id = 0 \/ rest[j].type = "cancelled"
               /\ rest[i].type = "hello.ack" => rest[j].type # "hello.ack"
    <3>1. i + 1 \in 1..Len(events) /\ j + 1 \in 1..Len(events) /\ i + 1 < j + 1
      BY <2>1, <2>3
    <3> QED BY <2>1, <3>1 DEF Queue_, Ordered
  <2> QED BY <2>1, <2>2, <2>3 DEF Ordered
<1> QED
  BY <1>1, <1>2 DEF RestOf

\* What is about no turn is about no answer.
LEMMA Unnamed ==
  ASSUME Queue_, NEW q, Elements(q) \subseteq Elements(events), \A e \in Elements(q) : e.id = 0
  PROVE  \A e \in Elements(q) : e.type \notin OfAnswer \cup {"response.start"}
BY DEF Queue_, Current, OfAnswer

\* What may wait behind the first event.
LEMMA BehindHead ==
  ASSUME Typed, Queue_, events # <<>>, NEW e \in Elements(Tail(events))
  PROVE  /\ Ends(Head(events)) => e.id = 0
         /\ Head(events).type = "done" => e.id = 0 \/ e.type = "cancelled"
         /\ Head(events).type = "hello.ack" => e.type # "hello.ack"
<1>1. /\ Len(Tail(events)) = Len(events) - 1 /\ Len(events) \in Nat \ {0}
      /\ \A i \in 1..Len(Tail(events)) : Tail(events)[i] = events[i + 1]
      /\ Head(events) = events[1]
  BY TailElements DEF Typed
<1>2. PICK i \in 1..Len(Tail(events)) : e = Tail(events)[i]
  BY DEF Elements
<1>3. i + 1 \in 1..Len(events) /\ 1 \in 1..Len(events) /\ 1 < i + 1 /\ e = events[i + 1]
  BY <1>1, <1>2
<1> QED
  BY <1>1, <1>3 DEF Queue_, Ordered

\* What the transport knows of the answer does not change.
SameAnswer(t) ==
  /\ t.conn = tr.conn /\ t.session = tr.session /\ t.turn = tr.turn /\ t.active = tr.active
  /\ t.response = tr.response /\ t.audio_started = tr.audio_started
  /\ t.audio_ended = tr.audio_ended /\ t.downlink = tr.downlink /\ t.discard = tr.discard
  /\ t.response_done = tr.response_done /\ (tr.committed => t.committed)

Opening == [NoTransport EXCEPT !.conn = "opening"]

\* How a step of the client looks from the server: the connection is given up
\* or asked for, or at most one message is sent, of the turn that runs or that
\* begins it.
ClientSends ==
  \/ tr' = NoTransport \/ tr' = Opening
  \/ /\ UNCHANGED <<s2c, tr, cut>>
     /\ \/ c2s' = c2s /\ cl'.hello_sent = cl.hello_sent
        \/ c2s' = Append(c2s, Message("hello", 0)) /\ ~cl.hello_sent /\ cl'.hello_sent
  \/ /\ UNCHANGED <<s2c, cut>> /\ cl'.hello_sent = cl.hello_sent
     /\ \E id \in Epochs : MayTurnStart(id) /\ SendTurnStart(id)
  \/ /\ s2c' = s2c /\ cl'.hello_sent = cl.hello_sent
     /\ tr.turn # 0 /\ SameAnswer(tr')
     /\ cut' = IF tr'.cancel_sent = tr.cancel_sent THEN cut ELSE cut \cup {tr.turn}
     /\ \E m \in Uplink :
          /\ m.type \in {"pcm", "turn.commit", "cancel"} /\ m.id = tr.turn
          /\ c2s' = Append(c2s, m)
          /\ m.type = "turn.commit" => tr'.committed
          /\ m.type = "cancel" => ~tr.cancel_sent /\ tr'.cancel_sent

Sound == ClientInv' /\ ClientSends

Aside == UNCHANGED <<sv, raced>> /\ running' \in BOOLEAN

Kept(c) == c.response = cl.response /\ c.hello_sent = cl.hello_sent

LEMMA DroppedIs ==
  ASSUME playback \in Playbacks
  PROVE  Dropped \in Playbacks /\ Dropped \notin {"active", "ending"}
BY DEF Dropped, Playbacks

\* The application changes nothing that the answer or the upload depends on.
LEMMA KnownStays ==
  ASSUME Known, NEW c, c.response = cl.response, c.epoch = cl.epoch,
         \/ c.state = cl.state /\ c.up = cl.up /\ c.at = cl.at
         \/ c.state \in Waits /\ cl.state \in Waits
  PROVE  KnownOf(c, tr, events, overflow)
BY DEF Known, KnownOf, Told, Waits

\* While a cancel is pending, what waits does not matter.
LEMMA KnownPending ==
  ASSUME Known, NEW c, NEW t, NEW rest, NEW lost, c.state = "CancelPending",
         c.response = cl.response, c.epoch = cl.epoch, t.response = tr.response,
         Elements(rest) \subseteq Elements(events)
  PROVE  KnownOf(c, t, rest, lost)
BY DEF Known, KnownOf

\* Between two turns, and in one that has just begun, nothing is known.
LEMMA KnownFresh ==
  ASSUME NEW c, NEW t, NEW rest, NEW lost, c.response = 0,
         \/ c.state \in Waits
         \/ /\ c.state = "CapturingSpeech" /\ t.active /\ t.response = 0
            /\ ~t.committed /\ t.uplink = c.up /\ ~t.uplink_ended /\ c.at # "commit",
         \A e \in Elements(rest) : e.type \notin OfAnswer \cup {"response.start"}
  PROVE  KnownOf(c, t, rest, lost)
<1>1. \A i \in 1..Len(rest) : rest[i].type \notin OfAnswer
  BY DEF Elements
<1> QED
  BY <1>1 DEF KnownOf, Told, Waits, OfAnswer

\* The first event is about the answer, whose start has been seen.
LEMMA KnownHeard ==
  ASSUME Typed, Known, events # <<>>, NEW c, c.epoch = cl.epoch,
         c.response # 0, c.response = cl.epoch, tr.response = c.response,
         \/ c.state = cl.state /\ c.up = cl.up /\ c.at = cl.at /\ c.state # "DrainingPlayback"
         \/ c.state = "PlayingResponse"
         \/ c.state = "DrainingPlayback" /\ tr.response_done,
         cl.state \notin Waits \cup {"DrainingPlayback", "CancelPending"},
         c.state # "DrainingPlayback" => Head(events).type \notin {"done", "error"}
  PROVE  KnownOf(c, tr, Tail(events), overflow)
<1> DEFINE rest == Tail(events)
<1>1. /\ Elements(rest) \subseteq Elements(events)
      /\ \A e \in Elements(events) : e = Head(events) \/ e \in Elements(rest)
  <2>1. /\ Len(rest) = Len(events) - 1 /\ Len(events) \in Nat \ {0}
        /\ \A i \in 1..Len(rest) : rest[i] = events[i + 1]
        /\ Head(events) = events[1] /\ Elements(rest) \subseteq Elements(events)
    BY TailElements DEF Typed
  <2> HIDE DEF rest
  <2>2. ASSUME NEW i \in 1..Len(events), i # 1 PROVE events[i] \in Elements(rest)
    <3>1. i - 1 \in 1..Len(rest) /\ (i - 1) + 1 = i
      BY <2>1, <2>2
    <3> QED BY <2>1, <3>1 DEF Elements
  <2> QED BY <2>1, <2>2 DEF Elements
<1> HIDE DEF rest
<1>2. Known /\ tr.response # 0
  OBVIOUS
<1>3. overflow \/ Told(c, tr, rest)
  <2> SUFFICES ASSUME ~overflow PROVE Told(c, tr, rest)
    BY DEF Typed
  <2>1. Told(cl, tr, events)
    BY DEF Known, KnownOf
  <2>2. ~tr.active /\ c.state # "DrainingPlayback" =>
          \E e \in Elements(rest) : e.type \in {"done", "error"}
    BY <1>1, <2>1 DEF Told
  <2>3. \A e \in Elements(rest) : e.type = "done" => tr.response_done
    BY <1>1, <2>1 DEF Told
  <2> QED BY <2>2, <2>3 DEF Told
<1> QED
  BY <1>1, <1>3 DEF Known, KnownOf, rest

LEMMA NewTransport ==
  /\ NoTransport \in TrStates /\ NewClient \in ClStates
  /\ NoTransport.conn = "none" /\ ~NoTransport.session /\ NoTransport.turn = 0
  /\ TurnOf(NoTransport) /\ ModesOf(NewClient) /\ NewClient.epoch = 0
  /\ NewClient.state = "WaitingForWake" /\ NewClient.response = 0
<1>1. 0 \in 0..MaxEpoch /\ 0 \in 0..(MaxEpoch + 1) /\ 0 \in 0..PreRoll /\ 0 \in 0..MaxFrames
      /\ 0 \in 0..MaxAudio
  BY TransportAssumption, ClientAssumption DEF TransportAssumption, ClientAssumption
<1>2. NoTransport \in TrStates
  BY <1>1 DEF NoTransport, TrStates
<1>3. NewClient \in ClStates
  BY <1>1 DEF NewClient, ClStates, States
<1> QED
  BY <1>2, <1>3 DEF NoTransport, NewClient, TurnOf, ModesOf

LEMMA LostKeeps ==
  ASSUME ClientInv, NEW rest, LoseConnection, Leaving(rest), Aside
  PROVE  Sound
<1>1. /\ tr' = NoTransport /\ c2s' = <<>> /\ cut' = {} /\ cl' = NewClient
      /\ playback' = Dropped /\ s2c' = <<>> /\ events' = <<>> /\ overflow' = FALSE
  BY NewTransport DEF LoseConnection, Leaving, DropPlayback
<1>2. Typed'
  <2>1. <<>> \in Seq(Uplink) /\ <<>> \in Seq(Downlink) /\ <<>> \in Seq(Events) /\ Len(<<>>) = 0
    OBVIOUS
  <2>2. 0 <= SendCap + 1 /\ 0 <= EventCap
    BY TransportAssumption DEF TransportAssumption
  <2>3. /\ tr' \in TrStates /\ cl' \in ClStates /\ sv' \in SvStates /\ playback' \in Playbacks
        /\ running' \in BOOLEAN /\ raced' \in BOOLEAN /\ cut' \in SUBSET Epochs
        /\ overflow' \in BOOLEAN
    BY <1>1, NewTransport, DroppedIs DEF ClientInv, Typed, Aside
  <2>4. /\ c2s' \in Seq(Uplink) /\ Len(c2s') <= SendCap + 1 /\ s2c' \in Seq(Downlink)
        /\ events' \in Seq(Events) /\ Len(events') <= EventCap
    BY <1>1, <2>1, <2>2
  <2> QED BY <2>3, <2>4 DEF Typed
<1>3. Modes'
  BY <1>1, NewTransport, DroppedIs DEF ClientInv, Typed, Modes, NoStalePlayback
<1>4. Links'
  BY <1>1, NewTransport DEF Links, SameTurn, NotYetOpen, TurnOver, Closed, Session, NoTransport
<1>5. Queue_'
  BY <1>1 DEF Queue_, Ordered, Elements
<1>6. Outgoing' /\ Incoming'
  BY <1>1, NewTransport DEF ClientInv, Outgoing, Incoming, Elements, Aside, NoTransport
<1>7. Known'
  <2>1. Elements(events') = {}
    BY <1>1 DEF Elements
  <2> QED BY <1>1, <2>1, NewTransport, KnownFresh DEF Known, Waits
<1> QED
  BY <1>1, <1>2, <1>3, <1>4, <1>5, <1>6, <1>7, NewTransport DEF Sound, ClientInv, ClientSends

\* A step of the client alone: nothing is sent, and it stays in its turn.
LEMMA QuietKeeps ==
  ASSUME ClientInv, NEW rest, RestOf(rest), Locally, Aside,
         Leaving(rest) \/ (rest = events /\ UNCHANGED <<s2c, events, overflow>>),
         cl' \in ClStates, playback' \in Playbacks, Modes',
         cl'.epoch = cl.epoch, cl'.state \in Waits <=> cl.state \in Waits,
         cl'.state = "CancelPending" <=> cl.state = "CancelPending",
         cl'.state = "DrainingPlayback" =>
           cl.state = "DrainingPlayback" \/ (~tr.active /\ \A e \in Elements(rest) : e.id = 0),
         cl'.hello_sent = cl.hello_sent, cl'.response # 0 => tr.response # 0,
         KnownOf(cl', tr, rest, overflow)
  PROVE  Sound
<1>1. /\ rest \in Seq(Events) /\ Len(rest) <= EventCap /\ Ordered(rest)
      /\ Elements(rest) \subseteq Elements(events)
  BY RestKeeps DEF ClientInv
<1>2. tr' = tr /\ c2s' = c2s /\ cut' = cut
  BY DEF Locally
<1>3. s2c' = s2c /\ events' = rest /\ overflow' \in BOOLEAN
  <2>1. CASE Leaving(rest) /\ tr.conn = "none"
    BY <1>2, <2>1 DEF Leaving, ClientInv, Links, NotYetOpen, RestOf
  <2>2. CASE Leaving(rest) /\ tr.conn # "none"
    BY <1>2, <2>2 DEF Leaving, ClientInv, Typed
  <2>3. CASE UNCHANGED <<s2c, events, overflow>> /\ rest = events
    BY <2>3 DEF ClientInv, Typed
  <2> QED BY <2>1, <2>2, <2>3
<1>4. Typed'
  BY <1>1, <1>2, <1>3 DEF ClientInv, Typed, Aside
<1>5. Links'
  BY <1>2, <1>3 DEF ClientInv, Links, SameTurn, NotYetOpen, TurnOver, Closed, Session, Pending, RestOf
<1>6. Queue_'
  <2>1. ASSUME NEW e \in Elements(rest) PROVE Current(e)'
    <3>1. Current(e)
      BY <1>1, <2>1 DEF ClientInv, Queue_
    <3> QED BY <1>2, <2>1, <3>1 DEF Current, Session, Pending, Ends
  <2> QED BY <1>1, <1>3, <2>1 DEF Queue_
<1>7. Outgoing' /\ Incoming'
  BY <1>2, <1>3 DEF ClientInv, Outgoing, Incoming, Aside
<1>8. Known'
  <2>1. CASE tr.conn # "none" \/ UNCHANGED overflow
    <3>1. overflow' = overflow
      BY <1>2, <2>1 DEF Leaving
    <3> QED BY <1>2, <1>3, <3>1 DEF Known
  <2>2. CASE tr.conn = "none"
    <3>1. rest = <<>> /\ cl'.state \in Waits /\ tr.turn = 0
      BY <2>2 DEF ClientInv, Links, NotYetOpen, RestOf, Modes, ModesOf, Session, Waits, SameTurn
    <3>2. cl'.response = 0
      BY <3>1 DEF ClientInv, Links, TurnOf
    <3>3. Elements(rest) = {}
      BY <3>1 DEF Elements
    <3> QED BY <1>3, <3>1, <3>2, <3>3, KnownFresh DEF Known
  <2> QED BY <2>1, <2>2
<1> QED
  BY <1>2, <1>3, <1>4, <1>5, <1>6, <1>7, <1>8 DEF Sound, ClientInv, ClientSends

\* The turn is over for the application.
LEMMA FinishKeeps ==
  ASSUME ClientInv, NEW rest, RestOf(rest), Leaving(rest), Aside, Locally,
         Session, tr.turn = cl.epoch, Closed(tr), \A e \in Elements(rest) : e.id = 0,
         cl' \in ClStates, cl'.epoch = cl.epoch + 1, cl'.state = "WaitingForFollowUp",
         cl'.at = "loop", ~cl'.admitted, cl'.response = 0, cl'.hello_sent = cl.hello_sent,
         playback' \in Playbacks, playback' \notin {"active", "ending"}
  PROVE  Sound
<1>1. /\ rest \in Seq(Events) /\ Len(rest) <= EventCap /\ Ordered(rest)
      /\ Elements(rest) \subseteq Elements(events)
  BY RestKeeps DEF ClientInv
<1>2. tr' = tr /\ c2s' = c2s /\ cut' = cut /\ cl.epoch \in Nat /\ cl'.epoch # 0
  BY DEF Locally, ClientInv, Typed, ClStates, Session
<1>3. s2c' = s2c /\ events' = rest /\ overflow' \in BOOLEAN
  BY <1>2 DEF Leaving, ClientInv, Links, NotYetOpen, Typed, Session
<1>4. Typed'
  BY <1>1, <1>2, <1>3 DEF ClientInv, Typed, Aside
<1>5. Modes'
  BY <1>2 DEF Modes, ModesOf, NoStalePlayback
<1>6. Links'
  BY <1>2, <1>3 DEF ClientInv, Links, SameTurn, NotYetOpen, TurnOver, Closed, Session, Pending,
     Waits
<1>7. Queue_'
  <2>1. ASSUME NEW e \in Elements(rest) PROVE Current(e)'
    <3>1. Current(e) /\ e.id = 0
      BY <1>1, <2>1 DEF ClientInv, Queue_
    <3> QED BY <1>2, <3>1 DEF Current, Session, Ends
  <2> QED BY <1>1, <1>3, <2>1 DEF Queue_
<1>8. Outgoing' /\ Incoming'
  BY <1>2, <1>3 DEF ClientInv, Outgoing, Incoming, Aside
<1>9. Known'
  BY <1>1, <1>3, Unnamed, KnownFresh DEF Known, Waits, ClientInv
<1> QED
  BY <1>2, <1>3, <1>4, <1>5, <1>6, <1>7, <1>8, <1>9 DEF Sound, ClientInv, ClientSends

\* A message that is appended.
LEMMA Sent ==
  ASSUME ClientInv, NEW m \in Uplink, c2s' = Append(c2s, m), m.type # "hello" => m.id # 0
  PROVE  /\ c2s' \in Seq(Uplink) /\ Len(c2s') = Len(c2s) + 1 /\ Len(c2s) \in Nat
         /\ \A n \in Elements(c2s') : n.type # "hello" => n.id # 0
BY AppendElements DEF ClientInv, Typed, Outgoing

\* The turn is cancelled, or its cancel was sent before.
LEMMA CancelKeeps ==
  ASSUME ClientInv, NEW rest, RestOf(rest), Leaving(rest), Aside,
         Session, cl.state \notin Waits, SendCancel(cl.epoch),
         tr.active \/ tr.response_done, tr.cancel_sent \/ tr.conn = "open",
         cl' \in ClStates, ModesOf(cl'), cl'.epoch = cl.epoch, cl'.state = "CancelPending",
         Kept(cl'),
         playback' \in Playbacks, playback' \notin {"active", "ending"}
  PROVE  Sound
<1>1. /\ rest \in Seq(Events) /\ Len(rest) <= EventCap /\ Ordered(rest)
      /\ Elements(rest) \subseteq Elements(events)
  BY RestKeeps DEF ClientInv
<1> DEFINE m == Message("cancel", cl.epoch)
<1>2. /\ tr.turn = cl.epoch /\ cl.epoch \in Epochs /\ tr.conn \notin {"none", "opening"}
      /\ tr \in TrStates
  BY DEF ClientInv, Links, SameTurn, NotYetOpen, Typed, TrStates, ClStates, Session, Epochs
<1>3. m \in Uplink /\ m.type = "cancel" /\ m.id = cl.epoch
  BY <1>2 DEF Message, Uplink, Epochs
<1> HIDE DEF m
<1>4. /\ tr' \in TrStates /\ tr'.conn = tr.conn /\ tr'.session = tr.session
      /\ tr'.turn = tr.turn /\ tr'.response = tr.response /\ tr'.active = tr.active
      /\ tr'.audio_started = tr.audio_started /\ tr'.response_done = tr.response_done
      /\ tr'.cancel_sent
  BY <1>2, ZenonT(40) DEF SendCancel, TrStates
<1>14. SameAnswer(tr')
  BY <1>2, ZenonT(40) DEF SendCancel, TrStates, SameAnswer
<1>5. \/ c2s' = c2s /\ cut' = cut /\ tr' = tr
      \/ ~tr.cancel_sent /\ c2s' = Append(c2s, m) /\ cut' = cut \cup {cl.epoch}
  BY DEF SendCancel, m
<1>6. s2c' = s2c /\ events' = rest /\ overflow' = overflow
  BY <1>2, <1>4 DEF Leaving
<1>7. /\ c2s' \in Seq(Uplink) /\ Len(c2s') <= SendCap + 1
      /\ \A n \in Elements(c2s') : n.type # "hello" => n.id # 0
  <2>1. CASE c2s' = c2s
    BY <2>1 DEF ClientInv, Typed, Outgoing
  <2>2. CASE c2s' # c2s
    <3>1. ~(Len(c2s) > SendCap)
      BY <1>5, <2>2 DEF ClientInv, Outgoing
    <3>2. /\ c2s' \in Seq(Uplink) /\ Len(c2s') = Len(c2s) + 1 /\ Len(c2s) \in Nat
          /\ \A n \in Elements(c2s') : n.type # "hello" => n.id # 0
      BY <1>2, <1>3, <1>5, <2>2, Sent DEF Session
    <3> QED BY <3>1, <3>2, TransportAssumption DEF TransportAssumption
  <2> QED BY <2>1, <2>2
<1>8. Typed'
  BY <1>1, <1>2, <1>4, <1>5, <1>6, <1>7 DEF ClientInv, Typed, Aside
<1>9. Modes'
  BY DEF Modes, NoStalePlayback
<1>10. Links'
  <2>1. SameTurn'
    BY <1>2, <1>4 DEF SameTurn, Session, Waits
  <2>2. NotYetOpen'
    BY <1>2, <1>4 DEF NotYetOpen
  <2>3. TurnOf(tr)'
    BY <1>2, <1>4 DEF ClientInv, Links, TurnOf, Session
  <2>4. TurnOver'
    <3>1. ~(tr'.turn < cl'.epoch)
      BY <1>2, <1>4 DEF Epochs
    <3> QED BY <1>2, <1>4, <3>1 DEF ClientInv, Links, TurnOver, Session, Pending
  <2> QED BY <2>1, <2>2, <2>3, <2>4 DEF Links
<1>11. Queue_'
  <2>1. ASSUME NEW e \in Elements(rest) PROVE Current(e)'
    <3>1. Current(e)
      BY <1>1, <2>1 DEF ClientInv, Queue_
    <3> QED BY <1>4, <3>1 DEF Current, Session, Pending, Ends
  <2> QED BY <1>1, <1>6, <2>1 DEF Queue_
<1>12. Outgoing' /\ Incoming'
  BY <1>4, <1>6, <1>7 DEF ClientInv, Outgoing, Incoming, Aside
<1>13. ClientSends
  <2>1. CASE c2s' = c2s /\ cut' = cut /\ tr' = tr
    BY <1>6, <2>1 DEF ClientSends, Kept
  <2>2. CASE ~tr.cancel_sent /\ c2s' = Append(c2s, m) /\ cut' = cut \cup {cl.epoch}
    <3>1. tr'.cancel_sent # tr.cancel_sent
      BY <1>4, <2>2
    <3> QED BY <1>2, <1>3, <1>4, <1>6, <1>14, <2>2, <3>1 DEF ClientSends, Session, Kept
  <2> QED BY <1>5, <2>1, <2>2
<1>15. Known'
  BY <1>1, <1>4, <1>6, KnownPending DEF Known, ClientInv, Kept
<1> QED
  BY <1>8, <1>9, <1>10, <1>11, <1>12, <1>13, <1>15 DEF Sound, ClientInv

\* A turn begins behind one that is over.
LEMMA StartKeeps ==
  ASSUME ClientInv, NEW rest, RestOf(rest), Leaving(rest), Aside, cut' = cut,
         NEW id \in Epochs, MayTurnStart(id), SendTurnStart(id),
         \A e \in Elements(rest) : e.id = 0,
         Session, cl' \in ClStates, cl'.epoch = id, cl'.state = "CapturingSpeech", ModesOf(cl'),
         cl'.response = 0, cl'.hello_sent = cl.hello_sent, cl'.up = 0, cl'.at # "commit",
         playback' \in Playbacks, playback' \notin {"active", "ending"}
  PROVE  Sound
<1>1. /\ rest \in Seq(Events) /\ Len(rest) <= EventCap /\ Ordered(rest)
      /\ Elements(rest) \subseteq Elements(events)
  BY RestKeeps DEF ClientInv
<1> DEFINE m == Message("turn.start", id)
<1>2. m \in Uplink /\ m.type = "turn.start" /\ m.id = id /\ id # 0 /\ id \in 0..MaxEpoch
  BY DEF Message, Uplink, Epochs
<1>3. c2s' = Append(c2s, m)
  BY DEF SendTurnStart
<1> HIDE DEF m
<1>4. /\ tr' \in TrStates /\ tr'.conn = "open" /\ tr'.session /\ tr'.turn = id
      /\ tr'.response = 0 /\ tr'.active /\ ~tr'.audio_started /\ ~tr'.response_done
      /\ ~tr'.cancel_sent /\ ~tr'.committed /\ tr'.uplink = 0 /\ ~tr'.uplink_ended
  <2>1. NoTransport \in TrStates
    BY NewTransport
  <2> QED BY <1>2, <2>1 DEF SendTurnStart, NoTransport, TrStates
<1>5. s2c' = s2c /\ events' = rest /\ overflow' = overflow
  BY <1>4 DEF Leaving
<1>6. /\ c2s' \in Seq(Uplink) /\ Len(c2s') <= SendCap
      /\ \A n \in Elements(c2s') : n.type # "hello" => n.id # 0
  <2>1. /\ c2s' \in Seq(Uplink) /\ Len(c2s') = Len(c2s) + 1 /\ Len(c2s) \in Nat
        /\ \A n \in Elements(c2s') : n.type # "hello" => n.id # 0
    BY <1>2, <1>3, Sent
  <2>2. Len(c2s) < SendCap /\ SendCap \in Nat
    BY TransportAssumption DEF MayTurnStart, Room, TransportAssumption
  <2> QED BY <2>1, <2>2
<1>7. Typed'
  BY <1>1, <1>4, <1>5, <1>6, TransportAssumption DEF ClientInv, Typed, Aside, TransportAssumption
<1>8. Modes'
  BY DEF Modes, NoStalePlayback
<1>9. Links'
  BY <1>2, <1>4, <1>5 DEF ClientInv, Links, SameTurn, NotYetOpen, TurnOver, TurnOf, Closed, Session,
     Pending, Waits
<1>10. Queue_'
  <2>1. ASSUME NEW e \in Elements(rest) PROVE Current(e)'
    <3>1. Current(e) /\ e.id = 0
      BY <1>1, <2>1 DEF ClientInv, Queue_
    <3> QED BY <1>2, <1>4, <3>1 DEF Current, Session, Pending, Ends
  <2> QED BY <1>1, <1>5, <2>1 DEF Queue_
<1>11. Outgoing' /\ Incoming'
  BY <1>4, <1>5, <1>6, TransportAssumption
     DEF ClientInv, Outgoing, Incoming, Aside, TransportAssumption
<1>12. ClientSends
  BY <1>5 DEF ClientSends
<1>13. Known'
  BY <1>1, <1>4, <1>5, Unnamed, KnownFresh DEF Known, ClientInv
<1> QED
  BY <1>7, <1>8, <1>9, <1>10, <1>11, <1>12, <1>13 DEF Sound, ClientInv

\* A frame or the end of the utterance goes out.
LEMMA SpeechKeeps ==
  ASSUME ClientInv, Leaving(events), Aside, cut' = cut, playback' = playback,
         Session, cl.state = "CapturingSpeech", tr.conn = "open", Room,
         NEW m \in Uplink, m.type \in {"pcm", "turn.commit"}, m.id = cl.epoch,
         c2s' = Append(c2s, m), tr' \in TrStates, SameAnswer(tr'),
         tr'.cancel_sent = tr.cancel_sent, m.type = "turn.commit" => tr'.committed,
         cl' \in ClStates, ModesOf(cl'), cl'.epoch = cl.epoch, Kept(cl'),
         cl'.state \in {"CapturingSpeech", "WaitingForResponse"},
         cl'.state = "CapturingSpeech" =>
           ~tr'.committed /\ tr'.uplink = cl'.up /\ (tr'.uplink_ended <=> cl'.at = "commit")
  PROVE  Sound
<1> USE DEF SameAnswer
<1>1. tr.turn = cl.epoch /\ cl'.state \notin Waits
  BY DEF ClientInv, Links, SameTurn, Waits
<1>2. s2c' = s2c /\ events' = events /\ overflow' = overflow
  BY DEF Leaving
<1>3. /\ c2s' \in Seq(Uplink) /\ Len(c2s') <= SendCap
      /\ \A n \in Elements(c2s') : n.type # "hello" => n.id # 0
  <2>1. /\ c2s' \in Seq(Uplink) /\ Len(c2s') = Len(c2s) + 1 /\ Len(c2s) \in Nat
        /\ \A n \in Elements(c2s') : n.type # "hello" => n.id # 0
    BY Sent DEF Session
  <2> QED BY <2>1, TransportAssumption DEF Room, TransportAssumption
<1>4. Typed'
  BY <1>2, <1>3, TransportAssumption DEF ClientInv, Typed, Aside, TransportAssumption
<1>5. Modes'
  BY DEF Modes, NoStalePlayback, ClientInv
<1>6. Links'
  <2>1. SameTurn' /\ NotYetOpen'
    BY <1>1, <1>2 DEF SameTurn, NotYetOpen, Session
  <2>2. TurnOf(tr)'
    BY DEF ClientInv, Links, TurnOf
  <2>3. TurnOver'
    BY <1>1 DEF ClientInv, Links, TurnOver, Closed, Session, Pending
  <2> QED BY <2>1, <2>2, <2>3 DEF Links
<1>7. Queue_'
  BY <1>1, <1>2 DEF ClientInv, Queue_, Ordered, Current, Session, Pending, Ends
<1>8. Outgoing' /\ Incoming'
  BY <1>2, <1>3, TransportAssumption DEF ClientInv, Outgoing, Incoming, Aside, TransportAssumption
<1>9. ClientSends
  BY <1>1, <1>2 DEF ClientSends, Session, Kept
<1>10. Known'
  <2>1. KnownOf(cl, tr, events, overflow)
    BY DEF ClientInv, Known
  <2>2. KnownOf(cl', tr', events, overflow)
    BY <2>1 DEF KnownOf, Told, Kept, Waits
  <2> QED BY <1>2, <2>2 DEF Known
<1> QED
  BY <1>4, <1>5, <1>6, <1>7, <1>8, <1>9, <1>10 DEF Sound, ClientInv

\* StartConnect and FinishConnect.
LEMMA ConnectKeeps ==
  ASSUME ClientInv, StartConnect \/ FinishConnect, UNCHANGED <<sv, raced>>
  PROVE  Sound
<1>1. CASE StartConnect
  <2>1. /\ tr' \in TrStates /\ tr'.conn = "opening" /\ ~tr'.session /\ tr'.turn = 0
        /\ TurnOf(tr') /\ ~tr'.active /\ ~tr'.cancel_sent
    <3>1. tr' = [NoTransport EXCEPT !.conn = "opening"]
      BY <1>1 DEF StartConnect
    <3>2. tr' \in TrStates
      BY <3>1, NewTransport DEF TrStates
    <3> QED BY <3>1, <3>2 DEF NoTransport, TurnOf
  <2>2. UNCHANGED <<c2s, s2c, events, overflow, cut, cl, playback, running, sv, raced>>
    BY <1>1 DEF StartConnect, client
  <2>3. ~Session /\ events = <<>> /\ c2s = <<>> /\ s2c = <<>>
    BY <1>1 DEF StartConnect, ClientInv, Links, NotYetOpen
  <2>4. Typed' /\ Modes'
    BY <2>1, <2>2 DEF ClientInv, Typed, Modes, NoStalePlayback
  <2>5. Links'
    BY <2>1, <2>2, <2>3 DEF ClientInv, Links, SameTurn, NotYetOpen, TurnOver, Closed, Session, Typed,
       ClStates, Modes, ModesOf
  <2>6. Queue_' /\ Outgoing' /\ Incoming'
    BY <2>1, <2>2, <2>3 DEF ClientInv, Queue_, Ordered, Elements, Outgoing, Incoming
  <2>7. Known'
    <3>1. cl.response = 0 /\ cl.state = "WaitingForWake"
      BY <2>3 DEF ClientInv, Known, KnownOf, Modes, ModesOf, Session
    <3>2. Elements(events') = {}
      BY <2>2, <2>3 DEF Elements
    <3> QED BY <2>2, <3>1, <3>2, KnownFresh DEF Known, Waits
  <2>8. tr' = Opening
    BY <1>1 DEF StartConnect, Opening
  <2> QED BY <2>4, <2>5, <2>6, <2>7, <2>8 DEF Sound, ClientInv, ClientSends
<1>2. CASE FinishConnect
  <2> DEFINE m == Message("hello", 0)
  <2>1. m \in Uplink /\ m.type = "hello"
    BY TransportAssumption DEF Message, Uplink, TransportAssumption
  <2>2. c2s' = Append(c2s, m)
    BY <1>2 DEF FinishConnect, SendHello
  <2> HIDE DEF m
  <2>3. /\ UNCHANGED <<tr, s2c, events, overflow, cut, playback, running, sv, raced>>
        /\ cl' = [cl EXCEPT !.hello_sent = TRUE] /\ tr.conn = "open" /\ Room /\ ~cl.hello_sent
    BY <1>2 DEF FinishConnect, SendHello, MayHello
  <2>4. /\ cl' \in ClStates /\ cl'.state = cl.state /\ cl'.epoch = cl.epoch /\ cl'.at = cl.at
        /\ cl'.up = cl.up /\ cl'.pre = cl.pre /\ cl'.admitted = cl.admitted
        /\ cl'.response = cl.response /\ cl'.hello_sent
    BY <2>3 DEF ClientInv, Typed, ClStates
  <2>5. /\ c2s' \in Seq(Uplink) /\ Len(c2s') <= SendCap
        /\ \A n \in Elements(c2s') : n.type # "hello" => n.id # 0
    <3>1. /\ c2s' \in Seq(Uplink) /\ Len(c2s') = Len(c2s) + 1 /\ Len(c2s) \in Nat
          /\ \A n \in Elements(c2s') : n.type # "hello" => n.id # 0
      BY <2>1, <2>2, Sent
    <3> QED BY <2>3, <3>1, TransportAssumption DEF Room, TransportAssumption
  <2>6. Typed' /\ Modes'
    BY <2>3, <2>4, <2>5, TransportAssumption
       DEF ClientInv, Typed, Modes, ModesOf, NoStalePlayback, TransportAssumption
  <2>7. Links'
    BY <2>3, <2>4 DEF ClientInv, Links, SameTurn, NotYetOpen, TurnOver, Closed, Session, Pending
  <2>8. Queue_'
    BY <2>3, <2>4 DEF ClientInv, Queue_, Ordered, Current, Session, Pending, Ends, Elements
  <2>9. Outgoing' /\ Incoming'
    BY <2>3, <2>5, TransportAssumption DEF ClientInv, Outgoing, Incoming, TransportAssumption
  <2>10. ClientSends
    BY <2>2, <2>3, <2>4 DEF ClientSends, m
  <2>11. Known'
    BY <2>3, <2>4, KnownStays DEF Known, ClientInv
  <2> QED BY <2>6, <2>7, <2>8, <2>9, <2>10, <2>11 DEF Sound, ClientInv
<1> QED
  BY <1>1, <1>2

\* The hello is acknowledged: the first epoch.
LEMMA AcknowledgedKeeps ==
  ASSUME ClientInv, events # <<>>, Head(events).type = "hello.ack", HelloAck,
         Leaving(Tail(events)), Aside
  PROVE  Sound
<1> DEFINE rest == Tail(events)
<1>1. /\ rest \in Seq(Events) /\ Len(rest) <= EventCap /\ Ordered(rest)
      /\ Elements(rest) \subseteq Elements(events)
  BY RestKeeps DEF ClientInv, RestOf
<1>2. Head(events) \in Elements(events)
  BY TailElements DEF ClientInv, Typed
<1>3. \A e \in Elements(rest) : e.type # "hello.ack"
  BY BehindHead DEF ClientInv
<1>4. ~Session /\ tr.session /\ tr.turn = 0 /\ cl.state = "WaitingForWake"
  BY <1>2 DEF ClientInv, Queue_, Current, Links, SameTurn, Modes, ModesOf, Session
<1>5. UNCHANGED <<tr, c2s, cut, playback>> /\ cl' = [cl EXCEPT !.epoch = 1, !.pre = 0]
  BY DEF HelloAck, Locally
<1>6. s2c' = s2c /\ events' = rest /\ overflow' \in BOOLEAN
  BY <1>4, <1>5 DEF Leaving, ClientInv, Links, NotYetOpen, Typed
<1>7. /\ cl' \in ClStates /\ cl'.epoch = 1 /\ cl'.state = "WaitingForWake" /\ ModesOf(cl')
      /\ Kept(cl')
  <2>1. 1 \in 0..(MaxEpoch + 1) /\ 0 \in 0..PreRoll
    BY TransportAssumption, ClientAssumption DEF TransportAssumption, ClientAssumption
  <2>2. cl' \in ClStates /\ cl'.epoch = 1 /\ cl'.state = "WaitingForWake" /\ Kept(cl')
    BY <1>4, <1>5, <2>1 DEF ClientInv, Typed, ClStates, Kept
  <2>3. cl.at = "loop" /\ ~cl.admitted
    BY <1>4 DEF ClientInv, Modes, ModesOf, Session, Typed, ClStates
  <2> QED BY <1>4, <1>5, <2>2, <2>3 DEF ClientInv, Typed, ClStates, ModesOf
<1> HIDE DEF rest
<1>8. Typed' /\ Modes'
  BY <1>1, <1>4, <1>5, <1>6, <1>7 DEF ClientInv, Typed, Modes, NoStalePlayback, Aside
<1>9. Links'
  <2>1. SameTurn' /\ NotYetOpen' /\ TurnOf(tr)'
    BY <1>4, <1>5, <1>6, <1>7 DEF ClientInv, Links, SameTurn, NotYetOpen, Session, Waits
  <2>2. Closed(tr)
    BY <1>4 DEF ClientInv, Links, TurnOf, Closed
  <2>3. TurnOver'
    BY <1>4, <1>5, <1>7, <2>2 DEF TurnOver, Session
  <2> QED BY <2>1, <2>3 DEF Links
<1>10. Queue_'
  <2>1. ASSUME NEW e \in Elements(rest) PROVE Current(e)'
    <3>1. Current(e) /\ e.type # "hello.ack"
      BY <1>1, <1>3, <2>1 DEF ClientInv, Queue_, rest
    <3> QED BY <1>4, <1>5, <3>1 DEF Current, Session, Ends, Pending
  <2> QED BY <1>1, <1>6, <2>1 DEF Queue_
<1>11. Outgoing' /\ Incoming'
  BY <1>5, <1>6 DEF ClientInv, Outgoing, Incoming, Aside
<1>12. Known'
  <2>1. cl.response = 0
    BY <1>4 DEF ClientInv, Known, KnownOf, Session
  <2>2. \A e \in Elements(rest) : e.id = 0
    BY <1>1, <1>4 DEF ClientInv, Queue_, Current
  <2> QED BY <1>1, <1>6, <1>7, <2>1, <2>2, Unnamed, KnownFresh DEF Known, Waits, Kept, ClientInv
<1> QED
  BY <1>5, <1>6, <1>7, <1>8, <1>9, <1>10, <1>11, <1>12 DEF Sound, ClientInv, ClientSends, Kept

-----------------------------------------------------------------------------
(* What ends or begins a turn.                                             *)

\* AbortCurrent of a turn that the application is in.
LEMMA AbortKeeps ==
  ASSUME ClientInv, NEW rest, RestOf(rest), Leaving(rest), Aside,
         NEW c \in ClStates, c.epoch = cl.epoch, c.at = "loop", Kept(c),
         Session, cl.state \notin Waits, AbortCurrent(c)
  PROVE  Sound
<1>1. CASE MayCancel(c)
  <2>1. /\ SendCancel(cl.epoch) /\ playback' = Dropped
        /\ cl' = CancelPending([ResetBargeTurn(c) EXCEPT !.finish = TRUE])
    BY <1>1 DEF AbortCurrent, DropPlayback
  <2>2. /\ cl' \in ClStates /\ ModesOf(cl') /\ cl'.epoch = cl.epoch
        /\ cl'.state = "CancelPending" /\ Kept(cl')
    BY <2>1 DEF CancelPending, ResetBargeTurn, ClStates, States, ModesOf, Session, Kept
  <2>3. tr.active \/ tr.response_done
    BY <1>1 DEF MayCancel, MayResponseCancel, MayTurnCancel
  <2>4. tr.cancel_sent \/ tr.conn = "open"
    BY <1>1 DEF MayCancel, MayResponseCancel, MayTurnCancel
  <2> QED BY <2>1, <2>2, <2>3, <2>4, CancelKeeps, DroppedIs DEF ClientInv, Typed
<1>2. CASE ~MayCancel(c)
  BY <1>2, LostKeeps DEF AbortCurrent
<1> QED
  BY <1>1, <1>2

\* FinishTurn behind the end of the turn.
LEMMA FinishTurnKeeps ==
  ASSUME ClientInv, NEW rest, RestOf(rest), Leaving(rest), Aside,
         NEW c \in ClStates, c.epoch = cl.epoch, c.at = "loop", Kept(c), NEW normal \in BOOLEAN,
         FinishTurn(c, normal), normal => playback \notin {"active", "ending"},
         Session, tr.turn = cl.epoch, Closed(tr), \A e \in Elements(rest) : e.id = 0
  PROVE  Sound
<1>1. c.epoch \in 0..MaxEpoch /\ MaxEpoch \in Nat
  BY TransportAssumption DEF ClientInv, Typed, TrStates, TransportAssumption
<1>2. cl' = FollowUp(c) /\ Locally
  BY DEF FinishTurn
<1>3. /\ cl' \in ClStates /\ cl'.epoch = cl.epoch + 1 /\ cl'.state = "WaitingForFollowUp"
      /\ cl'.at = "loop" /\ ~cl'.admitted /\ cl'.response = 0 /\ cl'.hello_sent = cl.hello_sent
  <2>1. c.epoch + 1 \in 0..(MaxEpoch + 1) /\ 0 \in 0..MaxEpoch
    BY <1>1
  <2> QED BY <1>2, <2>1 DEF FollowUp, AdvanceTurn, ResetBargeTurn, ClStates, States, Kept
<1>4. playback' \in Playbacks /\ playback' \notin {"active", "ending"}
  BY DroppedIs DEF FinishTurn, DropPlayback, ClientInv, Typed
<1> QED
  BY <1>2, <1>3, <1>4, FinishKeeps

\* StartTurn when the transport has seen the end of the last turn.
LEMMA StartTurnKeeps ==
  ASSUME ClientInv, NEW rest, RestOf(rest), Leaving(rest), Aside,
         NEW c \in ClStates, c.epoch \in Epochs, NEW ended \in BOOLEAN, NEW left \in Playbacks,
         left \notin {"active", "ending"}, c.admitted => c.epoch < MaxEpoch,
         c.response = 0, c.hello_sent = cl.hello_sent,
         StartTurn(c, ended, left), Session, \A e \in Elements(rest) : e.id = 0
  PROVE  Sound
<1>1. CASE MayTurnStart(c.epoch) /\ (c.pre # 0 \/ ~ended)
  <2>1. SendTurnStart(c.epoch) /\ playback' = left /\ cut' = cut
    BY <1>1 DEF StartTurn
  <2>2. cl' = [c EXCEPT !.state = "CapturingSpeech", !.up = 0,
                        !.at = IF c.pre = 0 THEN "loop" ELSE IF ended THEN "final" ELSE "preroll"]
    BY <1>1 DEF StartTurn
  <2>3. 0 \in 0..MaxFrames /\ 0 < MaxFrames
    BY TransportAssumption DEF TransportAssumption
  <2>4. cl' \in ClStates
    BY <2>2, <2>3 DEF ClStates, States
  <2>5. c.pre # 0 => 0 < c.pre
    BY ClientAssumption DEF ClStates, ClientAssumption
  <2>6. ModesOf(cl') /\ cl'.epoch = c.epoch /\ cl'.state = "CapturingSpeech"
        /\ cl'.response = 0 /\ cl'.hello_sent = cl.hello_sent /\ cl'.up = 0 /\ cl'.at # "commit"
    BY <2>2, <2>3, <2>5 DEF ModesOf, ClStates, Epochs
  <2> QED BY <1>1, <2>1, <2>4, <2>6, StartKeeps
<1>2. CASE ~(MayTurnStart(c.epoch) /\ (c.pre # 0 \/ ~ended))
  BY <1>2, LostKeeps DEF StartTurn
<1> QED
  BY <1>1, <1>2

\* The answer to a cancel, or the failure of the turn meanwhile.
LEMMA CompleteKeeps ==
  ASSUME ClientInv, NEW rest, RestOf(rest), Leaving(rest), Aside,
         Pending, cl.at = "loop", CompleteCancel(cl),
         Session, tr.turn = cl.epoch, Closed(tr), \A e \in Elements(rest) : e.id = 0
  PROVE  Sound
<1>1. cl \in ClStates /\ 0 \in 0..PreRoll
  BY ClientAssumption DEF ClientInv, Typed, ClientAssumption
<1>2. CASE cl.finish
  BY <1>1, <1>2, FinishTurnKeeps DEF CompleteCancel, Kept
<1>3. CASE ~cl.finish /\ cl.admitted /\ ~cl.full
  <2> DEFINE c == AdvanceTurn(Admitted(cl))
  <2>1. cl.epoch \in Nat /\ cl.epoch < MaxEpoch /\ MaxEpoch \in Nat
    BY <1>1, <1>3, TransportAssumption DEF ClientInv, Modes, ModesOf, ClStates, TransportAssumption
  <2>2. cl.epoch + 1 \in Epochs /\ cl.epoch + 1 \in 0..(MaxEpoch + 1) /\ 0 \in 0..MaxEpoch
    BY <2>1 DEF Epochs
  <2>3. /\ c \in ClStates /\ c.epoch \in Epochs /\ ~c.admitted
        /\ c.response = 0 /\ c.hello_sent = cl.hello_sent
    BY <1>1, <2>2 DEF AdvanceTurn, Admitted, ClStates
  <2>4. StartTurn(c, cl.ended, Dropped)
    BY <1>3 DEF CompleteCancel, ResumeAfterBarge, Admitted, AdvanceTurn
  <2>5. cl.ended \in BOOLEAN /\ Dropped \in Playbacks /\ Dropped \notin {"active", "ending"}
    BY <1>1, DroppedIs DEF ClientInv, Typed, ClStates
  <2> HIDE DEF c
  <2> QED BY <2>3, <2>4, <2>5, StartTurnKeeps
<1>4. CASE ~cl.finish /\ ~(cl.admitted /\ ~cl.full)
  <2> DEFINE c == [cl EXCEPT !.pre = 0]
  <2>1. c \in ClStates /\ c.epoch = cl.epoch /\ c.at = "loop" /\ Kept(c)
    BY <1>1 DEF ClStates, Kept
  <2>2. FinishTurn(c, FALSE)
    BY <1>4 DEF CompleteCancel
  <2> HIDE DEF c
  <2> QED BY <2>1, <2>2, FinishTurnKeeps
<1> QED
  BY <1>2, <1>3, <1>4

-----------------------------------------------------------------------------
(* HandleEvent.                                                            *)

\* An event of a turn finds the application in that turn.
LEMMA HeadIs ==
  ASSUME ClientInv, events # <<>>
  PROVE  /\ Head(events) \in Events /\ Current(Head(events)) /\ RestOf(Tail(events))
         /\ Head(events).id # 0 =>
              Session /\ tr.turn = cl.epoch /\ cl.state \notin Waits /\ cl.state # "DrainingPlayback"
         /\ Ends(Head(events)) => Closed(tr) /\ \A e \in Elements(Tail(events)) : e.id = 0
         /\ Elements(Tail(events)) \subseteq Elements(events)
<1>1. /\ Head(events) \in Events /\ Head(events) \in Elements(events)
      /\ Elements(Tail(events)) \subseteq Elements(events)
  BY TailElements DEF ClientInv, Typed
<1>2. Current(Head(events))
  BY <1>1 DEF ClientInv, Queue_
<1>3. Head(events).id # 0 =>
        Session /\ tr.turn = cl.epoch /\ cl.state \notin Waits /\ cl.state # "DrainingPlayback"
  <2>1. tr.turn \in Nat
    BY DEF ClientInv, Typed, TrStates
  <2> QED BY <1>2, <2>1 DEF Current, ClientInv, Links, SameTurn
<1>4. Ends(Head(events)) => Closed(tr)
  BY <1>2 DEF Current, Closed
<1>5. Ends(Head(events)) => \A e \in Elements(Tail(events)) : e.id = 0
  BY BehindHead DEF ClientInv
<1> QED
  BY <1>1, <1>2, <1>3, <1>4, <1>5 DEF RestOf

\* Nothing happens.
LEMMA NothingKeeps ==
  ASSUME ClientInv, NEW rest, RestOf(rest), UNCHANGED <<cl, playback>>, Locally, Leaving(rest),
         Aside, KnownOf(cl, tr, rest, overflow)
  PROVE  Sound
<1>1. cl.response # 0 => tr.response # 0
  BY DEF ClientInv, Known, KnownOf
<1> QED
  BY <1>1, QuietKeeps DEF ClientInv, Typed, Modes, ModesOf, NoStalePlayback

LEMMA ErrorEventKeeps ==
  ASSUME ClientInv, cl.at = "loop", events # <<>>,
         Head(events).type \in {"transport", "error", "gap"}, OnErrorEvent(Head(events)),
         Leaving(Tail(events)), Aside
  PROVE  Sound
<1> DEFINE e == Head(events)
           rest == Tail(events)
<1>1. /\ Current(e) /\ RestOf(rest)
      /\ e.id # 0 =>
           Session /\ tr.turn = cl.epoch /\ cl.state \notin Waits /\ cl.state # "DrainingPlayback"
      /\ Ends(e) => Closed(tr) /\ \A f \in Elements(rest) : f.id = 0
  BY HeadIs
<1>2. e.type \in {"transport", "error", "gap"} /\ OnErrorEvent(e) /\ Leaving(rest)
  OBVIOUS
<1>3. cl \in ClStates
  BY DEF ClientInv, Typed
<1> HIDE DEF e, rest
<1>4. CASE LoseConnection
  BY <1>2, <1>4, LostKeeps
<1>5. CASE e.id # 0 /\ e.type = "gap" /\ Pending
  <2>1. KnownOf(cl, tr, rest, overflow)
    BY <1>5, HeadIs, KnownPending DEF rest, Pending, ClientInv
  <2> QED BY <1>1, <1>2, <1>5, <2>1, NothingKeeps DEF OnErrorEvent
<1>6. CASE e.id # 0 /\ e.type = "gap" /\ ~Pending /\ ~LoseConnection
  BY <1>1, <1>2, <1>3, <1>6, AbortKeeps DEF OnErrorEvent, Kept
<1>7. CASE e.id # 0 /\ e.type = "error" /\ ~LoseConnection
  <2>1. Ends(e)
    BY <1>7 DEF Ends
  <2>2. CASE Pending
    BY <1>1, <1>2, <1>7, <2>1, <2>2, CompleteKeeps DEF OnErrorEvent
  <2>3. CASE ~Pending
    <3>1. FinishTurn(cl, FALSE)
      BY <1>1, <1>2, <1>7, <2>3 DEF OnErrorEvent
    <3> QED BY <1>1, <1>2, <1>3, <1>7, <2>1, <3>1, FinishTurnKeeps DEF Kept
  <2> QED BY <2>2, <2>3
<1>8. e.id = 0 \/ e.type = "transport" => LoseConnection
  BY <1>2 DEF OnErrorEvent
<1> QED
  BY <1>2, <1>4, <1>5, <1>6, <1>7, <1>8

LEMMA EventKeeps ==
  ASSUME ClientInv, cl.at = "loop", events # <<>>, ~overflow,
         Head(events).type \notin {"transport", "error", "gap"}, OnEvent(Head(events)),
         Leaving(Tail(events)), Aside
  PROVE  Sound
<1> DEFINE e == Head(events)
           rest == Tail(events)
<1>1. /\ Current(e) /\ RestOf(rest) /\ e \in Events
      /\ e.id # 0 =>
           Session /\ tr.turn = cl.epoch /\ cl.state \notin Waits /\ cl.state # "DrainingPlayback"
      /\ Ends(e) => Closed(tr) /\ \A f \in Elements(rest) : f.id = 0
      /\ Elements(rest) \subseteq Elements(events)
  BY HeadIs
<1>2. e.type \notin {"transport", "error", "gap"} /\ OnEvent(e) /\ Leaving(rest)
  OBVIOUS
<1>3. cl \in ClStates /\ playback \in Playbacks /\ Modes /\ Queue_
  BY DEF ClientInv, Typed
<1>4. \A f \in Elements(rest) : e.type = "done" => f.id = 0 \/ f.type = "cancelled"
  BY BehindHead DEF ClientInv
<1>5. e.type # "hello.ack" => e.id # 0
  BY <1>1, <1>2 DEF Current
<1>6. e.type \in {"hello.ack", "response.start", "audio_start", "pcm", "done", "cancelled"}
  BY <1>1, <1>2 DEF Events, Downlink, Message
<1>7. CASE Pending /\ e.type # "cancelled"
  <2>1. KnownOf(cl, tr, rest, overflow)
    BY <1>1, <1>7, KnownPending DEF Pending, ClientInv
  <2> QED BY <1>1, <1>2, <1>7, <2>1, NothingKeeps DEF OnEvent
<1>8. CASE ~Pending /\ e.type = "hello.ack"
  BY <1>2, <1>8, AcknowledgedKeeps DEF OnEvent
<1>14. Typed /\ Known /\ (e.type # "hello.ack" => e.id = cl.epoch)
  BY <1>1, <1>5 DEF ClientInv, Current
\* Of an answer whose start has been seen.
<1>15. ASSUME ~Pending, NEW c, c.epoch = cl.epoch, c.response = cl.epoch, tr.response = cl.epoch,
              e.type # "hello.ack",
              \/ c.state = cl.state /\ c.up = cl.up /\ c.at = cl.at
              \/ c.state = "PlayingResponse"
              \/ c.state = "DrainingPlayback" /\ tr.response_done,
              c.state # "DrainingPlayback" => e.type \notin {"done", "error"}
       PROVE  KnownOf(c, tr, rest, overflow)
  BY <1>1, <1>5, <1>14, <1>15, KnownHeard DEF Pending, Session
<1>16. ASSUME ~Pending, e.type \in OfAnswer
       PROVE  /\ cl.response = cl.epoch /\ tr.response = cl.epoch /\ tr.response # 0
              /\ e.type = "done" => tr.response_done
  <2>1. Told(cl, tr, events)
    BY <1>14, <1>16 DEF Known, KnownOf, Pending
  <2>2. e = events[1] /\ 1 \in 1..Len(events) /\ e \in Elements(events)
    BY TailElements DEF ClientInv, Typed
  <2>3. cl.response # 0
    BY <1>16, <2>1, <2>2 DEF Told
  <2> QED BY <1>14, <2>1, <2>2, <2>3 DEF Told, Known, KnownOf
<1> HIDE DEF e, rest
<1>9. CASE ~Pending /\ e.type = "response.start"
  <2>1. cl' = [cl EXCEPT !.response = e.id] /\ playback' = playback /\ Locally
    BY <1>2, <1>9 DEF OnEvent, ResponseStart
  <2>2. e.id \in 0..MaxEpoch
    BY <1>1, <1>9 DEF Events, Downlink, Message, Epochs
  <2>3. /\ cl' \in ClStates /\ Modes' /\ cl'.state = cl.state /\ cl'.epoch = cl.epoch
        /\ cl'.response = cl.epoch /\ cl'.hello_sent = cl.hello_sent
        /\ cl'.up = cl.up /\ cl'.at = cl.at
    BY <1>3, <1>9, <1>14, <2>1, <2>2 DEF ClStates, Modes, ModesOf, NoStalePlayback
  <2>4. tr.response = cl.epoch
    <3>1. e \in Elements(events)
      BY TailElements DEF e, ClientInv, Typed
    <3> QED BY <1>9, <1>14, <3>1 DEF Known, KnownOf
  <2>5. KnownOf(cl', tr, rest, overflow)
    BY <1>9, <1>15, <2>3, <2>4
  <2>6. tr.response # 0
    BY <1>1, <1>5, <1>9, <2>4 DEF Session
  <2> QED BY <1>1, <1>2, <1>3, <2>1, <2>3, <2>5, <2>6, QuietKeeps
<1>10. CASE ~Pending /\ e.type = "audio_start"
  <2>1. CASE playback \in {"idle", "failed"}
    <3>1. cl' = [cl EXCEPT !.state = "PlayingResponse"] /\ playback' = "active" /\ Locally
      BY <1>2, <1>10, <2>1 DEF OnEvent, AudioStart
    <3>2. /\ cl' \in ClStates /\ Modes' /\ cl'.state = "PlayingResponse" /\ cl'.epoch = cl.epoch
          /\ Kept(cl')
      BY <1>1, <1>3, <1>5, <1>10, <3>1
         DEF ClStates, States, Modes, ModesOf, NoStalePlayback, Session, Kept
    <3>3. cl.response = cl.epoch /\ tr.response = cl.epoch /\ tr.response # 0
      BY <1>10, <1>16 DEF OfAnswer
    <3>4. KnownOf(cl', tr, rest, overflow)
      BY <1>10, <1>15, <3>2, <3>3 DEF Kept
    <3> QED BY <1>1, <1>2, <1>5, <1>10, <3>1, <3>2, <3>3, <3>4, QuietKeeps
            DEF Waits, Playbacks, Pending, Kept
  <2>2. CASE playback \notin {"idle", "failed"}
    BY <1>2, <1>10, <2>2, LostKeeps DEF OnEvent, AudioStart
  <2> QED BY <2>1, <2>2
<1>11. CASE ~Pending /\ e.type = "pcm"
  <2>1. PlayPcm
    BY <1>2, <1>11 DEF OnEvent
  <2>2. CASE UNCHANGED <<cl, playback>> /\ Locally
    <3>1. cl.response = cl.epoch /\ tr.response = cl.epoch
      BY <1>11, <1>16 DEF OfAnswer
    <3>2. KnownOf(cl, tr, rest, overflow)
      BY <1>11, <1>15, <3>1
    <3> QED BY <1>1, <1>2, <2>2, <3>2, NothingKeeps
  <2>3. CASE AbortCurrent(cl)
    BY <1>1, <1>2, <1>3, <1>5, <1>11, <2>3, AbortKeeps DEF Kept
  <2> QED BY <2>1, <2>2, <2>3 DEF PlayPcm
<1>12. CASE ~Pending /\ e.type = "done"
  <2>1. DoneEvent
    BY <1>2, <1>12 DEF OnEvent
  <2>2. CASE LoseConnection
    BY <1>2, <2>2, LostKeeps
  <2>3. CASE ~LoseConnection
    <3>1. /\ cl' = [cl EXCEPT !.state = "DrainingPlayback"] /\ Locally
          /\ playback' = IF playback = "active" THEN "ending" ELSE playback
      BY <2>1, <2>3 DEF DoneEvent
    <3>2. playback' \in Playbacks
      BY <1>3, <3>1 DEF Playbacks
    <3>3. /\ cl' \in ClStates /\ Modes' /\ cl'.state = "DrainingPlayback" /\ cl'.epoch = cl.epoch
          /\ Kept(cl')
      BY <1>1, <1>3, <1>5, <1>12, <3>1
         DEF ClStates, States, Modes, ModesOf, NoStalePlayback, Session, Kept
    <3>6. /\ cl.response = cl.epoch /\ tr.response = cl.epoch /\ tr.response # 0
          /\ tr.response_done
      BY <1>12, <1>16 DEF OfAnswer
    <3>7. KnownOf(cl', tr, rest, overflow)
      BY <1>12, <1>15, <3>3, <3>6 DEF Kept
    <3>4. \A f \in Elements(rest) : f.id = 0
      BY <1>1, <1>3, <1>4, <1>12 DEF Queue_, Current
    <3>5. ~tr.active
      BY <1>1, <1>12 DEF Current
    <3> QED BY <1>1, <1>2, <1>5, <1>12, <3>1, <3>2, <3>3, <3>4, <3>5, <3>6, <3>7, QuietKeeps
            DEF Waits, Pending, Kept
  <2> QED BY <2>2, <2>3
<1>13. CASE e.type = "cancelled"
  <2>1. Pending /\ Ends(e)
    BY <1>1, <1>13 DEF Current, Ends
  <2> QED BY <1>1, <1>2, <1>5, <1>13, <2>1, CompleteKeeps DEF OnEvent
<1> QED
  BY <1>6, <1>7, <1>8, <1>9, <1>10, <1>11, <1>12, <1>13 DEF e

LEMMA HandleEventKeeps ==
  ASSUME ClientInv, HandleEvent, UNCHANGED <<sv, raced>>
  PROVE  Sound
<1>1. /\ cl.at = "loop" /\ events # <<>> /\ ~overflow /\ Leaving(Tail(events)) /\ Aside
      /\ IF Head(events).type \in {"transport", "error", "gap"}
         THEN OnErrorEvent(Head(events)) ELSE OnEvent(Head(events))
  BY DEF HandleEvent, Loop, Aside, ClientInv, Typed
<1>2. CASE Head(events).type \in {"transport", "error", "gap"}
  BY <1>1, <1>2, ErrorEventKeeps
<1>3. CASE Head(events).type \notin {"transport", "error", "gap"}
  BY <1>1, <1>3, EventKeeps
<1> QED
  BY <1>2, <1>3

-----------------------------------------------------------------------------
(* The screen, the deadlines and the playback.                             *)

LEMMA DeadlinesKeep ==
  ASSUME ClientInv, Deadlines, UNCHANGED <<sv, raced>>
  PROVE  Sound
<1>1. cl.at = "loop" /\ Aside /\ cl \in ClStates /\ RestOf(events)
  BY DEF Deadlines, EventsOverflowed, ConnectTimeout, HeartbeatTimeout, Lose, Step, Loop, Aside,
         ClientInv, Typed, RestOf
<1>2. CASE LoseConnection /\ \E rest : Leaving(rest)
  BY <1>1, <1>2, LostKeeps
<1>3. CASE Step(TurnTimeout)
  <2>1. Session /\ cl.state \notin Waits /\ AbortCurrent(cl) /\ Leaving(events)
    BY <1>3 DEF Step, TurnTimeout, Waits
  <2> QED BY <1>1, <2>1, AbortKeeps DEF Kept
<1>4. ~Step(TurnTimeout) => LoseConnection /\ \E rest : Leaving(rest)
  BY DEF Deadlines, EventsOverflowed, ConnectTimeout, HeartbeatTimeout, Lose, Step, CancelTimeout
<1> QED
  BY <1>2, <1>3, <1>4

\* A drained playback: Run returns, or the turn is over.
LEMMA DrainKeeps ==
  ASSUME ClientInv, DrainEnds, UNCHANGED <<sv, raced>>
  PROVE  Sound
<1>1. /\ cl.at = "loop" /\ cl \in ClStates /\ RestOf(events) /\ Session
      /\ cl.state = "DrainingPlayback" /\ playback \in {"idle", "failed"}
  BY DEF DrainEnds, Loop, ClientInv, Typed, RestOf
<1>2. CASE playback = "failed"
  <2>1. UNCHANGED <<transport, cl, playback>> /\ running' = FALSE
    BY <1>2 DEF DrainEnds
  <2>2. UNCHANGED <<s2c, events, overflow>> /\ Locally /\ Aside
    BY <2>1 DEF transport, Locally, Aside
  <2>3. KnownOf(cl, tr, events, overflow) /\ (cl.response # 0 => tr.response # 0)
    BY DEF ClientInv, Known, KnownOf
  <2> QED BY <1>1, <2>1, <2>2, <2>3, QuietKeeps
          DEF ClientInv, Typed, Modes, ModesOf, NoStalePlayback
<1>3. CASE playback # "failed"
  <2>1. FinishTurn(cl, TRUE) /\ Leaving(events) /\ Aside
    BY <1>3 DEF DrainEnds, Aside, ClientInv, Typed
  <2>2. tr.turn = cl.epoch
    BY <1>1 DEF ClientInv, Links, SameTurn, Waits
  <2>3. Closed(tr)
    BY <1>1, <2>2 DEF ClientInv, Links, TurnOver, Closed, Pending
  <2>4. \A e \in Elements(events) : e.id = 0
    BY <1>1 DEF ClientInv, Queue_, Current
  <2> QED BY <1>1, <2>1, <2>2, <2>3, <2>4, FinishTurnKeeps DEF Kept
<1> QED
  BY <1>2, <1>3

\* The playback thread, a touch, and nobody speaking.
LEMMA ScreenKeeps ==
  ASSUME ClientInv, UNCHANGED <<sv, raced>>,
         PlaybackEnds \/ Step(TouchWake) \/ Step(TouchInterrupt) \/ Step(NobodySpeaks)
  PROVE  Sound
<1>1. RestOf(events) /\ cl \in ClStates /\ Aside /\ Modes /\ playback \in Playbacks
  BY DEF RestOf, ClientInv, Typed, Aside, PlaybackEnds, Step
<1>6. Known /\ (cl.response # 0 => tr.response # 0)
  BY DEF ClientInv, Known, KnownOf
<1>2. CASE PlaybackEnds
  <2>1. UNCHANGED <<s2c, events, overflow>> /\ Locally /\ cl' = cl
    BY <1>2 DEF PlaybackEnds, transport, Locally
  <2>2. playback' \in Playbacks /\ Modes'
    BY <1>1, <1>2, <2>1 DEF PlaybackEnds, Playbacks, Modes, ModesOf, NoStalePlayback
  <2> QED BY <1>1, <1>6, <2>1, <2>2, QuietKeeps DEF Known
<1>3. CASE Step(TouchWake)
  <2>1. cl' = [cl EXCEPT !.wake = TRUE] /\ playback' = playback /\ Locally /\ Leaving(events)
    BY <1>3 DEF Step, TouchWake
  <2>2. /\ cl' \in ClStates /\ Modes' /\ cl'.state = cl.state /\ cl'.epoch = cl.epoch
        /\ Kept(cl') /\ cl'.up = cl.up /\ cl'.at = cl.at
    BY <1>1, <2>1 DEF ClStates, Modes, ModesOf, NoStalePlayback, Kept
  <2>3. KnownOf(cl', tr, events, overflow)
    BY <1>6, <2>2, KnownStays DEF Kept
  <2> QED BY <1>1, <1>6, <2>1, <2>2, <2>3, QuietKeeps DEF Kept
<1>4. CASE Step(TouchInterrupt)
  <2>1. Session
    BY <1>1, <1>4 DEF Step, TouchInterrupt, Modes, ModesOf, Session
  <2>2. cl.at = "loop" /\ cl.state \notin Waits /\ AbortCurrent(cl) /\ Leaving(events)
    BY <1>4 DEF Step, Loop, TouchInterrupt, Waits
  <2> QED BY <1>1, <2>1, <2>2, AbortKeeps DEF Kept
<1>5. CASE Step(NobodySpeaks)
  <2>1. /\ cl' = [cl EXCEPT !.state = "WaitingForWake", !.pre = 0] /\ playback' = playback
        /\ Locally /\ Leaving(events) /\ cl.at = "loop"
        /\ cl.state \in {"WaitingForSpeech", "WaitingForFollowUp"}
    BY <1>5 DEF Step, Loop, NobodySpeaks
  <2>2. 0 \in 0..PreRoll
    BY ClientAssumption DEF ClientAssumption
  <2>3. /\ cl' \in ClStates /\ Modes' /\ cl'.state = "WaitingForWake" /\ cl'.epoch = cl.epoch
        /\ Kept(cl')
    BY <1>1, <2>1, <2>2 DEF ClStates, States, Modes, ModesOf, NoStalePlayback, Kept
  <2>4. KnownOf(cl', tr, events, overflow)
    BY <1>6, <2>1, <2>3, KnownStays DEF Kept, Waits
  <2> QED BY <1>1, <1>6, <2>1, <2>3, <2>4, QuietKeeps DEF Waits, Kept
<1> QED
  BY <1>2, <1>3, <1>4, <1>5

-----------------------------------------------------------------------------
(* OnFrame.                                                                *)

LEMMA SavedIs ==
  ASSUME ClientInv
  PROVE  /\ Saved \in ClStates /\ Saved.state = cl.state /\ Saved.epoch = cl.epoch
         /\ Saved.at = cl.at /\ Saved.up = cl.up /\ Saved.admitted = cl.admitted
         /\ Saved.response = cl.response /\ cl.pre <= Saved.pre /\ Kept(Saved)
<1>1. cl \in ClStates /\ cl.pre \in 0..PreRoll /\ PreRoll \in Nat
  BY ClientAssumption DEF ClientInv, Typed, ClStates, ClientAssumption
<1>2. CASE Saved = cl
  BY <1>1, <1>2 DEF Kept
<1>3. CASE Saved # cl
  <2>1. Saved = [cl EXCEPT !.pre = @ + 1] /\ cl.pre # PreRoll
    BY <1>3 DEF Saved
  <2>2. cl.pre + 1 \in 0..PreRoll /\ cl.pre <= cl.pre + 1
    BY <1>1, <2>1
  <2> QED BY <1>1, <2>1, <2>2 DEF ClStates, Kept
<1> QED
  BY <1>2, <1>3

\* A frame that changes neither the turn nor who owns the playback.
LEMMA BecomesKeeps ==
  ASSUME ClientInv, cl.at = "loop", Leaving(events), Aside,
         NEW c \in ClStates, Becomes(c), c.epoch = cl.epoch, c.at = "loop",
         c.admitted = cl.admitted, Kept(c),
         c.state = cl.state \/ (cl.state \in Waits /\ c.state \in Waits /\ Session),
         cl.state # "CapturingSpeech"
  PROVE  Sound
<1>1. cl' = c /\ playback' = playback /\ Locally
  BY DEF Becomes
<1>2. Modes'
  BY <1>1 DEF ClientInv, Modes, ModesOf, NoStalePlayback, Waits, Session
<1>3. Known /\ (cl.response # 0 => tr.response # 0)
  BY DEF ClientInv, Known, KnownOf
<1>4. KnownOf(c, tr, events, overflow)
  BY <1>3 DEF Known, KnownOf, Told, Kept, Waits
<1> QED
  BY <1>1, <1>2, <1>3, <1>4, QuietKeeps DEF ClientInv, Typed, RestOf, Waits, Kept

LEMMA DiscontinuityKeeps ==
  ASSUME ClientInv, cl.at = "loop", Leaving(events), Aside, Discontinuity
  PROVE  Sound
<1> DEFINE c == [cl EXCEPT !.pre = 0]
<1>5. Known /\ (cl.response # 0 => tr.response # 0)
  BY DEF ClientInv, Known, KnownOf
<1>1. /\ c \in ClStates /\ c.epoch = cl.epoch /\ c.at = "loop" /\ c.state = cl.state
      /\ c.admitted = cl.admitted /\ Kept(c)
  <2>1. 0 \in 0..PreRoll /\ cl \in ClStates
    BY ClientAssumption DEF ClientInv, Typed, ClientAssumption
  <2> QED BY <2>1 DEF ClStates, Kept
<1>2. CASE Pending
  <2>1. cl' = [ResetBargeTurn(c) EXCEPT !.finish = TRUE] /\ playback' = playback /\ Locally
    BY <1>2 DEF Discontinuity, Pending
  <2> HIDE DEF c
  <2>2. /\ cl' \in ClStates /\ cl'.state = cl.state /\ cl'.epoch = cl.epoch /\ cl'.at = "loop"
        /\ ~cl'.admitted /\ Kept(cl')
    BY <1>1, <2>1 DEF ResetBargeTurn, ClStates, Kept
  <2>3. Modes'
    BY <1>2, <2>1, <2>2 DEF ClientInv, Modes, ModesOf, NoStalePlayback, Pending
  <2>4. KnownOf(cl', tr, events, overflow)
    BY <1>2, <1>5, <2>2, KnownPending DEF Pending, Kept
  <2> QED BY <1>5, <2>1, <2>2, <2>3, <2>4, QuietKeeps DEF RestOf, ClientInv, Typed, Kept
<1>3. CASE cl.state \in {"CapturingSpeech", "WaitingForResponse", "PlayingResponse",
                         "DrainingPlayback"}
  <2>1. AbortCurrent(c)
    BY <1>3 DEF Discontinuity, Pending
  <2>2. Session /\ cl.state \notin Waits
    BY <1>3 DEF ClientInv, Modes, ModesOf, Session, Waits
  <2> HIDE DEF c
  <2> QED BY <1>1, <2>1, <2>2, AbortKeeps DEF RestOf
<1>4. CASE cl.state \in Waits
  <2>1. cl' = [c EXCEPT !.state = "WaitingForWake"] /\ playback' = Dropped /\ Locally
    BY <1>4 DEF Discontinuity, Pending, Waits, DropPlayback
  <2> HIDE DEF c
  <2>2. /\ cl' \in ClStates /\ cl'.state = "WaitingForWake" /\ cl'.epoch = cl.epoch
        /\ cl'.at = "loop" /\ cl'.admitted = cl.admitted /\ Kept(cl')
    BY <1>1, <2>1 DEF ClStates, States, Kept
  <2>3. playback' \in Playbacks /\ playback' \notin {"active", "ending"}
    BY <2>1, DroppedIs DEF ClientInv, Typed
  <2>4. Modes'
    BY <2>2, <2>3 DEF ClientInv, Modes, ModesOf, NoStalePlayback
  <2>5. KnownOf(cl', tr, events, overflow)
    BY <1>4, <1>5, <2>2, KnownStays DEF Kept, Waits
  <2> QED BY <1>4, <1>5, <2>1, <2>2, <2>3, <2>4, <2>5, QuietKeeps DEF RestOf, Waits, Kept
<1> QED
  BY <1>2, <1>3, <1>4 DEF ClientInv, Typed, ClStates, States, Pending, Waits

\* AwaitSpeech: the utterance begins a turn.
LEMMA AwaitSpeechKeeps ==
  ASSUME ClientInv, cl.at = "loop", Leaving(events), Aside, Session, cl.epoch \in Epochs,
         cl.state \in {"WaitingForSpeech", "WaitingForFollowUp"},
         NEW starts \in BOOLEAN, AwaitSpeech(starts)
  PROVE  Sound
<1>1. /\ Saved \in ClStates /\ Saved.state = cl.state /\ Saved.epoch = cl.epoch
      /\ Saved.at = cl.at /\ Saved.admitted = cl.admitted /\ Kept(Saved)
  BY SavedIs
<1>2. CASE ~starts
  <2>1. Becomes(Saved)
    BY <1>2 DEF AwaitSpeech
  <2> QED BY <1>1, <2>1, BecomesKeeps
<1>3. CASE starts
  <2>1. StartTurn(Saved, FALSE, playback)
    BY <1>3 DEF AwaitSpeech
  <2>2. playback \in Playbacks /\ playback \notin {"active", "ending"}
    BY DEF ClientInv, Typed, Modes, NoStalePlayback
  <2>3. \A e \in Elements(events) : e.id = 0
    BY DEF ClientInv, Queue_, Current, Links, SameTurn, Waits, Typed, TrStates
  <2>4. Saved.admitted => Saved.epoch < MaxEpoch
    BY <1>1 DEF ClientInv, Modes, ModesOf
  <2>5. cl.response = 0
    <3>1. tr.turn # cl.epoch /\ tr.response \in {0, tr.turn}
      BY DEF ClientInv, Links, SameTurn, TurnOf, Waits, Typed, TrStates
    <3> QED BY <3>1 DEF ClientInv, Known, KnownOf
  <2> QED BY <1>1, <2>1, <2>2, <2>3, <2>4, <2>5, StartTurnKeeps DEF RestOf, Kept
<1> QED
  BY <1>2, <1>3

\* SendAudioOrRecover, whatever the transport says.
LEMMA SendAudioKeeps ==
  ASSUME ClientInv, Leaving(events), Aside, Session, cl.state = "CapturingSpeech",
         NEW c \in ClStates, c.epoch = cl.epoch, c.up = cl.up, Kept(c), NEW end \in BOOLEAN,
         NEW then \in ClStates, then.epoch = cl.epoch, then.state = "CapturingSpeech",
         Kept(then), end <=> then.at = "commit",
         then.up = cl.up, cl.up < MaxFrames, ModesOf([then EXCEPT !.up = @ + 1]),
         SendAudioOrRecover(c, end, then)
  PROVE  Sound
<1>1. CASE LoseConnection
  BY <1>1, LostKeeps
<1>2. CASE AbortCurrent([c EXCEPT !.at = "loop"])
  <2> DEFINE d == [c EXCEPT !.at = "loop"]
  <2>1. d \in ClStates /\ d.epoch = cl.epoch /\ d.at = "loop" /\ AbortCurrent(d) /\ Kept(d)
    BY <1>2 DEF ClStates, Kept
  <2> HIDE DEF d
  <2> QED BY <2>1, AbortKeeps DEF RestOf, Waits
<1>3. CASE PcmOutcome(c.epoch, c.up) = "ok" /\ SendPcm(c.epoch, c.up, end)
           /\ cl' = [then EXCEPT !.up = @ + 1] /\ UNCHANGED <<playback, cut>>
  <2>1. /\ PcmValid(c.epoch, c.up) /\ Room
    BY <1>3 DEF PcmOutcome
  <2>2. /\ tr.conn = "open" /\ cl.epoch = tr.turn /\ cl.up = tr.uplink /\ tr \in TrStates
        /\ cl.epoch \in Epochs /\ cl.up \in Nat /\ MaxFrames \in Nat
    <3>1. tr.conn = "open" /\ cl.epoch = tr.turn /\ cl.up = tr.uplink
      BY <2>1 DEF PcmValid
    <3>2. tr \in TrStates /\ cl \in ClStates /\ MaxFrames \in Nat
      BY TransportAssumption DEF ClientInv, Typed, TransportAssumption
    <3>3. tr.turn \in 0..MaxEpoch /\ cl.up \in Nat /\ tr.turn # 0
      BY <3>1, <3>2 DEF TrStates, ClStates, Session
    <3> QED BY <3>1, <3>2, <3>3 DEF Epochs
  <2> DEFINE m == Pcm(cl.epoch, cl.up, (IF cl.up = 0 THEN {"START"} ELSE {})
                                       \cup (IF end THEN {"END"} ELSE {}))
  <2>3. /\ c2s' = Append(c2s, m) /\ tr' = [tr EXCEPT !.uplink = @ + 1, !.uplink_ended = end]
    BY <1>3 DEF SendPcm
  <2>4. m \in Uplink /\ m.type = "pcm" /\ m.id = cl.epoch
    <3> DEFINE flags == (IF cl.up = 0 THEN {"START"} ELSE {}) \cup (IF end THEN {"END"} ELSE {})
    <3>1. flags \in SUBSET Flags
      BY DEF Flags
    <3>2. cl.up \in 0..MaxFrames
      BY <2>2
    <3> HIDE DEF flags
    <3> QED BY <2>2, <3>1, <3>2 DEF Pcm, Uplink, flags
  <2>5. tr.uplink + 1 \in 0..MaxFrames /\ cl.up + 1 \in 0..MaxFrames
    BY <2>2
  <2>6. /\ tr' \in TrStates /\ SameAnswer(tr') /\ tr'.cancel_sent = tr.cancel_sent
        /\ ~tr'.committed /\ tr'.uplink = cl.up + 1 /\ (tr'.uplink_ended <=> end)
    BY <2>1, <2>2, <2>3, <2>5 DEF TrStates, SameAnswer, PcmValid
  <2>7. /\ cl' \in ClStates /\ ModesOf(cl') /\ cl'.epoch = cl.epoch
        /\ cl'.state = "CapturingSpeech" /\ Kept(cl') /\ cl'.up = cl.up + 1
        /\ cl'.at = then.at
    BY <1>3, <2>5 DEF ClStates, Kept
  <2> HIDE DEF m
  <2> QED BY <1>3, <2>1, <2>2, <2>3, <2>4, <2>6, <2>7, SpeechKeeps
<1> QED
  BY <1>1, <1>2, <1>3 DEF SendAudioOrRecover

LEMMA CaptureKeeps ==
  ASSUME ClientInv, cl.at = "loop", Leaving(events), Aside, Session,
         cl.state = "CapturingSpeech", NEW frame, Capture(frame)
  PROVE  Sound
<1> DEFINE c == [cl EXCEPT !.ended = FALSE]
           then == [c EXCEPT !.at = "commit"]
<1>1. cl \in ClStates /\ cl.up < MaxFrames /\ cl.up \in Nat /\ MaxFrames \in Nat /\ ModesOf(cl)
  BY TransportAssumption DEF ClientInv, Typed, ClStates, Modes, ModesOf, TransportAssumption
<1>2. c \in ClStates /\ c.epoch = cl.epoch /\ c.up = cl.up /\ c.admitted = cl.admitted
      /\ c.state = "CapturingSpeech" /\ Kept(c)
  BY <1>1 DEF ClStates, Kept
<1>3. CASE cl.up + 1 >= MaxFrames \/ cl.ended \/ frame = "ended"
  <2>1. SendAudioOrRecover(c, TRUE, then)
    BY <1>3 DEF Capture
  <2> HIDE DEF c
  <2>2. /\ then \in ClStates /\ then.epoch = cl.epoch /\ then.state = "CapturingSpeech"
        /\ then.up = cl.up /\ then.at = "commit" /\ then.admitted = cl.admitted /\ Kept(then)
    BY <1>2 DEF ClStates, Kept
  <2> HIDE DEF then
  <2>3. ModesOf([then EXCEPT !.up = @ + 1])
    BY <1>1, <2>2 DEF ModesOf, ClStates, Session
  <2> QED BY <1>1, <1>2, <2>1, <2>2, <2>3, SendAudioKeeps
<1>4. CASE ~(cl.up + 1 >= MaxFrames \/ cl.ended \/ frame = "ended")
  <2>1. SendAudioOrRecover(cl, FALSE, cl)
    BY <1>4 DEF Capture
  <2>2. ModesOf([cl EXCEPT !.up = @ + 1])
    <3>1. cl.up + 1 < MaxFrames
      BY <1>1, <1>4
    <3> QED BY <1>1, <3>1 DEF ModesOf, ClStates
  <2> QED BY <1>1, <2>1, <2>2, SendAudioKeeps DEF Kept
<1> QED
  BY <1>3, <1>4

\* A barge-in: the answer is cancelled, and the next turn is admitted.
LEMMA BargeKeeps ==
  ASSUME ClientInv, cl.at = "loop", Leaving(events), Aside, Session, cl.epoch < MaxEpoch,
         cl.state \notin Waits, ConfirmBarge(Saved)
  PROVE  Sound
<1>1. Saved \in ClStates /\ Saved.epoch = cl.epoch /\ Saved.at = "loop" /\ Kept(Saved)
  BY SavedIs
<1>2. CASE MayResponseCancel(Saved.response)
  <2>1. /\ SendCancel(cl.epoch) /\ playback' = Dropped
        /\ cl' = CancelPending([ResetBargeTurn(Saved) EXCEPT !.admitted = TRUE, !.finish = FALSE])
    BY <1>1, <1>2 DEF ConfirmBarge, DropPlayback
  <2>2. /\ cl' \in ClStates /\ ModesOf(cl') /\ cl'.epoch = cl.epoch
        /\ cl'.state = "CancelPending" /\ Kept(cl')
    <3> HIDE DEF Saved
    <3>1. /\ cl' \in ClStates /\ cl'.epoch = cl.epoch /\ cl'.state = "CancelPending"
          /\ cl'.at = "loop" /\ Kept(cl')
      BY <1>1, <2>1 DEF CancelPending, ResetBargeTurn, ClStates, States, Kept
    <3> QED BY <3>1 DEF ModesOf, Session, ClStates
  <2>3. tr.active \/ tr.response_done
    BY <1>2 DEF MayResponseCancel
  <2>4. tr.cancel_sent \/ tr.conn = "open"
    BY <1>2 DEF MayResponseCancel
  <2> QED BY <2>1, <2>2, <2>3, <2>4, CancelKeeps, DroppedIs DEF ClientInv, Typed, RestOf
<1>3. CASE ~MayResponseCancel(Saved.response)
  BY <1>3, LostKeeps DEF ConfirmBarge
<1> QED
  BY <1>2, <1>3

LEMMA FrameKeeps ==
  ASSUME ClientInv, NEW frame \in InScope, Step(OnFrame(frame)), UNCHANGED <<sv, raced>>
  PROVE  Sound
<1>1. /\ cl.at = "loop" /\ Leaving(events) /\ Aside /\ OnFrame(frame) /\ cl \in ClStates
      /\ cl.state \in States
  BY DEF Step, Loop, Aside, ClientInv, Typed, ClStates
<1>2. cl.epoch \in 0..MaxEpoch /\ (frame = "barge" => cl.epoch < MaxEpoch)
  <2>1. cl.epoch \in 0..(MaxEpoch + 1) /\ MaxEpoch \in Nat
    BY <1>1, TransportAssumption DEF ClStates, TransportAssumption
  <2>2. ~(cl.epoch > MaxEpoch) /\ (cl.epoch = MaxEpoch => frame # "barge")
    BY DEF InScope
  <2> QED BY <2>1, <2>2
<1>3. /\ Saved \in ClStates /\ Saved.state = cl.state /\ Saved.epoch = cl.epoch
      /\ Saved.at = cl.at /\ Saved.admitted = cl.admitted /\ Kept(Saved)
  BY SavedIs
<1>4. CASE frame = "gap"
  BY <1>1, <1>4, DiscontinuityKeeps DEF OnFrame
<1>5. CASE frame # "gap" /\ ~Session
  <2>1. Becomes(Saved)
    BY <1>1, <1>5 DEF OnFrame
  <2>2. cl.state = "WaitingForWake"
    BY <1>5 DEF ClientInv, Modes, ModesOf, Session
  <2> QED BY <1>1, <1>3, <2>1, <2>2, BecomesKeeps
<1>6. CASE frame # "gap" /\ Session /\ cl.state = "WaitingForWake"
  <2>1. AwaitWake(frame)
    BY <1>1, <1>6 DEF OnFrame
  <2> DEFINE c == [Saved EXCEPT !.state = "WaitingForSpeech", !.wake = FALSE]
  <2>2. CASE Becomes(Saved)
    BY <1>1, <1>3, <1>6, <2>2, BecomesKeeps
  <2>3. CASE Becomes(c)
    <3>1. c \in ClStates /\ c.epoch = cl.epoch /\ c.at = "loop" /\ c.admitted = cl.admitted
          /\ c.state = "WaitingForSpeech" /\ Kept(c)
      BY <1>1, <1>3 DEF ClStates, States, Kept
    <3> HIDE DEF c
    <3> QED BY <1>1, <1>6, <2>3, <3>1, BecomesKeeps DEF Waits
  <2> QED BY <2>1, <2>2, <2>3 DEF AwaitWake
<1>7. CASE frame # "gap" /\ Session /\ cl.state \in {"WaitingForSpeech", "WaitingForFollowUp"}
  <2>1. PICK starts \in BOOLEAN : AwaitSpeech(starts)
    <3>1. (frame = "started") \in BOOLEAN /\ (frame = "follow") \in BOOLEAN
      OBVIOUS
    <3>2. cl.state = "WaitingForSpeech" => AwaitSpeech(frame = "started")
      BY <1>1, <1>7 DEF OnFrame
    <3>3. cl.state = "WaitingForFollowUp" => AwaitSpeech(frame = "follow")
      BY <1>1, <1>7 DEF OnFrame
    <3> QED BY <1>7, <3>1, <3>2, <3>3
  <2>2. cl.epoch \in Epochs
    BY <1>2, <1>7 DEF Epochs, Session
  <2> QED BY <1>1, <1>7, <2>1, <2>2, AwaitSpeechKeeps
<1>8. CASE frame # "gap" /\ Session /\ cl.state = "CapturingSpeech"
  <2>1. Capture(frame)
    BY <1>1, <1>8 DEF OnFrame
  <2> QED BY <1>1, <1>8, <2>1, CaptureKeeps
<1>9. CASE frame # "gap" /\ Session /\ cl.state = "CancelPending"
  <2> DEFINE c == [Saved EXCEPT !.ended = @ \/ frame = "ended",
                                !.full = @ \/ (frame = "full" /\ cl.admitted /\ ~cl.ended)]
  <2>1. Becomes(c)
    BY <1>1, <1>9 DEF OnFrame, AwaitCancelled
  <2>2. c \in ClStates /\ c.epoch = cl.epoch /\ c.at = "loop" /\ c.admitted = cl.admitted
        /\ c.state = cl.state /\ Kept(c)
    BY <1>1, <1>3 DEF ClStates, Kept
  <2> HIDE DEF c
  <2> QED BY <1>1, <1>9, <2>1, <2>2, BecomesKeeps
<1>10. CASE frame # "gap" /\ Session /\ cl.state \in {"PlayingResponse", "DrainingPlayback"}
  <2>1. IF frame = "barge" THEN ConfirmBarge(Saved) ELSE Becomes(Saved)
    BY <1>1, <1>10 DEF OnFrame
  <2>2. CASE frame = "barge"
    BY <1>1, <1>2, <1>10, <2>1, <2>2, BargeKeeps DEF Waits
  <2>3. CASE frame # "barge"
    BY <1>1, <1>3, <1>10, <2>1, <2>3, BecomesKeeps
  <2> QED BY <2>2, <2>3
<1>11. CASE frame # "gap" /\ Session /\ cl.state = "WaitingForResponse"
  <2>1. Becomes(Saved)
    BY <1>1, <1>11 DEF OnFrame
  <2> QED BY <1>1, <1>3, <1>11, <2>1, BecomesKeeps
<1> QED
  BY <1>1, <1>4, <1>5, <1>6, <1>7, <1>8, <1>9, <1>10, <1>11 DEF States

LEMMA PreRollKeeps ==
  ASSUME ClientInv, SendPreRoll, UNCHANGED <<sv, raced>>
  PROVE  Sound
<1> DEFINE last == cl.up + 1 = cl.pre
           final == cl.at = "final"
           sent == [cl EXCEPT !.pre = 0, !.at = IF final THEN "commit" ELSE "loop"]
           then == IF last THEN sent ELSE cl
           end == final /\ last
<1>1. /\ cl.at \in {"preroll", "final"} /\ SendAudioOrRecover(cl, end, then) /\ Leaving(events)
      /\ Aside
  BY DEF SendPreRoll, Aside, ClientInv, Typed
<1>2. /\ cl \in ClStates /\ cl.up \in Nat /\ cl.pre \in 0..PreRoll /\ PreRoll \in Nat
      /\ MaxFrames \in Nat /\ PreRoll < MaxFrames
  BY TransportAssumption, ClientAssumption
     DEF ClientInv, Typed, ClStates, TransportAssumption, ClientAssumption
<1>3. cl.up < cl.pre /\ cl.state = "CapturingSpeech" /\ Session /\ ModesOf(cl)
  BY <1>1 DEF ClientInv, Modes, ModesOf, Session
<1>4. cl.up + 1 < MaxFrames
  BY <1>2, <1>3
<1>5. /\ sent \in ClStates /\ sent.epoch = cl.epoch /\ sent.state = "CapturingSpeech"
      /\ sent.up = cl.up /\ sent.at \in {"loop", "commit"} /\ sent.admitted = cl.admitted
      /\ Kept(sent) /\ (sent.at = "commit" <=> final)
  <2>1. 0 \in 0..PreRoll
    BY <1>2
  <2> QED BY <1>2, <1>3, <2>1 DEF ClStates, Kept
<1> HIDE DEF sent
<1>6. /\ then \in ClStates /\ then.epoch = cl.epoch /\ then.state = "CapturingSpeech"
      /\ then.up = cl.up /\ then.admitted = cl.admitted
      /\ ~last => then = cl
      /\ last => then.at \in {"loop", "commit"}
      /\ Kept(then)
  BY <1>2, <1>3, <1>5 DEF Kept
<1>10. end <=> then.at = "commit"
  BY <1>1, <1>5
<1> HIDE DEF then
<1>7. ModesOf([then EXCEPT !.up = @ + 1])
  <2>1. CASE last
    BY <1>2, <1>3, <1>4, <1>6, <2>1 DEF ModesOf, ClStates
  <2>2. CASE ~last
    <3>1. cl.up + 1 < cl.pre
      BY <1>2, <1>3, <2>2
    <3> QED BY <1>2, <1>3, <1>4, <1>6, <2>2, <3>1 DEF ModesOf, ClStates
  <2> QED BY <2>1, <2>2
<1>8. end \in BOOLEAN
  OBVIOUS
<1> HIDE DEF end
<1>9. cl.up < MaxFrames
  BY <1>2, <1>4
<1> QED BY <1>1, <1>2, <1>3, <1>6, <1>7, <1>8, <1>9, <1>10, SendAudioKeeps DEF Kept

LEMMA CommitKeeps ==
  ASSUME ClientInv, SendTurnCommit, UNCHANGED <<sv, raced>>
  PROVE  Sound
<1>1. cl.at = "commit" /\ Leaving(events) /\ Aside /\ cl \in ClStates
  BY DEF SendTurnCommit, Aside, ClientInv, Typed
<1>2. cl.state = "CapturingSpeech" /\ Session /\ ModesOf(cl)
  BY <1>1 DEF ClientInv, Modes, ModesOf, Session
<1>3. CASE ~MayCommit(cl.epoch)
  BY <1>1, <1>3, LostKeeps DEF SendTurnCommit
<1>4. CASE MayCommit(cl.epoch)
  <2>1. /\ SendCommit(cl.epoch) /\ playback' = playback /\ cut' = cut
        /\ cl' = [cl EXCEPT !.state = "WaitingForResponse", !.at = "loop"]
    BY <1>4 DEF SendTurnCommit
  <2>2. tr.conn = "open" /\ Room /\ cl.epoch = tr.turn /\ tr \in TrStates
    BY <1>4 DEF MayCommit, ClientInv, Typed
  <2>3. cl.epoch \in Epochs
    BY <1>2, <2>2 DEF TrStates, Epochs, Session
  <2> DEFINE m == Message("turn.commit", cl.epoch)
  <2>4. m \in Uplink /\ m.type = "turn.commit" /\ m.id = cl.epoch
    BY <2>3 DEF Message, Uplink, Epochs
  <2>5. c2s' = Append(c2s, m) /\ tr' = [tr EXCEPT !.committed = TRUE]
    BY <2>1 DEF SendCommit
  <2> HIDE DEF m
  <2>6. /\ tr' \in TrStates /\ SameAnswer(tr') /\ tr'.cancel_sent = tr.cancel_sent
        /\ tr'.committed
    BY <2>2, <2>5 DEF TrStates, SameAnswer
  <2>7. /\ cl' \in ClStates /\ cl'.epoch = cl.epoch /\ cl'.state = "WaitingForResponse"
        /\ cl'.at = "loop" /\ cl'.admitted = cl.admitted /\ Kept(cl')
    BY <1>1, <2>1 DEF ClStates, States, Kept
  <2>8. ModesOf(cl')
    BY <1>2, <2>7 DEF ModesOf, Session
  <2> QED BY <1>1, <1>2, <2>1, <2>2, <2>4, <2>5, <2>6, <2>7, <2>8, SpeechKeeps
<1> QED
  BY <1>3, <1>4

\* Every step of the application keeps the invariant, and sends nothing else.
LEMMA ClientSteps ==
  ASSUME ClientInv, ClientStep
  PROVE  Sound
BY ConnectKeeps, HandleEventKeeps, ScreenKeeps, DrainKeeps, FrameKeeps, PreRollKeeps, CommitKeeps,
   DeadlinesKeep DEF ClientStep, Application

-----------------------------------------------------------------------------
(* The network: OnText and OnBinary.                                       *)

\* What a message may do to the transport: nothing it let go comes back.
Followed(t) ==
  /\ t \in TrStates /\ t.turn = tr.turn /\ TurnOf(t)
  /\ t.conn \in {"open", "failed"} /\ (t.conn = "open" => tr.conn = "open")
  /\ tr.session => t.session
  /\ t.active => tr.active
  /\ t.cancel_sent => tr.cancel_sent
  /\ Closed(tr) => Closed(t)
  /\ ~tr.active /\ ~tr.response_done => ~t.active /\ ~t.response_done
  /\ tr.cancel_sent => t.cancel_sent \/ (~t.active /\ ~t.response_done)
  /\ t.committed = tr.committed /\ t.uplink = tr.uplink /\ t.uplink_ended = tr.uplink_ended
  /\ tr.response # 0 => t.response = tr.response
  /\ tr.response_done => t.response_done \/ tr.cancel_sent

\* An event is let through only for the turn that runs, or to answer the
\* cancel of one that has just been over.
Emitted(t, e) ==
  /\ e \in Events
  /\ e.id # 0 => e.id = tr.turn
                 /\ (tr.active \/ (e.type = "cancelled" /\ tr.response_done /\ tr.cancel_sent))
  /\ Ends(e) => ~t.active /\ ~t.response_done
  /\ e.type = "done" => ~t.active /\ t.response_done
  /\ e.type = "response.start" => t.response = e.id
  /\ e.type \in OfAnswer => tr.response # 0
  /\ e.type = "cancelled" => tr.cancel_sent
  /\ e.type = "hello.ack" => ~tr.session /\ t.session
  /\ e.id = 0 <=> e.type \in {"hello.ack", "transport"} \/ (e.type = "error" /\ ~Ends(e))

\* The application is told of the answer's start and of the turn's end, unless
\* it has cut the turn itself.
Speaks(t, e) ==
  /\ tr.active /\ ~t.active => e.type \in {"done", "error", "cancelled"}
  /\ t.response # tr.response => tr.cancel_sent \/ e.type = "response.start"

Silence == Message("transport", 0)

\* A turn closes only by a message of its own.
ClosedBy(t, m) ==
  tr.active /\ ~t.active => m.type \in {"done", "cancelled", "error"} /\ m.id = tr.turn /\ m.id # 0

LEMMA Unchanged ==
  ASSUME ClientInv, tr.conn \in {"open", "failed"}
  PROVE  Followed(tr)
BY DEF ClientInv, Typed, Links, Followed

LEMMA SilenceMeans ==
  /\ Silence \in Events /\ Silence.type = "transport" /\ Silence.id = 0
  /\ \A t : Emitted(t, Silence)
<1>1. Silence \in Events /\ Silence.type = "transport" /\ Silence.id = 0
  BY DEF Silence, Events, Message
<1> QED
  BY <1>1 DEF Emitted, Ends, OfAnswer

LEMMA MessageMeans ==
  ASSUME ClientInv, tr.conn = "open", NEW m \in Downlink, Plausible(m), OnMessage(m).do # "bad"
  PROVE  /\ Followed(OnMessage(m).tr) /\ ClosedBy(OnMessage(m).tr, m)
         /\ OnMessage(m).do = "emit" => /\ Emitted(OnMessage(m).tr, OnMessage(m).event)
                                        /\ Speaks(OnMessage(m).tr, OnMessage(m).event)
         /\ OnMessage(m).do = "drop" => Speaks(OnMessage(m).tr, Silence)
         /\ OnMessage(m).tr.conn = "open"
<1> DEFINE seen == OnMessage(m)
           Means(s) == /\ Followed(s.tr) /\ ClosedBy(s.tr, m) /\ s.tr.conn = "open"
                       /\ s.do = "emit" => Emitted(s.tr, s.event) /\ Speaks(s.tr, s.event)
                       /\ s.do = "drop" => Speaks(s.tr, Silence)
<1>1. /\ tr \in TrStates /\ TurnOf(tr) /\ Followed(tr)
  BY Unchanged DEF ClientInv, Typed, Links
<1>2. Means(Drop)
  BY <1>1 DEF Drop, ClosedBy, Speaks
<1>3. Bad.do = "bad"
  BY DEF Bad, Drop
<1>4. m \in Events /\ m.id \in Nat
  BY DEF Events, Downlink, Epochs
<1>5. m.type \in {"hello.ack", "response.start", "cancelled", "error", "audio_start", "done", "pcm"}
  BY DEF Downlink
<1> SUFFICES Means(seen)
  OBVIOUS
<1>6. CASE m.type = "hello.ack"
  <2>1. seen = OnHelloAck(m)
    BY <1>6 DEF OnMessage
  <2> DEFINE t == [tr EXCEPT !.session = TRUE]
  <2>2. ~tr.session /\ seen = Emit(t, m) /\ m.id = 0
    BY <1>3, <1>6, <2>1 DEF OnHelloAck, Plausible
  <2>3. /\ Followed(t) /\ t.session /\ t.active = tr.active /\ t.response = tr.response
        /\ t.conn = "open"
    BY <1>1, <2>2 DEF Followed, TurnOf, Closed, TrStates
  <2> HIDE DEF t
  <2>4. Emitted(t, m) /\ Speaks(t, m)
    BY <1>4, <1>6, <2>2, <2>3 DEF Emitted, Ends, Speaks, OfAnswer
  <2> QED BY <2>2, <2>3, <2>4 DEF Emit, ClosedBy
<1>7. CASE m.type = "response.start"
  <2>1. seen = OnResponseStart(m)
    BY <1>7 DEF OnMessage
  <2> DEFINE t == [tr EXCEPT !.response = m.id, !.discard = tr.cancel_sent]
  <2>2. CASE seen = Drop
    BY <1>2, <2>2
  <2>3. CASE seen # Drop
    <3>1. /\ tr.active /\ m.id = tr.turn /\ tr.response = 0
          /\ seen = IF tr.cancel_sent THEN Keep(t) ELSE Emit(t, m)
      BY <1>3, <2>1, <2>3 DEF OnResponseStart
    <3>2. t \in TrStates
      BY <1>1, <3>1 DEF TrStates
    <3>3. Followed(t) /\ t.active /\ t.conn = "open" /\ t.response = m.id
      BY <1>1, <3>1, <3>2 DEF Followed, TurnOf, Closed, TrStates
    <3> HIDE DEF t
    <3>4. Emitted(t, m) /\ Speaks(t, m) /\ (tr.cancel_sent => Speaks(t, Silence))
      BY <1>1, <1>4, <1>7, <3>1, <3>3 DEF Emitted, Ends, TurnOf, Speaks, OfAnswer
    <3>5. /\ seen.tr = t /\ (seen.do = "emit" => seen.event = m)
          /\ seen.do = "drop" => tr.cancel_sent
      BY <3>1 DEF Keep, Drop, Emit
    <3> QED BY <3>3, <3>4, <3>5 DEF ClosedBy
  <2> QED BY <2>2, <2>3
<1>8. CASE m.type = "cancelled"
  <2>1. seen = OnCancelled(m)
    BY <1>8 DEF OnMessage
  <2> DEFINE t == [tr EXCEPT !.active = FALSE, !.response_done = FALSE,
                             !.cancel_sent = FALSE, !.discard = FALSE]
  <2>2. /\ tr.active \/ tr.response_done
        /\ tr.cancel_sent /\ m.id = tr.turn /\ seen = Emit(t, m)
    BY <1>3, <2>1 DEF OnCancelled
  <2>3. t \in TrStates
    BY <1>1 DEF TrStates
  <2>4. /\ Followed(t) /\ ~t.active /\ ~t.response_done /\ t.conn = "open"
        /\ t.response = tr.response
    BY <1>1, <2>2, <2>3 DEF Followed, TurnOf, Closed, TrStates
  <2> HIDE DEF t
  <2>5. m.id # 0
    BY <1>1, <2>2 DEF TurnOf
  <2>6. Emitted(t, m) /\ Speaks(t, m)
    BY <1>4, <1>8, <2>2, <2>4, <2>5 DEF Emitted, Ends, Speaks, OfAnswer
  <2> QED BY <1>8, <2>2, <2>4, <2>5, <2>6 DEF Emit, ClosedBy
<1>9. CASE m.type = "error"
  <2>1. seen = OnError(m)
    BY <1>9 DEF OnMessage
  <2> DEFINE t == [tr EXCEPT !.active = FALSE]
  <2>2. CASE seen = Drop
    BY <1>2, <2>2
  <2>3. CASE seen # Drop /\ m.id = 0
    <3>1. seen = Emit(tr, m)
      BY <2>1, <2>3 DEF OnError
    <3>2. Emitted(tr, m) /\ Speaks(tr, m)
      BY <1>4, <1>9, <2>3 DEF Emitted, Ends, Speaks, OfAnswer
    <3> QED BY <1>1, <3>1, <3>2 DEF Emit, ClosedBy
  <2>4. CASE seen # Drop /\ m.id # 0
    <3>1. tr.active /\ m.id = tr.turn /\ seen = Emit(t, m)
      BY <1>3, <2>1, <2>4 DEF OnError
    <3>2. t \in TrStates
      BY <1>1 DEF TrStates
    <3>3. /\ Followed(t) /\ ~t.active /\ ~t.response_done /\ t.conn = "open"
          /\ t.response = tr.response
      BY <1>1, <3>1, <3>2 DEF Followed, TurnOf, Closed, TrStates
    <3> HIDE DEF t
    <3>4. Emitted(t, m) /\ Speaks(t, m)
      BY <1>4, <1>9, <2>4, <3>1, <3>3 DEF Emitted, Ends, Speaks, OfAnswer
    <3> QED BY <1>9, <2>4, <3>1, <3>3, <3>4 DEF Emit, ClosedBy
  <2> QED BY <2>2, <2>3, <2>4
<1>10. CASE m.type = "audio_start"
  <2>1. seen = OnAudioStart(m)
    BY <1>10 DEF OnMessage
  <2> DEFINE t == [tr EXCEPT !.audio_started = TRUE]
  <2>2. CASE seen = Drop
    BY <1>2, <2>2
  <2>3. CASE seen # Drop
    <3>1. InResponse(m) /\ seen = Emit(t, m)
      BY <1>3, <2>1, <2>3 DEF OnAudioStart
    <3>2. tr.active /\ tr.response # 0 /\ m.id = tr.turn /\ m.id # 0
      BY <1>1, <3>1 DEF InResponse, TurnOf
    <3>3. t \in TrStates
      BY <1>1 DEF TrStates
    <3>4. Followed(t) /\ t.active /\ t.conn = "open" /\ t.response = tr.response
      BY <1>1, <3>2, <3>3 DEF Followed, TurnOf, Closed, TrStates
    <3> HIDE DEF t
    <3>5. Emitted(t, m) /\ Speaks(t, m)
      BY <1>4, <1>10, <3>2, <3>4 DEF Emitted, Ends, Speaks
    <3> QED BY <3>1, <3>4, <3>5 DEF Emit, ClosedBy
  <2> QED BY <2>2, <2>3
<1>11. CASE m.type = "done"
  <2>1. seen = OnDone(m)
    BY <1>11 DEF OnMessage
  <2> DEFINE t == [tr EXCEPT !.active = FALSE, !.response_done = TRUE,
                             !.discard = tr.cancel_sent /\ tr.discard]
  <2>2. CASE seen = Drop
    BY <1>2, <2>2
  <2>3. CASE seen # Drop
    <3>1. InResponse(m) /\ seen = Emit(t, m)
      BY <1>3, <2>1, <2>3 DEF OnDone
    <3>2. tr.active /\ tr.response # 0 /\ m.id = tr.turn /\ m.id # 0
      BY <1>1, <3>1 DEF InResponse, TurnOf
    <3>3. t \in TrStates
      BY <1>1 DEF TrStates
    <3>4. /\ Followed(t) /\ ~t.active /\ t.conn = "open" /\ t.response = tr.response
          /\ t.response_done
      BY <1>1, <3>2, <3>3 DEF Followed, TurnOf, Closed, TrStates
    <3> HIDE DEF t
    <3>5. Emitted(t, m) /\ Speaks(t, m)
      BY <1>4, <1>11, <3>2, <3>4 DEF Emitted, Ends, Speaks
    <3> QED BY <1>11, <3>1, <3>2, <3>4, <3>5 DEF Emit, ClosedBy
  <2> QED BY <2>2, <2>3
<1>12. CASE m.type = "pcm"
  <2>1. seen = OnBinary(m)
    BY <1>12 DEF OnMessage
  <2> DEFINE t == [tr EXCEPT !.downlink = @ + 1, !.audio_ended = "END" \in m.flags]
             u == [tr EXCEPT !.discard = TRUE]
             gap == Message("gap", m.id)
  <2>2. CASE seen = Drop
    BY <1>2, <2>2
  <2>3. CASE seen # Drop
    <3>1. /\ ~IsStale(m) /\ tr.audio_started /\ m.id = tr.response /\ m.seq = tr.downlink
          /\ seen = Emit(u, gap) \/ seen = Emit(t, m)
      BY <1>3, <2>1, <2>3 DEF OnBinary
    <3>2. tr.active /\ m.id = tr.turn /\ m.id # 0 /\ tr.response # 0
      BY <1>1, <3>1 DEF TurnOf, IsStale
    <3>3. t \in TrStates /\ u \in TrStates
      <4>1. tr.downlink \in Nat /\ MaxAudio \in Nat /\ tr.downlink < MaxAudio
        BY <1>1, <1>12, <3>1, TransportAssumption DEF TrStates, Plausible, TransportAssumption
      <4>2. tr.downlink + 1 \in 0..MaxAudio
        BY <4>1
      <4> DEFINE v == [tr EXCEPT !.downlink = @ + 1]
                 end == "END" \in m.flags
      <4>3. v \in TrStates /\ end \in BOOLEAN
        BY <1>1, <4>2 DEF TrStates
      <4>4. t = [v EXCEPT !.audio_ended = end]
        OBVIOUS
      <4> HIDE DEF v, end
      <4>5. t \in TrStates
        BY <4>3, <4>4 DEF TrStates
      <4>6. u \in TrStates
        BY <1>1 DEF TrStates
      <4> QED BY <4>5, <4>6
    <3>4. Followed(t) /\ t.active /\ t.conn = "open" /\ t.response = tr.response
      BY <1>1, <3>2, <3>3 DEF Followed, TurnOf, Closed, TrStates
    <3>5. Followed(u) /\ u.active /\ u.conn = "open" /\ u.response = tr.response
      BY <1>1, <3>2, <3>3 DEF Followed, TurnOf, Closed, TrStates
    <3>6. gap \in Events /\ gap.type = "gap" /\ gap.id = m.id
      <4>1. m.id \in Epochs
        BY <1>12, <3>2 DEF Downlink, Epochs
      <4> QED BY <4>1 DEF Events, Message
    <3> HIDE DEF t, u, gap
    <3>7. Emitted(t, m) /\ Speaks(t, m)
      BY <1>4, <1>12, <3>2, <3>4 DEF Emitted, Ends, Speaks
    <3>8. Emitted(u, gap) /\ Speaks(u, gap)
      BY <3>2, <3>5, <3>6 DEF Emitted, Ends, Speaks
    <3> QED BY <3>1, <3>4, <3>5, <3>7, <3>8 DEF Emit, ClosedBy
  <2> QED BY <2>2, <2>3
<1> QED
  BY <1>5, <1>6, <1>7, <1>8, <1>9, <1>10, <1>11, <1>12

\* What the application knows stays true of a transport that has gone on.
LEMMA FollowedKeeps ==
  ASSUME ClientInv, Followed(tr'), tr.conn # "none", UNCHANGED <<c2s, client, sv, raced>>,
         s2c' = s2c \/ (s2c # <<>> /\ s2c' = Tail(s2c)), overflow' \in BOOLEAN,
         cut' \in SUBSET Epochs, NEW e, Emitted(tr', e), Speaks(tr', e),
         overflow => overflow', e.type = "transport" \/ overflow' \/ events' # events,
         events' = events \/ (Len(events) # EventCap /\ events' = Append(events, e))
  PROVE  ClientInv'
<1>1. /\ tr \in TrStates /\ TurnOf(tr) /\ tr' \in TrStates /\ tr'.turn = tr.turn
      /\ tr.turn \in Nat /\ cl.epoch \in Nat
  BY DEF ClientInv, Typed, Links, Followed, TrStates, ClStates
<1>2. UNCHANGED <<cl, playback, running>>
  BY DEF client
<1>3. s2c' \in Seq(Downlink) /\ Elements(s2c') \subseteq Elements(s2c)
  BY TailElements DEF ClientInv, Typed
<1>4. /\ events' \in Seq(Events) /\ Len(events') <= EventCap
      /\ Elements(events') \subseteq Elements(events) \cup {e}
  <2>1. /\ Append(events, e) \in Seq(Events) /\ Len(Append(events, e)) = Len(events) + 1
        /\ Len(events) \in Nat /\ Elements(Append(events, e)) = Elements(events) \cup {e}
    BY AppendElements DEF ClientInv, Typed, Emitted
  <2>2. EventCap \in Nat /\ Len(events) <= EventCap
    BY TransportAssumption DEF ClientInv, Typed, TransportAssumption
  <2>3. CASE events' = events
    BY <2>3 DEF ClientInv, Typed
  <2>4. CASE Len(events) # EventCap /\ events' = Append(events, e)
    <3>1. Len(events') = Len(events) + 1 /\ Len(events) + 1 <= EventCap
      BY <2>1, <2>2, <2>4
    <3> QED BY <2>1, <2>4, <3>1
  <2> QED BY <2>3, <2>4
<1>5. Typed'
  BY <1>1, <1>2, <1>3, <1>4 DEF ClientInv, Typed
<1>6. Modes'
  BY <1>2 DEF ClientInv, Modes, NoStalePlayback
<1>7. Links'
  <2>1. SameTurn' /\ NotYetOpen'
    BY <1>1, <1>2 DEF ClientInv, Links, SameTurn, NotYetOpen, Session, Followed
  <2>2. TurnOf(tr)'
    BY DEF Followed
  <2>3. TurnOver'
    BY <1>1, <1>2 DEF ClientInv, Links, TurnOver, Followed, Session, Pending
  <2> QED BY <2>1, <2>2, <2>3 DEF Links
<1>8. \A f \in Elements(events) : Current(f)'
  <2> TAKE f \in Elements(events)
  <2>1. Current(f)
    BY DEF ClientInv, Queue_
  <2> QED BY <1>1, <1>2, <2>1 DEF Current, Followed, Session, Pending, Ends
<1>9. Current(e)'
  <2>1. e.id # 0 => ~Closed(tr) /\ tr.turn # 0
    BY <1>1 DEF Emitted, Closed, TurnOf
  <2>2. e.id # 0 => Session /\ tr.turn = cl.epoch
    BY <1>1, <2>1 DEF ClientInv, Links, SameTurn, TurnOver
  <2>3. e.type = "cancelled" => Pending
    BY <1>1, <2>2 DEF Emitted, Ends, ClientInv, Links, TurnOver
  <2>4. e.id # 0 => cl.state # "DrainingPlayback"
    BY <2>2, <2>3 DEF Emitted, ClientInv, Links, TurnOver, Pending
  <2>5. e.type = "hello.ack" => ~Session
    BY DEF Emitted, ClientInv, Links, TurnOver
  <2> QED BY <1>1, <1>2, <2>2, <2>3, <2>4, <2>5 DEF Current, Emitted, Ends, Session, Pending
<1>10. Ordered(events')
  <2>1. CASE events' = events
    BY <2>1 DEF ClientInv, Queue_, Ordered
  <2>2. CASE events' = Append(events, e)
    <3>1. /\ Len(events') = Len(events) + 1 /\ Len(events) \in Nat
          /\ \A i \in 1..Len(events) : events'[i] = events[i]
          /\ events'[Len(events) + 1] = e
      BY <2>2, AppendElements DEF ClientInv, Typed, Emitted
    <3>2. ASSUME NEW i \in 1..Len(events'), NEW j \in 1..Len(events'), i < j
          PROVE  /\ Ends(events'[i]) => events'[j].id = 0
                 /\ events'[i].type = "done" => events'[j].id = 0 \/ events'[j].type = "cancelled"
                 /\ events'[i].type = "hello.ack" => events'[j].type # "hello.ack"
      <4>1. CASE j \in 1..Len(events)
        <5>1. i \in 1..Len(events) /\ events'[i] = events[i] /\ events'[j] = events[j]
          BY <3>1, <3>2, <4>1
        <5> QED BY <3>2, <4>1, <5>1 DEF ClientInv, Queue_, Ordered
      <4>2. CASE j = Len(events) + 1
        <5>1. i \in 1..Len(events) /\ events'[i] = events[i] /\ events'[j] = e
          BY <3>1, <3>2, <4>2
        <5>2. Current(events[i])
          BY <5>1 DEF ClientInv, Queue_, Elements
        <5> QED BY <5>1, <5>2 DEF Current, Emitted
      <4> QED BY <3>1, <3>2, <4>1, <4>2
    <3> QED BY <3>2 DEF Ordered
  <2> QED BY <2>1, <2>2
<1>11. Queue_'
  <2>1. \A f \in Elements(events') : Current(f)'
    BY <1>4, <1>8, <1>9
  <2>2. Elements(events)' = Elements(events')
    BY DEF Elements
  <2> QED BY <1>10, <2>1, <2>2 DEF Queue_, Ordered, Ends
<1>12. Outgoing' /\ Incoming'
  <2>1. Outgoing'
    BY DEF ClientInv, Outgoing, Followed, Elements
  <2>2. Incoming'
    <3>1. \A m \in Elements(s2c') : Plausible(m)
      BY <1>3 DEF ClientInv, Incoming
    <3>2. Elements(s2c)' = Elements(s2c')
      BY DEF Elements
    <3> QED BY <3>1, <3>2 DEF ClientInv, Incoming, Plausible
  <2> QED BY <2>1, <2>2
<1>13. Known'
  <2>1. cl.state \notin Waits \cup {"CancelPending"} => ~tr.cancel_sent \/ ~Session
    BY DEF ClientInv, Links, SameTurn, TurnOver, Pending
  <2>2. ~Session => cl.state = "WaitingForWake"
    BY DEF ClientInv, Modes, ModesOf, Session
  <2>3. /\ cl.state \notin Waits \cup {"CancelPending"} => ~tr.cancel_sent
        /\ cl.state \in {"CapturingSpeech", "PlayingResponse", "DrainingPlayback"} =>
             cl.state \notin Waits \cup {"CancelPending"}
    BY <2>1, <2>2 DEF Waits
  <2>4. \A f \in Elements(events) : f.type = "response.start" => tr'.response = f.id
    <3> TAKE f \in Elements(events)
    <3>1. Current(f) /\ (f.type = "response.start" => tr.response = f.id)
      BY DEF ClientInv, Queue_, Known, KnownOf
    <3> QED BY <3>1 DEF Current, Followed
  <2>5. cl.state # "CancelPending" /\ ~overflow' => Told(cl, tr', events')
    <3> SUFFICES ASSUME cl.state # "CancelPending", ~overflow' PROVE Told(cl, tr', events')
      OBVIOUS
    <3>1. Told(cl, tr, events) /\ (e.type = "transport" \/ events' # events)
      BY DEF ClientInv, Known, KnownOf, Typed
    <3>2. cl.state \notin Waits => ~tr.cancel_sent
      BY <2>3
    <3>3. cl.state \in Waits => Closed(tr) /\ \A f \in Elements(events) : f.id = 0
      <4> SUFFICES ASSUME cl.state \in Waits
                   PROVE  Closed(tr) /\ \A f \in Elements(events) : f.id = 0
        OBVIOUS
      <4>1. /\ Session => tr.turn < cl.epoch
            /\ ~Session => tr.turn = 0
        BY DEF ClientInv, Links, SameTurn
      <4>2. Closed(tr)
        BY <4>1 DEF ClientInv, Links, TurnOver, TurnOf, Closed
      <4>3. ~(Session /\ tr.turn = cl.epoch)
        BY <1>1, <4>1
      <4> QED BY <4>2, <4>3 DEF ClientInv, Queue_, Current
    <3>4. e.id # 0 => cl.state \notin Waits
      BY <3>3 DEF Emitted, Closed
    <3>5. \A f \in Elements(events) : f.type = "done" => tr'.response_done
      <4> TAKE f \in Elements(events)
      <4>1. f.type = "done" => tr.response_done /\ f.id # 0
        BY <3>1 DEF Told, ClientInv, Queue_, Current
      <4> QED BY <3>2, <3>3, <4>1 DEF Followed
    <3>6. e.type \in OfAnswer \cup {"response.start"} => e.id # 0
      BY DEF Emitted, OfAnswer
    <3>7. e.type \in OfAnswer =>
            cl.response # 0 \/ \E k \in 1..Len(events) : events[k].type = "response.start"
      BY <3>1, <3>4, <3>6 DEF Told, Emitted, Elements
    <3>8. /\ Elements(events) \subseteq Elements(events')
          /\ events' # events =>
               /\ e \in Elements(events')
               /\ Len(events') = Len(events) + 1 /\ Len(events) \in Nat
               /\ \A i \in 1..Len(events) : events'[i] = events[i]
               /\ events'[Len(events) + 1] = e
      <4>1. CASE events' = events
        BY <4>1
      <4>2. CASE events' = Append(events, e)
        <5> DEFINE q == Append(events, e)
        <5>1. /\ Elements(q) = Elements(events) \cup {e} /\ Len(q) = Len(events) + 1
              /\ Len(events) \in Nat /\ q[Len(events) + 1] = e
              /\ \A i \in 1..Len(events) : q[i] = events[i]
          BY AppendElements DEF ClientInv, Typed, Emitted
        <5>2. events' = q
          BY <4>2
        <5> HIDE DEF q
        <5> QED BY <5>1, <5>2
      <4> QED BY <4>1, <4>2
    <3>9. ASSUME NEW i \in 1..Len(events'), events'[i].type \in OfAnswer
          PROVE  cl.response # 0 \/ \E k \in 1..(i - 1) : events'[k].type = "response.start"
      <4>1. CASE events' = events
        BY <3>1, <3>9, <4>1 DEF Told
      <4>2. CASE events' # events /\ i \in 1..Len(events)
        <5>1. events'[i] = events[i] /\ \A k \in 1..(i - 1) : events'[k] = events[k]
          BY <3>8, <4>2
        <5> QED BY <3>1, <3>9, <4>2, <5>1 DEF Told
      <4>3. CASE events' # events /\ i = Len(events) + 1
        <5>1. 1..(i - 1) = 1..Len(events) /\ events'[i] = e
          BY <3>8, <4>3
        <5> QED BY <3>7, <3>8, <3>9, <4>3, <5>1
      <4> QED BY <3>8, <3>9, <4>1, <4>2, <4>3
    <3>10. \A f \in Elements(events') : f.type = "done" => tr'.response_done
      BY <1>4, <3>5 DEF Emitted
    <3>11. cl.state \notin Waits \cup {"DrainingPlayback"} /\ ~tr'.active =>
             \E f \in Elements(events') : f.type \in {"done", "error"}
      BY <3>1, <3>2, <3>8 DEF Told, Speaks, Emitted
    <3>12. cl.state \notin Waits /\ tr'.response # 0 =>
             cl.response # 0 \/ \E f \in Elements(events') : f.type = "response.start"
      BY <3>1, <3>2, <3>8 DEF Told, Speaks
    <3> QED BY <3>9, <3>10, <3>11, <3>12 DEF Told
  <2>6. \A f \in Elements(events') : f.type = "response.start" => tr'.response = f.id
    BY <1>4, <2>4 DEF Emitted
  <2>7. cl.state = "DrainingPlayback" => tr'.response_done
    BY <2>3 DEF ClientInv, Known, KnownOf, Followed
  <2>8. cl.response # 0 => tr'.response = cl.response
    BY DEF ClientInv, Known, KnownOf, Followed
  <2>9. KnownOf(cl, tr', events', overflow')
    BY <2>5, <2>6, <2>7, <2>8 DEF ClientInv, Known, KnownOf, Followed
  <2> QED BY <1>2, <2>9 DEF Known
<1> QED
  BY <1>5, <1>6, <1>7, <1>11, <1>12, <1>13 DEF ClientInv

LEMMA FailingKeeps ==
  ASSUME ClientInv, Failing, tr.conn # "none", UNCHANGED <<c2s, client, sv, raced>>,
         s2c' = s2c \/ (s2c # <<>> /\ s2c' = Tail(s2c)), cut' \in SUBSET Epochs
  PROVE  ClientInv' /\ tr'.conn = "failed"
<1>1. tr' = [tr EXCEPT !.conn = "failed"] /\ Push(Silence)
  BY DEF Failing, Silence
<1>2. tr' \in TrStates /\ tr'.conn = "failed"
  BY <1>1 DEF ClientInv, Typed, TrStates
<1>3. Followed(tr')
  BY <1>1, <1>2 DEF ClientInv, Typed, Links, Followed, TurnOf, Closed, TrStates
<1>4. Silence.type = "transport" /\ Emitted(tr', Silence)
  BY SilenceMeans
<1>5. /\ overflow' \in BOOLEAN /\ (overflow => overflow')
      /\ events' = events \/ (Len(events) # EventCap /\ events' = Append(events, Silence))
  BY <1>1 DEF Push, ClientInv, Typed
<1>6. Speaks(tr', Silence)
  BY <1>1, <1>2 DEF Speaks, ClientInv, Typed, TrStates
<1> QED
  BY <1>2, <1>3, <1>4, <1>5, <1>6, FollowedKeeps

\* A step of the network, and how it looks from the server.
LEMMA NetworkSteps ==
  ASSUME ClientInv, Network
  PROVE  /\ ClientInv'
         /\ \/ tr'.conn # "open"
            \/ /\ tr.conn = "open" /\ tr'.turn = tr.turn /\ c2s' = c2s /\ s2c # <<>>
               /\ s2c' = Tail(s2c) /\ (tr'.active => tr.active) /\ ClosedBy(tr', Head(s2c))
<1>1. UNCHANGED <<c2s, client, sv, raced>> /\ cut \in SUBSET Epochs
  BY DEF Network, Deliver, ConnectionFails, ClientInv, Typed
<1>2. CASE ConnectionFails
  BY <1>1, <1>2, FailingKeeps DEF ConnectionFails, Network
<1>3. CASE Deliver
  <2> DEFINE m == Head(s2c)
             seen == OnMessage(m)
  <2>1. tr.conn = "open" /\ s2c # <<>> /\ s2c' = Tail(s2c)
    BY <1>3 DEF Deliver
  <2>2. m \in Downlink /\ Plausible(m)
    BY <2>1, TailElements DEF ClientInv, Typed, Incoming
  <2>3. \/ seen.do = "bad" /\ Failing
        \/ seen.do = "drop" /\ tr' = seen.tr /\ UNCHANGED <<events, overflow>>
        \/ seen.do = "emit" /\ tr' = seen.tr /\ Push(seen.event)
    BY <1>3 DEF Deliver
  <2>4. seen.do # "bad" => /\ Followed(seen.tr) /\ ClosedBy(seen.tr, m) /\ seen.tr.conn = "open"
                           /\ seen.do = "emit" => /\ Emitted(seen.tr, seen.event)
                                                  /\ Speaks(seen.tr, seen.event)
                           /\ seen.do = "drop" => Speaks(seen.tr, Silence)
    BY <2>1, <2>2, MessageMeans
  <2>5. cut' = IF seen.do = "emit" /\ seen.event.type = "error"
               THEN cut \cup ({seen.event.id} \ {0}) ELSE cut
    BY <1>3 DEF Deliver
  <2> HIDE DEF m, seen
  <2>6. CASE seen.do = "bad" /\ Failing
    <3>1. cut' \in SUBSET Epochs
      BY <1>1, <2>5, <2>6
    <3> QED BY <1>1, <2>1, <2>6, <3>1, FailingKeeps
  <2>7. CASE seen.do = "drop" /\ tr' = seen.tr /\ UNCHANGED <<events, overflow>>
    <3>2. Silence.type = "transport" /\ Emitted(tr', Silence) /\ Speaks(tr', Silence)
      BY <2>4, <2>7, SilenceMeans
    <3>3. ClientInv'
      BY <1>1, <2>1, <2>4, <2>5, <2>7, <3>2, FollowedKeeps DEF ClientInv, Typed
    <3> QED BY <1>1, <2>1, <2>4, <2>7, <3>3 DEF Followed, m
  <2>8. CASE seen.do = "emit" /\ tr' = seen.tr /\ Push(seen.event)
    <3>1. cut' \in SUBSET Epochs
      <4>1. seen.event.id # 0 => seen.event.id \in Epochs
        BY <2>4, <2>8 DEF Emitted, ClientInv, Typed, TrStates, Epochs
      <4> QED BY <1>1, <2>5, <4>1
    <3>2. /\ overflow' \in BOOLEAN /\ (overflow => overflow')
          /\ events' = events \/ (Len(events) # EventCap /\ events' = Append(events, seen.event))
          /\ overflow' \/ events' # events
      <4>1. seen.event \in Events /\ events \in Seq(Events)
        BY <2>4, <2>8 DEF Emitted, ClientInv, Typed
      <4>2. Append(events, seen.event) # events
        BY <4>1, AppendElements
      <4> QED BY <2>8, <4>2 DEF Push, ClientInv, Typed
    <3>3. ClientInv'
      BY <1>1, <2>1, <2>4, <2>8, <3>1, <3>2, FollowedKeeps
    <3> QED BY <1>1, <2>1, <2>4, <2>8, <3>3 DEF Followed, m
  <2> QED BY <2>3, <2>6, <2>7, <2>8
<1> QED
  BY <1>2, <1>3 DEF Network

-----------------------------------------------------------------------------
(* The server: types and what it may put on its way.                       *)

ServerStep == ServerReceives \/ ServerRetires \/ Forward

\* A step of the server leaves the client alone.
LEMMA ServerKeeps ==
  ASSUME ClientInv, tr.conn = "open", UNCHANGED <<tr, events, overflow, cut, client>>,
         c2s' = c2s \/ (c2s # <<>> /\ c2s' = Tail(c2s)),
         sv' \in SvStates, raced' \in BOOLEAN,
         s2c' = s2c \/ (\E m \in Downlink : Plausible(m) /\ s2c' = Append(s2c, m)),
         sv'.active => sv'.turn # 0, sv'.sending # <<>> => Plausible(sv'.sending[1])
  PROVE  ClientInv'
<1>1. UNCHANGED <<cl, playback, running>>
  BY DEF client
<1>2. /\ c2s' \in Seq(Uplink) /\ Len(c2s') <= Len(c2s) /\ Len(c2s) \in Nat /\ Len(c2s') \in Nat
      /\ Elements(c2s') \subseteq Elements(c2s)
  <2>1. Len(c2s) \in Nat /\ c2s \in Seq(Uplink)
    BY DEF ClientInv, Typed
  <2>2. CASE c2s' = c2s
    BY <2>1, <2>2
  <2>3. CASE c2s # <<>> /\ c2s' = Tail(c2s)
    <3> DEFINE rest == Tail(c2s)
    <3>1. /\ rest \in Seq(Uplink) /\ Len(rest) = Len(c2s) - 1 /\ Len(c2s) \in Nat \ {0}
          /\ Elements(rest) \subseteq Elements(c2s)
      BY <2>1, <2>3, TailElements
    <3>2. c2s' = rest
      BY <2>3
    <3> HIDE DEF rest
    <3>3. Len(rest) <= Len(c2s) /\ Len(rest) \in Nat
      BY <3>1
    <3> QED BY <2>1, <3>1, <3>2, <3>3
  <2> QED BY <2>2, <2>3
<1>3. /\ s2c' \in Seq(Downlink)
      /\ \A m \in Elements(s2c') : Plausible(m)
  <2>1. s2c \in Seq(Downlink) /\ \A m \in Elements(s2c) : Plausible(m)
    BY DEF ClientInv, Typed, Incoming
  <2>2. CASE s2c' = s2c
    BY <2>1, <2>2
  <2>3. CASE \E m \in Downlink : Plausible(m) /\ s2c' = Append(s2c, m)
    <3>1. PICK m \in Downlink : Plausible(m) /\ s2c' = Append(s2c, m)
      BY <2>3
    <3>2. s2c' \in Seq(Downlink) /\ Elements(Append(s2c, m)) = Elements(s2c) \cup {m}
      BY <2>1, <3>1, AppendElements
    <3> QED BY <2>1, <3>1, <3>2
  <2> QED BY <2>2, <2>3
<1>4. Len(c2s') <= SendCap + 1 /\ (Len(c2s') > SendCap => Len(c2s) > SendCap)
  <2>1. SendCap \in Nat /\ Len(c2s) <= SendCap + 1
    BY TransportAssumption DEF ClientInv, Typed, TransportAssumption
  <2> QED BY <1>2, <2>1
<1>5. Typed'
  BY <1>1, <1>2, <1>3, <1>4 DEF ClientInv, Typed
<1>6. Modes' /\ Links' /\ Queue_'
  BY <1>1 DEF ClientInv, Modes, ModesOf, NoStalePlayback, Links, SameTurn, NotYetOpen, TurnOver,
     Closed, Session, Pending, Queue_, Ordered, Current, Ends, Elements
<1>7. Outgoing'
  <2>1. \A m \in Elements(c2s') : m.type # "hello" => m.id # 0
    BY <1>2 DEF ClientInv, Outgoing
  <2>2. Elements(c2s)' = Elements(c2s')
    BY DEF Elements
  <2> QED BY <1>4, <2>1, <2>2 DEF ClientInv, Outgoing
<1>8. Incoming'
  <2>1. Elements(s2c)' = Elements(s2c')
    BY DEF Elements
  <2> QED BY <1>3, <2>1 DEF Incoming, Plausible
<1>9. Known'
  <2>1. KnownOf(cl, tr, events, overflow)
    BY DEF ClientInv, Known
  <2> QED BY <1>1, <2>1 DEF Known
<1> QED
  BY <1>5, <1>6, <1>7, <1>8, <1>9 DEF ClientInv

\* The messages that the server makes up.
LEMMA Messages ==
  ASSUME NEW id \in 0..MaxEpoch,
         NEW type \in {"response.start", "audio_start", "done", "cancelled", "error"}
  PROVE  /\ Message(type, id) \in Downlink /\ Plausible(Message(type, id))
         /\ Message(type, id).type = type /\ Message(type, id).id = id
BY DEF Message, Downlink, Plausible

LEMMA Sessions ==
  /\ NewServer \in SvStates /\ ~NewServer.active /\ NewServer.turn = 0
  /\ NewServer.sending = <<>> /\ NewServer.alive
<1>1. 0 \in 0..MaxEpoch /\ 0 \in 0..MaxAudio
  BY TransportAssumption DEF TransportAssumption
<1> QED
  BY <1>1 DEF NewServer, SvStates

LEMMA OpenKeeps ==
  ASSUME ClientInv, Open
  PROVE  ClientInv'
<1>1. /\ UNCHANGED <<c2s, s2c, events, overflow, cut, cl, playback, running>>
      /\ tr' = [tr EXCEPT !.conn = "open"] /\ sv' = NewServer /\ raced' = FALSE
  BY DEF Open, client
<1>2. /\ tr' \in TrStates /\ tr'.session = tr.session /\ tr'.turn = tr.turn
      /\ tr'.response = tr.response /\ tr'.active = tr.active
      /\ tr'.audio_started = tr.audio_started /\ tr'.response_done = tr.response_done
      /\ tr'.cancel_sent = tr.cancel_sent /\ tr'.conn = "open"
  BY <1>1 DEF ClientInv, Typed, TrStates
<1>3. c2s = <<>> /\ s2c = <<>> /\ events = <<>>
  BY DEF Open, ClientInv, Links, NotYetOpen
<1>4. Typed' /\ Modes'
  BY <1>1, <1>2, Sessions DEF ClientInv, Typed, Modes, NoStalePlayback
<1>5. Links'
  BY <1>1, <1>2 DEF ClientInv, Links, SameTurn, NotYetOpen, TurnOf, TurnOver, Closed, Session, Pending
<1>6. Queue_' /\ Incoming'
  BY <1>1, <1>3, Sessions DEF Queue_, Ordered, Elements, Incoming
<1>7. Outgoing'
  <2>1. ~(Len(c2s') > SendCap)
    BY <1>1, <1>3, TransportAssumption DEF TransportAssumption
  <2> QED BY <1>1, <1>3, <2>1 DEF Outgoing, Elements
<1>8. Known'
  <2>1. Elements(events') = {} /\ cl.state \in Waits /\ cl.response = 0
    BY <1>1, <1>3 DEF Elements, ClientInv, Known, KnownOf, Links, SameTurn, NotYetOpen, TurnOf,
       Modes, ModesOf, Waits, Session, Open
  <2> QED BY <1>1, <2>1, KnownFresh DEF Known
<1> QED
  BY <1>4, <1>5, <1>6, <1>7, <1>8 DEF ClientInv

-----------------------------------------------------------------------------
(* The server.                                                             *)

\* The server may take the next turn: the last one is fenced, or will be once
\* its response.done has gone out.
Free(s) == ~s.active \/ s.finishing

\* What is on its way to the server, which is in the turn mine, while the
\* client is in the turn theirs: everything is about mine up to a turn.start,
\* and about theirs behind it.
OnTheWay(q, mine, theirs, free) ==
  /\ \A i \in 1..Len(q) :
       q[i].type = "hello" \/ q[i].id = mine \/ \E k \in 1..i : q[k].type = "turn.start"
  /\ \A k \in 1..Len(q) : q[k].type = "turn.start" => q[k].id = theirs /\ mine < theirs /\ free
  /\ \A k, i \in 1..Len(q) : q[k].type = "turn.start" /\ k < i =>
       q[i].type # "turn.start" /\ (q[i].type = "hello" \/ q[i].id = theirs)
  /\ (\A k \in 1..Len(q) : q[k].type # "turn.start") => mine = theirs

\* What says that a turn is over is said of one that is.
Over(m, s) ==
  /\ m.type \in {"cancelled", "error"} /\ m.id # 0 =>
       m.id <= s.turn /\ (m.id = s.turn => ~s.active)
  /\ m.type = "done" => m.id <= s.turn /\ (m.id = s.turn => Free(s))

Following ==
  /\ sv.alive
  /\ OnTheWay(c2s, sv.turn, tr.turn, Free(sv))
  /\ \A m \in Elements(s2c) : Over(m, sv)
  /\ sv.sending # <<>> => Over(sv.sending[1], sv)
  /\ ~tr.active => sv.turn = tr.turn /\ Free(sv)

ServerInv == tr.conn = "open" /\ ~raced => Following

LEMMA WayTail ==
  ASSUME NEW q \in Seq(Uplink), q # <<>>, NEW mine \in Nat, NEW theirs \in Nat,
         NEW free \in BOOLEAN, NEW free2 \in BOOLEAN, free => free2,
         OnTheWay(q, mine, theirs, free), Head(q).type # "turn.start"
  PROVE  /\ OnTheWay(Tail(q), mine, theirs, free2)
         /\ Head(q).type = "hello" \/ Head(q).id = mine
<1> DEFINE t == Tail(q)
<1>1. /\ Len(t) = Len(q) - 1 /\ Len(q) \in Nat \ {0}
      /\ \A i \in 1..Len(t) : t[i] = q[i + 1]
      /\ Head(q) = q[1]
  BY TailElements
<1> HIDE DEF t
<1>2. \A i \in 1..Len(t) : i + 1 \in 1..Len(q)
  BY <1>1
<1>3. 1 \in 1..Len(q) /\ \A k \in 1..1 : k = 1
  BY <1>1
<1>4. Head(q).type = "hello" \/ Head(q).id = mine
  BY <1>1, <1>3 DEF OnTheWay
<1>5. ASSUME NEW i \in 1..Len(t), t[i].type # "hello", t[i].id # mine
      PROVE  \E k \in 1..i : t[k].type = "turn.start"
  <2>1. PICK k \in 1..(i + 1) : q[k].type = "turn.start"
    BY <1>1, <1>2, <1>5 DEF OnTheWay
  <2>2. k # 1
    BY <1>1, <2>1
  <2>3. k - 1 \in 1..i /\ k - 1 \in 1..Len(t) /\ (k - 1) + 1 = k
    BY <1>1, <2>2
  <2> QED BY <1>1, <2>1, <2>3
<1>6. \A k \in 1..Len(t) :
        t[k].type = "turn.start" => t[k].id = theirs /\ mine < theirs /\ free2
  BY <1>1, <1>2 DEF OnTheWay
<1>7. ASSUME NEW k \in 1..Len(t), NEW i \in 1..Len(t), t[k].type = "turn.start", k < i
      PROVE  t[i].type # "turn.start" /\ (t[i].type = "hello" \/ t[i].id = theirs)
  <2>1. k + 1 < i + 1 /\ t[k] = q[k + 1] /\ t[i] = q[i + 1] /\ k + 1 \in 1..Len(q) /\ i + 1 \in 1..Len(q)
    BY <1>1, <1>2, <1>7
  <2> QED BY <1>7, <2>1 DEF OnTheWay
<1>8. ASSUME \A k \in 1..Len(t) : t[k].type # "turn.start" PROVE mine = theirs
  <2>1. ASSUME NEW k \in 1..Len(q) PROVE q[k].type # "turn.start"
    <3>1. CASE k = 1
      BY <1>1, <3>1
    <3>2. CASE k # 1
      <4>1. k - 1 \in 1..Len(t) /\ (k - 1) + 1 = k
        BY <1>1, <3>2
      <4> QED BY <1>1, <1>8, <4>1
    <3> QED BY <3>1, <3>2
  <2> QED BY <2>1 DEF OnTheWay
<1> QED
  BY <1>4, <1>5, <1>6, <1>7, <1>8 DEF OnTheWay, t

LEMMA WayStart ==
  ASSUME NEW q \in Seq(Uplink), q # <<>>, NEW mine \in Nat, NEW theirs \in Nat,
         NEW free, OnTheWay(q, mine, theirs, free), Head(q).type = "turn.start"
  PROVE  OnTheWay(Tail(q), theirs, theirs, FALSE) /\ Head(q).id = theirs /\ mine < theirs
<1> DEFINE t == Tail(q)
<1>1. /\ Len(t) = Len(q) - 1 /\ Len(q) \in Nat \ {0}
      /\ \A i \in 1..Len(t) : t[i] = q[i + 1]
      /\ Head(q) = q[1]
  BY TailElements
<1> HIDE DEF t
<1>2. \A i \in 1..Len(t) : i + 1 \in 1..Len(q) /\ 1 < i + 1
  BY <1>1
<1>3. 1 \in 1..Len(q)
  BY <1>1
<1>4. Head(q).id = theirs /\ mine < theirs
  BY <1>1, <1>3 DEF OnTheWay
<1>5. \A i \in 1..Len(t) : t[i].type # "turn.start" /\ (t[i].type = "hello" \/ t[i].id = theirs)
  BY <1>1, <1>2, <1>3 DEF OnTheWay
<1> QED
  BY <1>4, <1>5 DEF OnTheWay, t

LEMMA WayAppend ==
  ASSUME NEW q \in Seq(Uplink), NEW m \in Uplink, NEW mine \in Nat, NEW theirs \in Nat,
         NEW free \in BOOLEAN, OnTheWay(q, mine, theirs, free),
         m.type # "turn.start", m.type = "hello" \/ m.id = theirs
  PROVE  OnTheWay(Append(q, m), mine, theirs, free)
<1> DEFINE t == Append(q, m)
<1>1. /\ Len(t) = Len(q) + 1 /\ Len(q) \in Nat
      /\ \A i \in 1..Len(q) : t[i] = q[i]
      /\ t[Len(q) + 1] = m
  BY AppendElements
<1> HIDE DEF t
<1>2. /\ \A i \in 1..Len(t) : i \in 1..Len(q) \/ (i = Len(q) + 1 /\ t[i] = m)
      /\ \A i \in 1..Len(q) : i \in 1..Len(t) /\ \A k \in 1..i : k \in 1..Len(q)
  BY <1>1
<1>3. ASSUME NEW i \in 1..Len(t), t[i].type # "hello", t[i].id # mine
      PROVE  \E k \in 1..i : t[k].type = "turn.start"
  <2>1. CASE i \in 1..Len(q)
    <3>1. PICK k \in 1..i : q[k].type = "turn.start"
      BY <1>1, <1>3, <2>1 DEF OnTheWay
    <3> QED BY <1>1, <1>2, <2>1, <3>1
  <2>2. CASE i = Len(q) + 1 /\ t[i] = m
    <3>1. PICK k \in 1..Len(q) : q[k].type = "turn.start"
      BY <1>3, <2>2 DEF OnTheWay
    <3>2. k \in 1..i /\ t[k] = q[k]
      BY <1>1, <2>2, <3>1
    <3> QED BY <3>1, <3>2
  <2> QED BY <1>2, <2>1, <2>2
<1>4. \A k \in 1..Len(t) :
        t[k].type = "turn.start" => k \in 1..Len(q) /\ t[k].id = theirs /\ mine < theirs /\ free
  BY <1>1, <1>2 DEF OnTheWay
<1>5. ASSUME NEW k \in 1..Len(t), NEW i \in 1..Len(t), t[k].type = "turn.start", k < i
      PROVE  t[i].type # "turn.start" /\ (t[i].type = "hello" \/ t[i].id = theirs)
  <2>1. k \in 1..Len(q) /\ t[k] = q[k]
    BY <1>1, <1>4, <1>5
  <2>2. CASE i \in 1..Len(q)
    BY <1>1, <1>5, <2>1, <2>2 DEF OnTheWay
  <2>3. CASE i = Len(q) + 1 /\ t[i] = m
    BY <2>3
  <2> QED BY <1>2, <2>2, <2>3
<1>6. ASSUME \A k \in 1..Len(t) : t[k].type # "turn.start" PROVE mine = theirs
  BY <1>1, <1>2, <1>6 DEF OnTheWay
<1> QED
  BY <1>3, <1>4, <1>5, <1>6 DEF OnTheWay, t

LEMMA WayBegin ==
  ASSUME NEW q \in Seq(Uplink), NEW m \in Uplink, NEW mine \in Nat, NEW id \in Nat,
         OnTheWay(q, mine, mine, TRUE), mine < id, m.type = "turn.start", m.id = id
  PROVE  OnTheWay(Append(q, m), mine, id, TRUE)
<1> DEFINE t == Append(q, m)
<1>1. /\ Len(t) = Len(q) + 1 /\ Len(q) \in Nat
      /\ \A i \in 1..Len(q) : t[i] = q[i]
      /\ t[Len(q) + 1] = m
  BY AppendElements
<1> HIDE DEF t
<1>2. /\ \A i \in 1..Len(t) : i \in 1..Len(q) \/ (i = Len(q) + 1 /\ t[i] = m /\ i \in 1..i)
      /\ Len(t) \in 1..Len(t)
  BY <1>1
<1>3. \A k \in 1..Len(q) : q[k].type # "turn.start" /\ (q[k].type = "hello" \/ q[k].id = mine)
  <2>1. \A k \in 1..Len(q) : q[k].type # "turn.start"
    BY DEF OnTheWay
  <2>2. \A i \in 1..Len(q) : \A k \in 1..i : k \in 1..Len(q)
    BY <1>1
  <2> QED BY <2>1, <2>2 DEF OnTheWay
<1>4. \A i \in 1..Len(t) :
        t[i].type = "hello" \/ t[i].id = mine \/ \E k \in 1..i : t[k].type = "turn.start"
  BY <1>1, <1>2, <1>3
<1>5. \A k \in 1..Len(t) : t[k].type = "turn.start" => k = Len(q) + 1 /\ t[k].id = id
  BY <1>1, <1>2, <1>3
<1>6. \A k, i \in 1..Len(t) : ~(t[k].type = "turn.start" /\ k < i)
  BY <1>1, <1>5
<1>7. ~(\A k \in 1..Len(t) : t[k].type # "turn.start")
  BY <1>1, <1>2
<1> QED
  BY <1>4, <1>5, <1>6, <1>7 DEF OnTheWay, t

\* What the client sends finds the server in its turn, or past it.
LEMMA SendsFollow ==
  ASSUME ClientInv, ServerInv, ClientSends, UNCHANGED <<sv, raced>>
  PROVE  ServerInv'
<1> SUFFICES ASSUME tr'.conn = "open", ~raced PROVE Following'
  BY DEF ServerInv
<1>0. ~(tr' = NoTransport \/ tr' = Opening)
  BY DEF NoTransport, Opening
<1>1. tr.conn = "open"
  BY <1>0 DEF ClientSends, MayTurnStart, SameAnswer
<1>2. /\ Following /\ s2c' = s2c /\ c2s \in Seq(Uplink) /\ sv.turn \in Nat /\ tr.turn \in Nat
      /\ Free(sv) \in BOOLEAN
  BY <1>0, <1>1 DEF ServerInv, ClientSends, ClientInv, Typed, SvStates, TrStates, Free
<1>3. \A m \in Elements(s2c') : Over(m, sv)
  BY <1>2 DEF Following
<1>4. CASE tr' = tr /\ c2s' = c2s
  BY <1>2, <1>4 DEF Following, OnTheWay, Over, Free, Elements
<1>5. CASE tr' = tr /\ c2s' = Append(c2s, Message("hello", 0))
  <2> DEFINE m == Message("hello", 0)
  <2>1. m \in Uplink /\ m.type = "hello"
    BY TransportAssumption DEF Message, Uplink, TransportAssumption
  <2>2. c2s' = Append(c2s, m)
    BY <1>5
  <2> HIDE DEF m
  <2>3. OnTheWay(c2s', sv.turn, tr.turn, Free(sv))
    BY <1>2, <2>1, <2>2, WayAppend DEF Following
  <2> QED BY <1>2, <1>3, <1>5, <2>3 DEF Following, OnTheWay, Over, Free, Elements
<1>6. CASE \E id \in Epochs : MayTurnStart(id) /\ SendTurnStart(id)
  <2>1. PICK id \in Epochs : MayTurnStart(id) /\ SendTurnStart(id)
    BY <1>6
  <2> DEFINE m == Message("turn.start", id)
  <2>2. m \in Uplink /\ m.type = "turn.start" /\ m.id = id /\ id \in Nat
    BY DEF Message, Uplink, Epochs
  <2>3. c2s' = Append(c2s, m)
    BY <2>1 DEF SendTurnStart
  <2> HIDE DEF m
  <2>4. tr'.turn = id /\ tr'.active
    BY <2>1 DEF SendTurnStart, NoTransport
  <2>5. ~tr.active /\ tr.turn < id
    BY <1>2, <2>1, <2>2 DEF MayTurnStart
  <2>6. sv.turn = tr.turn /\ (Free(sv) <=> TRUE)
    BY <1>2, <2>5 DEF Following
  <2>7. OnTheWay(c2s, sv.turn, sv.turn, TRUE)
    BY <1>2, <2>6 DEF Following, OnTheWay
  <2>8. OnTheWay(c2s', sv.turn, id, TRUE)
    BY <1>2, <2>2, <2>3, <2>5, <2>6, <2>7, WayBegin
  <2>9. OnTheWay(c2s', sv.turn, id, Free(sv))
    BY <2>6, <2>8 DEF OnTheWay
  <2> QED BY <1>2, <1>3, <2>4, <2>9 DEF Following, OnTheWay, Over, Free, Elements
<1>7. CASE /\ SameAnswer(tr')
           /\ \E m \in Uplink : m.type \in {"pcm", "turn.commit", "cancel"} /\ m.id = tr.turn
                                /\ c2s' = Append(c2s, m)
  <2>1. PICK m \in Uplink : m.type \in {"pcm", "turn.commit", "cancel"} /\ m.id = tr.turn
                            /\ c2s' = Append(c2s, m)
    BY <1>7
  <2>2. OnTheWay(c2s', sv.turn, tr.turn, Free(sv))
    BY <1>2, <2>1, WayAppend DEF Following
  <2> QED BY <1>2, <1>3, <1>7, <2>2 DEF Following, OnTheWay, Over, Free, Elements, SameAnswer
<1> QED
  BY <1>0, <1>4, <1>5, <1>6, <1>7 DEF ClientSends

\* A message that closes the turn of the client is about the turn the server
\* is in, and has fenced.
LEMMA NetworkFollows ==
  ASSUME ClientInv, ServerInv, Network
  PROVE  ServerInv'
<1> SUFFICES ASSUME tr'.conn = "open", ~raced' PROVE Following'
  BY DEF ServerInv
<1>1. /\ tr.conn = "open" /\ tr'.turn = tr.turn /\ c2s' = c2s /\ s2c # <<>> /\ s2c' = Tail(s2c)
      /\ (tr'.active => tr.active) /\ ClosedBy(tr', Head(s2c)) /\ sv' = sv /\ raced' = raced
  BY NetworkSteps DEF Network
<1>2. /\ Following /\ sv.turn \in Nat /\ tr.turn \in Nat /\ s2c \in Seq(Downlink)
  BY <1>1 DEF ServerInv, ClientInv, Typed, SvStates, TrStates
<1>3. Head(s2c) \in Elements(s2c) /\ Elements(s2c') \subseteq Elements(s2c)
  BY <1>1, <1>2, TailElements
<1>4. ASSUME tr.active, ~tr'.active PROVE sv.turn = tr.turn /\ Free(sv)
  <2> DEFINE m == Head(s2c)
  <2>1. m.type \in {"done", "cancelled", "error"} /\ m.id = tr.turn /\ m.id # 0 /\ Over(m, sv)
    BY <1>1, <1>2, <1>3, <1>4 DEF ClosedBy, Following
  <2> HIDE DEF m
  <2>2. m.id <= sv.turn /\ (m.id = sv.turn => Free(sv))
    BY <2>1 DEF Over, Free
  <2>3. sv.turn <= tr.turn
    BY <1>2 DEF Following, OnTheWay
  <2> QED BY <1>2, <2>1, <2>2, <2>3
<1>5. ~tr'.active => sv.turn = tr.turn /\ Free(sv)
  BY <1>2, <1>4 DEF Following
<1>6. \A m \in Elements(s2c') : Over(m, sv)
  BY <1>2, <1>3 DEF Following
<1> QED
  BY <1>1, <1>2, <1>5, <1>6 DEF Following, OnTheWay, Over, Free, Elements

LEMMA OpenFollows ==
  ASSUME ClientInv, Open
  PROVE  ServerInv'
<1>1. c2s' = <<>> /\ s2c' = <<>> /\ sv' = NewServer /\ tr'.turn = 0
  BY DEF Open, ClientInv, Links, NotYetOpen, TurnOf
<1>2. /\ \A i \in 1..Len(c2s') : FALSE
      /\ \A i \in 1..Len(s2c') : FALSE
  BY <1>1
<1> QED
  BY <1>1, <1>2, Sessions DEF ServerInv, Following, OnTheWay, Free, Elements

\* A step of the server that stays in its turn: it may fence it.
LEMMA StaysFollows ==
  ASSUME ClientInv, ServerInv, tr.conn = "open", tr' = tr, raced' = raced, ~raced,
         c2s' = c2s \/ (c2s # <<>> /\ c2s' = Tail(c2s) /\ Head(c2s).type # "turn.start"),
         sv'.alive = sv.alive, sv'.turn = sv.turn, sv'.active => sv.active,
         Free(sv) => Free(sv'),
         s2c' = s2c \/ (\E m \in Downlink : Over(m, sv') /\ s2c' = Append(s2c, m)),
         \/ sv'.sending = sv.sending \/ sv'.sending = <<>>
         \/ \E m \in Downlink : Over(m, sv') /\ sv'.sending = <<m>>
  PROVE  ServerInv'
<1>1. /\ Following /\ c2s \in Seq(Uplink) /\ s2c \in Seq(Downlink)
      /\ sv.turn \in Nat /\ tr.turn \in Nat
  BY DEF ServerInv, ClientInv, Typed, SvStates, TrStates
<1>2. Free(sv) \in BOOLEAN /\ Free(sv') \in BOOLEAN
  BY DEF Free
<1>3. OnTheWay(c2s', sv.turn, tr.turn, Free(sv'))
  <2>1. CASE c2s' = c2s
    BY <1>1, <2>1 DEF Following, OnTheWay
  <2>2. CASE c2s # <<>> /\ c2s' = Tail(c2s) /\ Head(c2s).type # "turn.start"
    BY <1>1, <1>2, <2>2, WayTail DEF Following
  <2> QED BY <2>1, <2>2
<1>4. \A m : Over(m, sv) => Over(m, sv')
  BY DEF Over, Free
<1>5. \A m \in Elements(s2c') : Over(m, sv')
  <2>1. CASE s2c' = s2c
    BY <1>1, <1>4, <2>1 DEF Following
  <2>2. CASE \E m \in Downlink : Over(m, sv') /\ s2c' = Append(s2c, m)
    <3>1. PICK m \in Downlink : Over(m, sv') /\ s2c' = Append(s2c, m)
      BY <2>2
    <3>2. Elements(s2c') = Elements(s2c) \cup {m}
      BY <1>1, <3>1, AppendElements
    <3> QED BY <1>1, <1>4, <3>1, <3>2 DEF Following
  <2> QED BY <2>1, <2>2
<1>6. sv'.sending # <<>> => Over(sv'.sending[1], sv')
  BY <1>1, <1>4 DEF Following
<1>7. ~tr'.active => sv'.turn = tr'.turn /\ Free(sv')
  BY <1>1 DEF Following
<1>8. sv'.alive
  BY <1>1 DEF Following
<1> QED
  BY <1>3, <1>5, <1>6, <1>7, <1>8 DEF ServerInv, Following, OnTheWay, Over, Free, Elements

\* Any step of the server but the one that begins a turn.
LEMMA ServerMoves ==
  ASSUME ClientInv, ServerInv, tr.conn = "open",
         UNCHANGED <<tr, events, overflow, cut, client, raced>>,
         c2s' = c2s \/ (c2s # <<>> /\ c2s' = Tail(c2s) /\ Head(c2s).type # "turn.start"),
         sv' \in SvStates, ~raced => sv'.alive = sv.alive, sv'.turn = sv.turn,
         sv'.active => sv.active, Free(sv) => Free(sv'),
         \/ s2c' = s2c
         \/ \E m \in Downlink : Plausible(m) /\ Over(m, sv') /\ s2c' = Append(s2c, m),
         \/ sv'.sending = sv.sending \/ sv'.sending = <<>>
         \/ \E m \in Downlink : Plausible(m) /\ Over(m, sv') /\ sv'.sending = <<m>>
  PROVE  ClientInv' /\ ServerInv'
<1>1. ClientInv'
  BY ServerKeeps DEF ClientInv, Typed, Incoming
<1>2. ServerInv'
  <2>1. CASE raced
    BY <2>1 DEF ServerInv
  <2>2. CASE ~raced
    BY <2>2, StaysFollows
  <2> QED BY <2>1, <2>2
<1> QED
  BY <1>1, <1>2

\* Fencing the turn, and saying so.
LEMMA Fenced ==
  ASSUME ClientInv
  PROVE  /\ Fence(sv) \in SvStates /\ Fence(sv).turn = sv.turn /\ ~Fence(sv).active
         /\ Fence(sv).alive = sv.alive /\ Fence(sv).sending = sv.sending /\ Free(Fence(sv))
         /\ \A type \in {"error", "cancelled", "done"} :
              /\ Message(type, sv.turn) \in Downlink /\ Plausible(Message(type, sv.turn))
              /\ Over(Message(type, sv.turn), Fence(sv))
<1>1. sv \in SvStates /\ sv.turn \in 0..MaxEpoch
  BY DEF ClientInv, Typed, SvStates
<1>2. /\ Fence(sv) \in SvStates /\ Fence(sv).turn = sv.turn /\ ~Fence(sv).active
      /\ Fence(sv).alive = sv.alive /\ Fence(sv).sending = sv.sending
  BY <1>1 DEF Fence, SvStates
<1>3. ASSUME NEW type \in {"error", "cancelled", "done"}
      PROVE  /\ Message(type, sv.turn) \in Downlink /\ Plausible(Message(type, sv.turn))
             /\ Over(Message(type, sv.turn), Fence(sv))
  BY <1>1, <1>2, Messages DEF Over, Free
<1> QED
  BY <1>2, <1>3 DEF Free

LEMMA RetireKeeps ==
  ASSUME ClientInv, ServerInv, tr.conn = "open", UNCHANGED <<tr, events, overflow, cut, client>>,
         c2s' = c2s \/ (c2s # <<>> /\ c2s' = Tail(c2s) /\ Head(c2s).type # "turn.start"),
         NEW m, Retire(m)
  PROVE  ClientInv' /\ ServerInv'
<1>1. /\ sv' = Fence(sv) /\ s2c' = Append(s2c, Message("error", sv.turn)) /\ raced' = raced
  BY DEF Retire, Queue
<1> QED
  BY <1>1, Fenced, ServerMoves

\* The session ends over a message the client must not send.
LEMMA EndsKeep ==
  ASSUME ClientInv, ServerInv, tr.conn = "open", UNCHANGED <<tr, events, overflow, cut, client>>,
         c2s # <<>>, c2s' = Tail(c2s), Head(c2s).type # "turn.start", NEW m, ProtocolEnds(m), raced
  PROVE  ClientInv' /\ ServerInv'
<1> DEFINE e == Message("error", 0)
<1>1. s2c' = Append(s2c, e) /\ sv' = [sv EXCEPT !.alive = FALSE] /\ raced' = raced
  BY DEF ProtocolEnds, Queue
<1>2. e \in Downlink /\ Plausible(e) /\ e.type = "error" /\ e.id = 0
  BY TransportAssumption, Messages DEF TransportAssumption
<1> HIDE DEF e
<1>3. /\ sv' \in SvStates /\ sv'.turn = sv.turn /\ sv'.active = sv.active
      /\ sv'.sending = sv.sending /\ sv'.finishing = sv.finishing
  BY <1>1 DEF ClientInv, Typed, SvStates
<1>4. Over(e, sv') /\ (Free(sv) => Free(sv'))
  BY <1>2, <1>3 DEF Over, Free
<1> QED
  BY <1>1, <1>2, <1>3, <1>4, ServerMoves

\* Nothing is said, and only what the server knows of the turn changes.
LEMMA NotedKeeps ==
  ASSUME ClientInv, ServerInv, tr.conn = "open",
         UNCHANGED <<tr, events, overflow, cut, client, s2c, raced>>,
         c2s # <<>>, c2s' = Tail(c2s), Head(c2s).type # "turn.start",
         sv' \in SvStates, sv'.alive = sv.alive, sv'.turn = sv.turn, sv'.active = sv.active,
         sv'.sending = sv.sending, sv'.finishing = sv.finishing
  PROVE  ClientInv' /\ ServerInv'
BY ServerMoves DEF Free

\* A turn begins, or is refused.
LEMMA BeginsKeeps ==
  ASSUME ClientInv, ServerInv, tr.conn = "open", UNCHANGED <<tr, events, overflow, cut, client>>,
         c2s # <<>>, c2s' = Tail(c2s), Head(c2s).type = "turn.start", OnTurnStart(Head(c2s))
  PROVE  ClientInv' /\ ServerInv'
<1> DEFINE m == Head(c2s)
<1>1. /\ m \in Uplink /\ m \in Elements(c2s) /\ m.type = "turn.start" /\ OnTurnStart(m)
      /\ c2s \in Seq(Uplink)
  BY TailElements DEF ClientInv, Typed
<1>2. m.id \in 0..MaxEpoch /\ m.id # 0
  BY <1>1 DEF Uplink, ClientInv, Outgoing
<1>3. sv \in SvStates /\ sv.turn \in Nat /\ tr.turn \in Nat /\ raced \in BOOLEAN
  BY DEF ClientInv, Typed, SvStates, TrStates
<1>4. ~raced => /\ OnTheWay(Tail(c2s), tr.turn, tr.turn, FALSE) /\ m.id = tr.turn
                /\ sv.turn < tr.turn /\ Free(sv) /\ Following
  <2> SUFFICES ASSUME ~raced PROVE /\ OnTheWay(Tail(c2s), tr.turn, tr.turn, FALSE)
                                   /\ m.id = tr.turn /\ sv.turn < tr.turn /\ Free(sv) /\ Following
    OBVIOUS
  <2>1. Following /\ Free(sv) \in BOOLEAN
    BY DEF ServerInv, Free
  <2>2. OnTheWay(c2s, sv.turn, tr.turn, Free(sv))
    BY <2>1 DEF Following
  <2>3. OnTheWay(Tail(c2s), tr.turn, tr.turn, FALSE) /\ m.id = tr.turn /\ sv.turn < tr.turn
    BY <1>1, <1>3, <2>2, WayStart
  <2>4. Free(sv)
    <3>1. m = c2s[1] /\ 1 \in 1..Len(c2s)
      BY <1>1, TailElements
    <3> QED BY <1>1, <2>2, <3>1 DEF OnTheWay
  <2> QED BY <2>1, <2>3, <2>4
<1> HIDE DEF m
<1>5. CASE sv.active
  <2> DEFINE e == Message("error", m.id)
  <2>1. s2c' = Append(s2c, e) /\ raced' = (raced \/ sv.finishing) /\ sv' = sv
    BY <1>1, <1>5 DEF OnTurnStart, Queue
  <2>2. e \in Downlink /\ Plausible(e)
    BY <1>2, Messages
  <2> HIDE DEF e
  <2>3. raced' \in BOOLEAN
    BY <1>3, <2>1 DEF SvStates
  <2>4. ClientInv'
    BY <1>3, <2>1, <2>2, <2>3, ServerKeeps DEF ClientInv, Incoming
  <2>5. raced'
    BY <1>4, <1>5, <2>1 DEF Free
  <2> QED BY <2>4, <2>5 DEF ServerInv
<1>6. CASE ~sv.active
  <2>1. /\ sv' = [NewServer EXCEPT !.hello = TRUE, !.turn = m.id, !.active = TRUE,
                                   !.sending = sv.sending]
        /\ s2c' = s2c /\ raced' = raced
    BY <1>1, <1>6 DEF OnTurnStart
  <2>2. /\ sv' \in SvStates /\ sv'.turn = m.id /\ sv'.active /\ sv'.sending = sv.sending
        /\ sv'.alive /\ ~sv'.finishing
    <3>1. sv.sending \in {<<>>} \cup {<<d>> : d \in Downlink}
      BY <1>3 DEF SvStates
    <3>2. sv' \in SvStates
      BY <1>2, <2>1, <3>1, Sessions DEF SvStates
    <3> QED BY <2>1, <3>2 DEF NewServer
  <2>3. ClientInv'
    BY <1>2, <1>3, <2>1, <2>2, ServerKeeps DEF ClientInv, Typed, Incoming
  <2>4. ASSUME ~raced PROVE Following'
    <3>1. /\ OnTheWay(Tail(c2s), tr.turn, tr.turn, FALSE) /\ m.id = tr.turn
          /\ sv.turn < tr.turn /\ Following
      BY <1>4, <2>4
    <3>2. ASSUME NEW d \in Downlink, Over(d, sv) PROVE Over(d, sv')
      <4>1. d.id \in Nat
        BY DEF Downlink, Epochs
      <4>2. d.id <= sv.turn => d.id <= sv'.turn /\ d.id # sv'.turn
        BY <1>3, <2>2, <3>1, <4>1
      <4> QED BY <3>2, <4>2 DEF Over
    <3>3. Elements(s2c) \subseteq Downlink
      BY DEF ClientInv, Typed, Elements
    <3>4. \A d \in Elements(s2c) : Over(d, sv')
      BY <3>1, <3>2, <3>3 DEF Following
    <3>5. sv'.sending # <<>> => Over(sv'.sending[1], sv')
      <4>1. sv.sending # <<>> => sv.sending[1] \in Downlink
        BY <1>3 DEF SvStates
      <4> QED BY <2>2, <3>1, <3>2, <4>1 DEF Following
    <3>6. OnTheWay(c2s', sv'.turn, tr.turn, FALSE)
      BY <2>2, <3>1
    <3>7. tr.active
      BY <1>3, <3>1 DEF Following
    <3>8. ~Free(sv')
      BY <2>2 DEF Free
    <3> QED BY <2>1, <2>2, <3>4, <3>5, <3>6, <3>7, <3>8
            DEF Following, OnTheWay, Over, Free, Elements
  <2> QED BY <2>1, <2>3, <2>4 DEF ServerInv
<1> QED
  BY <1>5, <1>6

\* The receive loop: nothing the client sends offends the server, unless a
\* turn.start met the last response.done half done.
LEMMA ReceivesKeeps ==
  ASSUME ClientInv, ServerInv, ServerReceives
  PROVE  ClientInv' /\ ServerInv'
<1> DEFINE m == Head(c2s)
<1>1. /\ tr.conn = "open" /\ UNCHANGED <<tr, events, overflow, cut, client>>
      /\ c2s # <<>> /\ c2s' = Tail(c2s) /\ c2s \in Seq(Uplink)
  BY DEF ServerReceives, Serving, ClientInv, Typed
<1>2. m \in Uplink /\ m \in Elements(c2s)
  BY <1>1, TailElements
<1>3. m.type \in {"hello", "turn.start", "pcm", "turn.commit", "cancel"}
  BY <1>2 DEF Uplink
<1>4. /\ m.type = "hello" => OnHello(m)
      /\ m.type = "turn.start" => OnTurnStart(m)
      /\ m.type = "pcm" => OnUplinkPcm(m)
      /\ m.type = "turn.commit" => OnCommit(m)
      /\ m.type = "cancel" => OnCancel(m)
  BY <1>3 DEF ServerReceives
<1>5. CASE m.type = "turn.start"
  BY <1>1, <1>4, <1>5, BeginsKeeps
<1>6. sv \in SvStates /\ sv.turn \in 0..MaxEpoch /\ sv.turn \in Nat /\ tr.turn \in Nat
  BY DEF ClientInv, Typed, SvStates, TrStates
<1>7. m.type \notin {"turn.start", "hello"} /\ ~raced => m.id = sv.turn
  <2> SUFFICES ASSUME m.type # "turn.start", m.type # "hello", ~raced PROVE m.id = sv.turn
    OBVIOUS
  <2>1. OnTheWay(c2s, sv.turn, tr.turn, Free(sv)) /\ Free(sv) \in BOOLEAN
    BY <1>1 DEF ServerInv, Following, Free
  <2> QED BY <1>1, <1>6, <2>1, WayTail
<1>8. raced \in BOOLEAN
  BY DEF ClientInv, Typed
<1>9. CASE m.type = "hello"
  <2> DEFINE ack == Message("hello.ack", 0)
  <2>1. s2c' = Append(s2c, ack) /\ sv' = [sv EXCEPT !.hello = TRUE] /\ raced' = raced
    BY <1>4, <1>9 DEF OnHello, Queue
  <2>2. ack \in Downlink /\ Plausible(ack) /\ ack.type = "hello.ack"
    BY TransportAssumption DEF Message, Downlink, Plausible, TransportAssumption
  <2> HIDE DEF ack
  <2>3. /\ sv' \in SvStates /\ sv'.turn = sv.turn /\ sv'.active = sv.active /\ sv'.alive = sv.alive
        /\ sv'.sending = sv.sending /\ sv'.finishing = sv.finishing
    BY <1>6, <2>1 DEF SvStates
  <2>4. Over(ack, sv') /\ (Free(sv) => Free(sv'))
    BY <2>2, <2>3 DEF Over, Free
  <2> QED BY <1>1, <1>9, <2>1, <2>2, <2>3, <2>4, ServerMoves
<1>10. CASE m.type \notin {"turn.start", "hello"} /\ ProtocolEnds(m) /\ m.id # sv.turn
  <2>1. raced
    BY <1>7, <1>8, <1>10
  <2> QED BY <1>1, <1>10, <2>1, EndsKeep
<1>11. CASE m.type \notin {"turn.start", "hello"} /\ Retire(m)
  BY <1>1, <1>11, RetireKeeps
<1>12. CASE m.type \notin {"turn.start", "hello"} /\ UNCHANGED <<s2c, sv, raced>>
  BY <1>1, <1>6, <1>12, NotedKeeps
<1>13. CASE m.type = "pcm"
  <2>1. OnUplinkPcm(m)
    BY <1>4, <1>13
  <2>2. CASE sv' = [sv EXCEPT !.started = TRUE, !.ended = "END" \in m.flags]
             /\ UNCHANGED <<s2c, raced>>
    <3> DEFINE end == "END" \in m.flags
    <3>1. sv' = [sv EXCEPT !.started = TRUE, !.ended = end] /\ end \in BOOLEAN
      BY <2>2
    <3> HIDE DEF end
    <3>2. /\ sv' \in SvStates /\ sv'.alive = sv.alive /\ sv'.turn = sv.turn
          /\ sv'.active = sv.active /\ sv'.sending = sv.sending /\ sv'.finishing = sv.finishing
      BY <1>6, <3>1 DEF SvStates
    <3> QED BY <1>1, <1>13, <2>2, <3>2, NotedKeeps
  <2> QED BY <1>10, <1>11, <1>12, <1>13, <2>1, <2>2 DEF OnUplinkPcm
<1>14. CASE m.type = "turn.commit"
  <2>1. OnCommit(m)
    BY <1>4, <1>14
  <2>2. CASE sv' = [sv EXCEPT !.committed = TRUE] /\ UNCHANGED <<s2c, raced>>
    <3>1. /\ sv' \in SvStates /\ sv'.alive = sv.alive /\ sv'.turn = sv.turn
          /\ sv'.active = sv.active /\ sv'.sending = sv.sending /\ sv'.finishing = sv.finishing
      BY <1>6, <2>2 DEF SvStates
    <3> QED BY <1>1, <1>14, <2>2, <3>1, NotedKeeps
  <2> QED BY <1>10, <1>11, <1>12, <1>14, <2>1, <2>2 DEF OnCommit
<1>15. CASE m.type = "cancel"
  <2>1. OnCancel(m)
    BY <1>4, <1>15
  <2>2. CASE m.id = sv.turn
    <3>1. sv' = Fence(sv) /\ s2c' = Append(s2c, Message("cancelled", sv.turn)) /\ raced' = raced
      BY <2>1, <2>2 DEF OnCancel, Queue
    <3> QED BY <1>1, <1>15, <3>1, Fenced, ServerMoves
  <2> QED BY <1>10, <1>12, <1>15, <2>1, <2>2 DEF OnCancel
<1> QED
  BY <1>3, <1>5, <1>9, <1>13, <1>14, <1>15

\* A packet that forwardEvents makes up.
LEMMA ProduceKeeps ==
  ASSUME ClientInv, ServerInv, tr.conn = "open", NEW m \in Downlink, Plausible(m),
         NEW s \in SvStates, Produce(m, s), Over(m, s),
         s.alive = sv.alive, s.turn = sv.turn, s.active => sv.active, Free(sv) => Free(s)
  PROVE  ClientInv' /\ ServerInv'
<1>1. /\ sv' = [s EXCEPT !.sending = <<m>>]
      /\ UNCHANGED <<tr, c2s, s2c, events, overflow, cut, client, raced>>
  BY DEF Produce, transport
<1>2. /\ sv' \in SvStates /\ sv'.alive = sv.alive /\ sv'.turn = sv.turn /\ sv'.active = s.active
      /\ sv'.finishing = s.finishing /\ sv'.sending = <<m>>
  BY <1>1 DEF SvStates
<1>3. Over(m, sv') /\ (Free(sv) => Free(sv'))
  BY <1>2 DEF Over, Free
<1> QED
  BY <1>1, <1>2, <1>3, ServerMoves

LEMMA ForwardKeeps ==
  ASSUME ClientInv, ServerInv, Forward
  PROVE  ClientInv' /\ ServerInv'
<1>1. sv \in SvStates /\ tr.conn = "open" /\ sv.turn \in 0..MaxEpoch
  <2>1. tr.conn = "open"
    <3>1. AnswerStarts \/ AudioStarts \/ AudioGoesOn \/ AnswerDone \/ ProviderFails => Answering
      BY Zenon DEF AnswerStarts, AudioStarts, AudioGoesOn, AnswerDone, ProviderFails
    <3>2. Send \/ Retired \/ Answering => Serving
      BY Zenon DEF Send, Retired, Answering
    <3> QED BY <3>1, <3>2 DEF Forward, Serving
  <2>2. sv \in SvStates
    BY DEF ClientInv, Typed
  <2> QED BY <2>1, <2>2 DEF SvStates
<1>2. CASE AnswerStarts
  <2> DEFINE m == Message("response.start", sv.turn)
             s == [sv EXCEPT !.answer = "started"]
  <2>1. Produce(m, s)
    BY <1>2 DEF AnswerStarts
  <2>2. m \in Downlink /\ Plausible(m) /\ m.type = "response.start"
    BY <1>1, Messages
  <2>3. s \in SvStates /\ s.alive = sv.alive /\ s.turn = sv.turn /\ s.active = sv.active
        /\ s.finishing = sv.finishing
    BY <1>1 DEF SvStates
  <2> HIDE DEF m, s
  <2> QED BY <1>1, <2>1, <2>2, <2>3, ProduceKeeps DEF Over, Free
<1>3. CASE AudioStarts
  <2> DEFINE m == Message("audio_start", sv.turn)
             s == [sv EXCEPT !.answer = "audio"]
  <2>1. Produce(m, s)
    BY <1>3 DEF AudioStarts
  <2>2. m \in Downlink /\ Plausible(m) /\ m.type = "audio_start"
    BY <1>1, Messages
  <2>3. s \in SvStates /\ s.alive = sv.alive /\ s.turn = sv.turn /\ s.active = sv.active
        /\ s.finishing = sv.finishing
    BY <1>1 DEF SvStates
  <2> HIDE DEF m, s
  <2> QED BY <1>1, <2>1, <2>2, <2>3, ProduceKeeps DEF Over, Free
<1>4. CASE AudioGoesOn
  <2>1. PICK end \in BOOLEAN, gap \in {{}, {"GAP"}} :
          /\ sv.audio + 1 = MaxAudio => end
          /\ gap = {} \/ Gaps
          /\ Produce(Pcm(sv.turn, sv.audio, (IF sv.audio = 0 THEN {"START"} ELSE {}) \cup gap
                                            \cup (IF end THEN {"END"} ELSE {})),
                     [sv EXCEPT !.audio = @ + 1, !.answer = IF end THEN "over" ELSE @])
    BY <1>4, Zenon DEF AudioGoesOn
  <2> DEFINE flags == (IF sv.audio = 0 THEN {"START"} ELSE {}) \cup gap
                      \cup (IF end THEN {"END"} ELSE {})
             answer == IF end THEN "over" ELSE sv.answer
             m == Pcm(sv.turn, sv.audio, flags)
             s == [sv EXCEPT !.audio = @ + 1, !.answer = answer]
  <2>2. Produce(m, s)
    BY <2>1
  <2>3. flags \in SUBSET Flags
    BY DEF Flags
  <2>4. answer \in {"none", "started", "audio", "over"}
    BY <1>1 DEF SvStates
  <2> HIDE DEF flags, answer
  <2>5. sv.active /\ sv.audio < MaxAudio /\ sv.audio \in Nat /\ MaxAudio \in Nat
    BY <1>1, <1>4, TransportAssumption DEF AudioGoesOn, Answering, SvStates, TransportAssumption
  <2>6. m \in Downlink /\ Plausible(m) /\ m.type = "pcm"
    <3>1. sv.turn \in Epochs /\ sv.audio \in 0..MaxAudio
      BY <1>1, <2>5 DEF Epochs, ClientInv, Incoming
    <3> QED BY <2>3, <2>5, <3>1 DEF Pcm, Downlink, Plausible
  <2>7. s \in SvStates /\ s.alive = sv.alive /\ s.turn = sv.turn /\ s.active = sv.active
        /\ s.finishing = sv.finishing
    <3>1. sv.audio + 1 \in 0..MaxAudio
      BY <2>5
    <3> QED BY <1>1, <2>4, <3>1 DEF SvStates
  <2> HIDE DEF m, s
  <2> QED BY <1>1, <2>2, <2>6, <2>7, ProduceKeeps DEF Over, Free
<1>5. CASE AnswerDone
  <2> DEFINE m == Message("done", sv.turn)
             s == [sv EXCEPT !.finishing = TRUE]
  <2>1. Produce(m, s)
    BY <1>5 DEF AnswerDone
  <2>2. m \in Downlink /\ Plausible(m) /\ m.type = "done" /\ m.id = sv.turn
    BY <1>1, Messages
  <2>3. s \in SvStates /\ s.alive = sv.alive /\ s.turn = sv.turn /\ s.active = sv.active
        /\ s.finishing
    BY <1>1 DEF SvStates
  <2> HIDE DEF m, s
  <2>4. Over(m, s) /\ Free(s)
    BY <1>1, <2>2, <2>3 DEF Over, Free
  <2> QED BY <1>1, <2>1, <2>2, <2>3, <2>4, ProduceKeeps
<1>6. CASE ProviderFails
  <2> DEFINE m == Message("error", sv.turn)
             s == Fence(sv)
  <2>1. Produce(m, s)
    BY <1>6 DEF ProviderFails
  <2>2. /\ m \in Downlink /\ Plausible(m) /\ Over(m, s) /\ s \in SvStates
        /\ s.alive = sv.alive /\ s.turn = sv.turn /\ ~s.active /\ Free(s)
    BY Fenced
  <2> HIDE DEF m, s
  <2> QED BY <1>1, <2>1, <2>2, ProduceKeeps
<1>7. CASE Send
  <2>1. /\ UNCHANGED <<tr, c2s, events, overflow, cut, client, raced>>
        /\ sv.sending # <<>> /\ sv' = [sv EXCEPT !.sending = <<>>]
        /\ s2c' = s2c \/ s2c' = Append(s2c, sv.sending[1])
    BY <1>7 DEF Send, Queue
  <2>2. /\ sv' \in SvStates /\ sv'.alive = sv.alive /\ sv'.turn = sv.turn
        /\ sv'.active = sv.active /\ sv'.finishing = sv.finishing /\ sv'.sending = <<>>
    BY <1>1, <2>1 DEF SvStates
  <2>3. sv.sending[1] \in Downlink /\ Plausible(sv.sending[1])
    BY <1>1, <2>1 DEF SvStates, ClientInv, Incoming
  <2>4. CASE raced
    <3>1. ClientInv'
      BY <1>1, <2>1, <2>2, <2>3, ServerKeeps DEF ClientInv, Typed, Incoming
    <3> QED BY <2>1, <2>4, <3>1 DEF ServerInv
  <2>5. CASE ~raced
    <3>1. Over(sv.sending[1], sv)
      BY <1>1, <2>1, <2>5 DEF ServerInv, Following
    <3>2. Over(sv.sending[1], sv') /\ (Free(sv) => Free(sv'))
      BY <2>2, <3>1 DEF Over, Free
    <3> QED BY <1>1, <2>1, <2>2, <2>3, <3>2, ServerMoves
  <2> QED BY <2>4, <2>5
<1>8. CASE Retired
  <2>1. sv' = Fence(sv) /\ UNCHANGED <<tr, c2s, s2c, events, overflow, cut, client, raced>>
    BY <1>8 DEF Retired, transport
  <2> QED BY <1>1, <2>1, Fenced, ServerMoves
<1> QED
  BY <1>2, <1>3, <1>4, <1>5, <1>6, <1>7, <1>8 DEF Forward

-----------------------------------------------------------------------------
(* Both ends together.                                                     *)

SessionInv == ClientInv /\ ServerInv

LEMMA SessionInit == Init => SessionInv
<1> SUFFICES ASSUME Init PROVE SessionInv
  OBVIOUS
<1>1. /\ tr = NoTransport /\ c2s = <<>> /\ s2c = <<>> /\ events = <<>> /\ overflow = FALSE
      /\ cut = {} /\ cl = NewClient /\ playback = "idle" /\ running = TRUE
      /\ sv = [NewServer EXCEPT !.alive = FALSE] /\ raced = FALSE
  BY DEF Init, TransportInit, ClientInit
<1>2. /\ sv \in SvStates /\ sv.sending = <<>> /\ ~sv.active
  BY <1>1, Sessions DEF SvStates
<1>3. 0 <= SendCap + 1 /\ 0 <= EventCap /\ ~(0 > SendCap)
  BY TransportAssumption DEF TransportAssumption
<1>4. Typed
  <2>1. /\ <<>> \in Seq(Uplink) /\ <<>> \in Seq(Downlink) /\ <<>> \in Seq(Events)
        /\ Len(<<>>) = 0
    OBVIOUS
  <2>2. tr \in TrStates /\ cl \in ClStates /\ sv \in SvStates /\ playback \in Playbacks
    BY <1>1, <1>2, NewTransport DEF Playbacks
  <2>3. /\ c2s \in Seq(Uplink) /\ Len(c2s) <= SendCap + 1 /\ s2c \in Seq(Downlink)
        /\ events \in Seq(Events) /\ Len(events) <= EventCap
    BY <1>1, <1>3, <2>1
  <2> QED BY <1>1, <2>2, <2>3 DEF Typed
<1>5. Modes
  BY <1>1, NewTransport DEF Modes, NoStalePlayback
<1>6. Links
  BY <1>1, NewTransport DEF Links, SameTurn, NotYetOpen, TurnOver, Closed, Session, NoTransport
<1>7. Queue_ /\ Outgoing /\ Incoming
  BY <1>1, <1>2, <1>3 DEF Queue_, Ordered, Elements, Outgoing, Incoming
<1>8. Known
  <2>1. Elements(events) = {}
    BY <1>1 DEF Elements
  <2> QED BY <1>1, <2>1, NewTransport, KnownFresh DEF Known, Waits
<1> QED
  BY <1>1, <1>4, <1>5, <1>6, <1>7, <1>8, NewTransport DEF SessionInv, ClientInv, ServerInv

LEMMA SessionNext == SessionInv /\ [Next]_vars => SessionInv'
<1> SUFFICES ASSUME ClientInv, ServerInv, [Next]_vars PROVE ClientInv' /\ ServerInv'
  BY DEF SessionInv
<1>1. CASE ClientStep
  <2>1. ClientInv' /\ ClientSends /\ UNCHANGED <<sv, raced>>
    BY <1>1, ClientSteps DEF Sound, ClientStep
  <2> QED BY <2>1, SendsFollow
<1>2. CASE Network
  BY <1>2, NetworkSteps, NetworkFollows
<1>3. CASE Open
  BY <1>3, OpenKeeps, OpenFollows
<1>4. CASE ServerReceives
  BY <1>4, ReceivesKeeps
<1>5. CASE ServerRetires
  BY <1>5, RetireKeeps DEF ServerRetires, Serving
<1>6. CASE Forward
  BY <1>6, ForwardKeeps
<1>7. CASE UNCHANGED vars
  <2>1. UNCHANGED <<tr, c2s, s2c, events, overflow, cut, cl, playback, running, sv, raced>>
    BY <1>7 DEF vars, transport, client
  <2>2. Typed' /\ Modes' /\ Links'
    BY <2>1 DEF ClientInv, Typed, Modes, NoStalePlayback, Links, SameTurn, NotYetOpen, TurnOver,
                Session, Pending
  <2>3. Queue_' /\ Outgoing' /\ Incoming' /\ Known'
    BY <2>1 DEF ClientInv, Queue_, Ordered, Elements, Current, Session, Pending, Outgoing, Incoming,
                Known
  <2>4. ServerInv'
    BY <2>1 DEF ServerInv, Following, Elements
  <2> QED BY <2>2, <2>3, <2>4 DEF ClientInv
<1> QED
  BY <1>1, <1>2, <1>3, <1>4, <1>5, <1>6, <1>7 DEF Next

LEMMA SessionAlways == FairSpec => []SessionInv
<1> QED
  BY SessionInit, SessionNext, PTL DEF FairSpec, Spec

\* What the client knows of its turn is true of the connection it has, in
\* every order in which the application, the ASIO thread, the server and the
\* network take their steps: whenever the state machine of voice_client.cpp
\* lets a turn start, the transport's guard of kTurnStart lets it through, and
\* no event of an earlier turn waits in the queue.
THEOREM TurnsStayInStep == FairSpec => []SessionSound
<1>1. SessionInv => SessionSound
  <2> SUFFICES ASSUME ClientInv PROVE SessionSound
    BY DEF SessionInv
  <2>1. TypeOK
    BY TypedMeans DEF ClientInv
  <2>2. StartAllowed
    BY DEF StartAllowed, ClientInv, Links, SameTurn, TurnOver, Closed, Waits
  <2>3. EventsAreCurrent
    <3> SUFFICES ASSUME NEW i \in 1..Len(events) PROVE events[i].id \in {0, cl.epoch}
      BY DEF EventsAreCurrent
    <3>1. events[i] \in Elements(events)
      BY DEF Elements
    <3> QED BY <3>1 DEF ClientInv, Queue_, Current
  <2> QED BY <2>1, <2>2, <2>3 DEF SessionSound
<1> QED
  BY <1>1, SessionAlways, PTL

\* Audio plays only while the state of the client owns it: every way out of
\* an answer (DropPlayback in voice_client.cpp) silences it.
THEOREM CutAnswersAreSilent == FairSpec => []NoStalePlayback
<1>1. SessionInv => NoStalePlayback
  BY DEF SessionInv, ClientInv, Modes
<1> QED
  BY <1>1, SessionAlways, PTL

\* The guards of the transport keep every message within what the server
\* accepts of its turn: backpressure, aborts and barge-ins never make
\* Handle return an error (device_handler.go), unless a turn.start met the
\* window between response.done and the retirement of its turn.
THEOREM ServerAcceptsClient == FairSpec => []ServerNotOffended
<1>1. SessionInv => ServerNotOffended
  BY DEF SessionInv, ServerInv, Following, ServerNotOffended
<1> QED
  BY <1>1, SessionAlways, PTL

-----------------------------------------------------------------------------
(* Why a connection is given up.                                           *)

\* The application is not behind: its transport runs the turn it is in.
LEMMA InTouch ==
  ASSUME ClientInv, ~Behind, tr.conn = "open",
         cl.state \notin Waits \cup {"CancelPending"}
  PROVE  /\ Session /\ tr.turn = cl.epoch /\ ~tr.cancel_sent
         /\ tr.active \/ (cl.state = "DrainingPlayback" /\ cl.response # 0)
         /\ cl.response # 0 =>
              cl.response = cl.epoch /\ tr.response = cl.response
              /\ (tr.active \/ tr.response_done)
         /\ cl.state \in {"PlayingResponse", "DrainingPlayback"} => cl.response # 0
<1>1. Session /\ tr.turn = cl.epoch /\ ~tr.cancel_sent
  BY DEF ClientInv, Modes, ModesOf, Links, SameTurn, TurnOver, Waits, Session, Pending
<1>2. \A e \in Elements(events) : e.type \notin {"done", "error"}
  BY DEF Behind, Elements
<1>3. ~overflow /\ Told(cl, tr, events)
  BY DEF Behind, ClientInv, Known, KnownOf, Typed
<1>4. tr.active \/ cl.state = "DrainingPlayback"
  BY <1>2, <1>3 DEF Told
<1> QED
  BY <1>1, <1>4 DEF ClientInv, Known, KnownOf

\* A cancel, of the turn or of the answer, is not refused then.
LEMMA CancelAccepted ==
  ASSUME ClientInv, ~Behind, tr.conn = "open",
         cl.state \notin Waits \cup {"CancelPending"},
         NEW c, c.epoch = cl.epoch, c.response = cl.response
  PROVE  /\ MayCancel(c)
         /\ cl.response # 0 => MayResponseCancel(c.response)
         /\ SendCancel(c.epoch) => tr'.conn = "open"
<1>1. tr \in TrStates
  BY DEF ClientInv, Typed
<1> QED
  BY <1>1, InTouch DEF MayCancel, MayResponseCancel, MayTurnCancel, SendCancel, TrStates

LEMMA AbortAccepted ==
  ASSUME ClientInv, ~Behind, tr.conn = "open",
         cl.state \notin Waits \cup {"CancelPending"},
         NEW c, c.epoch = cl.epoch, c.response = cl.response, AbortCurrent(c)
  PROVE  tr'.conn # "none"
BY CancelAccepted DEF AbortCurrent

LEMMA AudioAccepted ==
  ASSUME ClientInv, ~Behind, tr.conn = "open", Room,
         cl.state = "CapturingSpeech", cl.at # "commit",
         NEW c, c.epoch = cl.epoch, c.up = cl.up, NEW end, NEW then,
         SendAudioOrRecover(c, end, then)
  PROVE  tr'.conn # "none"
<1>1. PcmValid(c.epoch, c.up)
  <2>1. tr.active /\ tr.turn = cl.epoch
    BY InTouch DEF Waits
  <2> QED BY <2>1 DEF PcmValid, ClientInv, Known, KnownOf
<1>2. PcmOutcome(c.epoch, c.up) = "ok"
  BY <1>1 DEF PcmOutcome
<1>3. SendPcm(c.epoch, c.up, end)
  BY <1>2 DEF SendAudioOrRecover
<1> QED
  BY <1>3 DEF SendPcm, ClientInv, Typed, TrStates

LEMMA FrameAccepted ==
  ASSUME ClientInv, ~Behind, tr.conn = "open", Room, Loop, NEW frame \in Frames, OnFrame(frame)
  PROVE  tr'.conn # "none"
<1>1. /\ Saved.response = cl.response /\ Saved.epoch = cl.epoch
      /\ cl.at = "loop"
  BY SavedIs DEF ClientInv, Kept, Loop
<1>2. CASE UNCHANGED tr
  BY <1>2
<1>3. CASE frame = "gap"
  <2>1. CASE cl.state \in {"CapturingSpeech", "WaitingForResponse", "PlayingResponse",
                           "DrainingPlayback"}
    <3> DEFINE c == [cl EXCEPT !.pre = 0]
    <3>1. c.epoch = cl.epoch /\ c.response = cl.response /\ AbortCurrent(c)
      BY <1>3, <2>1 DEF OnFrame, Discontinuity, Pending, ClientInv, Typed, ClStates
    <3> HIDE DEF c
    <3> QED BY <2>1, <3>1, AbortAccepted DEF Waits
  <2>2. CASE cl.state \notin {"CapturingSpeech", "WaitingForResponse", "PlayingResponse",
                              "DrainingPlayback"}
    <3>1. UNCHANGED tr
      BY <1>3, <2>2 DEF OnFrame, Discontinuity, Locally
    <3> QED BY <3>1
  <2> QED BY <2>1, <2>2
<1>4. CASE frame # "gap" /\ Session /\ cl.state \in {"WaitingForSpeech", "WaitingForFollowUp"}
  <2>1. tr' = tr \/ StartTurn(Saved, FALSE, playback)
    BY <1>4 DEF OnFrame, AwaitSpeech, Becomes, Locally
  <2>2. MayTurnStart(Saved.epoch)
    <3>1. tr.turn < cl.epoch /\ ~tr.active /\ tr.session
      BY <1>4 DEF ClientInv, Links, SameTurn, TurnOver, Closed, Waits
    <3>2. tr.turn \in Nat /\ cl.epoch \in Nat
      BY DEF ClientInv, Typed, TrStates, ClStates
    <3> QED BY <1>1, <3>1, <3>2 DEF MayTurnStart
  <2> QED BY <2>1, <2>2 DEF StartTurn, SendTurnStart, NoTransport
<1>5. CASE frame # "gap" /\ Session /\ cl.state = "CapturingSpeech"
  <2> DEFINE c == [cl EXCEPT !.ended = FALSE]
  <2>1. c.epoch = cl.epoch /\ c.up = cl.up
    BY DEF ClientInv, Typed, ClStates
  <2>2. Capture(frame)
    BY <1>5 DEF OnFrame
  <2>3. \/ SendAudioOrRecover(c, TRUE, [c EXCEPT !.at = "commit"])
        \/ SendAudioOrRecover(cl, FALSE, cl)
    BY <2>2 DEF Capture
  <2> HIDE DEF c
  <2> QED BY <1>1, <1>5, <2>1, <2>3, AudioAccepted
<1>6. CASE frame # "gap" /\ Session /\ cl.state \in {"PlayingResponse", "DrainingPlayback"}
  <2>1. tr' = tr \/ ConfirmBarge(Saved)
    BY <1>6 DEF OnFrame, Becomes, Locally
  <2>2. cl.response # 0
    BY <1>6, InTouch DEF Waits
  <2>3. MayResponseCancel(Saved.response) /\ (SendCancel(Saved.epoch) => tr'.conn = "open")
    BY <1>1, <1>6, <2>2, CancelAccepted DEF Waits
  <2> QED BY <2>1, <2>3 DEF ConfirmBarge
<1>7. CASE frame # "gap" /\ (~Session \/ cl.state \in {"WaitingForWake", "CancelPending",
                                                     "WaitingForResponse"})
  <2>1. UNCHANGED tr
    BY <1>7 DEF OnFrame, AwaitWake, AwaitCancelled, Becomes, Locally
  <2> QED BY <2>1
<1> QED
  BY <1>3, <1>4, <1>5, <1>6, <1>7 DEF ClientInv, Typed, ClStates, States

LEMMA RefusalMeans ==
  ASSUME ClientInv, tr.conn = "open", Room, ~Behind, Refused
  PROVE  tr'.conn # "none"
<1>1. CASE SendPreRoll
  <2>1. cl.at \in {"preroll", "final"} /\ \E end, then : SendAudioOrRecover(cl, end, then)
    BY <1>1 DEF SendPreRoll
  <2>2. cl.state = "CapturingSpeech"
    BY <2>1 DEF ClientInv, Modes, ModesOf
  <2> QED BY <2>1, <2>2, AudioAccepted
<1>2. CASE SendTurnCommit
  <2>1. cl.at = "commit" /\ cl.state = "CapturingSpeech"
    BY <1>2 DEF SendTurnCommit, ClientInv, Modes, ModesOf
  <2>2. tr.active /\ tr.turn = cl.epoch
    BY <2>1, InTouch DEF Waits
  <2>3. MayCommit(cl.epoch)
    BY <2>1, <2>2 DEF MayCommit, ClientInv, Known, KnownOf
  <2>4. SendCommit(cl.epoch)
    BY <1>2, <2>3 DEF SendTurnCommit
  <2> QED BY <2>4 DEF SendCommit, ClientInv, Typed, TrStates
<1>3. CASE Step(TouchInterrupt)
  BY <1>3, AbortAccepted DEF Step, TouchInterrupt, Waits
<1>4. CASE Step(TurnTimeout)
  BY <1>4, AbortAccepted DEF Step, TurnTimeout, Waits
<1>5. CASE \E frame \in InScope : Step(OnFrame(frame))
  BY <1>5, FrameAccepted DEF Step, InScope
<1> QED
  BY <1>1, <1>2, <1>3, <1>4, <1>5 DEF Refused

-----------------------------------------------------------------------------
(* What is on its way to the client, and what its transport makes of it.   *)

Spoken == {"response.start", "audio_start", "pcm"}
Speech(m, t) == m.type \in Spoken /\ m.id = t.turn

\* The place of a message in its answer, the one that the transport t expects
\* next, and the one that the server s will make next.
Place(m) == IF m.type = "response.start" THEN 0 ELSE IF m.type = "audio_start" THEN 1 ELSE 2 + m.seq
Expected(t) == IF t.response = 0 THEN 0 ELSE IF ~t.audio_started THEN 1 ELSE 2 + t.downlink
Made(s) == IF s.answer = "none" THEN 0 ELSE IF s.answer = "started" THEN 1 ELSE 2 + s.audio

\* Behind the messages of before: the turn of t is over, the place p comes
\* next, the answer has begun, its audio has not, goes on, or is over.
OverBy(before, t) == \E b \in before : b.id = t.turn /\ b.type \in {"done", "error"}
Ahead(p, before, t) ==
  /\ Expected(t) <= p
  /\ \A b \in before : Speech(b, t) => Place(b) < p
  /\ p = Expected(t) \/ \E b \in before : Speech(b, t) /\ Place(b) + 1 = p
Begun(before, t) ==
  t.response # 0 \/ \E b \in before : Speech(b, t) /\ b.type = "response.start"
Silent(before, t) ==
  ~t.audio_started /\ \A b \in before : Speech(b, t) => b.type # "audio_start"
Sounding(before, t) ==
  ~t.audio_ended /\ \A b \in before : Speech(b, t) /\ b.type = "pcm" => "END" \notin b.flags
Sounded(before, t) ==
  \/ t.audio_ended
  \/ \E b \in before : Speech(b, t) /\ b.type = "pcm" /\ b.flags \cap {"END", "GAP"} # {}

\* The transport t takes m behind before.
Fits(m, before, t) ==
  m.id = t.turn /\ ~OverBy(before, t) =>
    /\ m.type = "response.start" => ~t.discard /\ t.committed
    /\ m.type \in Spoken /\ ~t.discard => Ahead(Place(m), before, t)
    /\ m.type = "pcm" /\ ~t.discard => Sounding(before, t)
    /\ m.type = "done" =>
         Begun(before, t) /\ (t.discard \/ Silent(before, t) \/ Sounded(before, t))

\* It takes what the server s makes next.
Ready(s, before, t) ==
  s.turn = t.turn /\ s.active /\ ~s.finishing /\ ~OverBy(before, t) =>
    /\ s.committed => t.committed
    /\ s.answer = "none" => ~t.discard
    /\ s.answer # "none" => Begun(before, t)
    /\ s.answer \in {"none", "started"} => s.audio = 0
    /\ s.answer = "started" => t.discard \/ Silent(before, t)
    /\ s.answer = "audio" => t.discard \/ Sounding(before, t)
    /\ s.answer = "over" => t.discard \/ Sounded(before, t)
    /\ ~t.discard => Ahead(Made(s), before, t)

First(q, n) == {q[k] : k \in 1..n}
Line(q, t) == \A i \in 1..Len(q) : Fits(q[i], First(q, i - 1), t)

Once(q, S) == \A i, j \in 1..Len(q) : q[i] \in S /\ q[j] \in S => i = j
Hellos == {m \in Uplink : m.type = "hello"}
Acks == {m \in Downlink : m.type = "hello.ack"}
Starts(t) == {m \in Uplink : m.type = "turn.start" /\ m.id = t.turn}

\* One hello.ack, to one hello.
Greeted ==
  /\ Once(c2s, Hellos) /\ Once(s2c, Acks)
  /\ \A m \in Elements(c2s) : m.type = "hello" =>
       ~tr.session /\ cl.hello_sent /\ \A a \in Elements(s2c) : a.type # "hello.ack"
  /\ \A m \in Elements(s2c) : m.type = "hello.ack" => ~tr.session /\ cl.hello_sent
  /\ tr.session => cl.hello_sent

OnWay == Elements(s2c) \cup Elements(sv.sending)

\* Nothing is about a turn that the client has not begun, and what ends one
\* early is remembered in cut.
Named ==
  /\ \A m \in Elements(c2s) : m.id <= tr.turn
  /\ \A m \in OnWay :
       /\ m.id <= tr.turn
       /\ m.type \in Spoken \cup {"done"} => m.id # 0
       /\ m.type = "pcm" => (m.seq = 0 <=> "START" \in m.flags)
       /\ m.type = "cancelled" => m.id \in cut
  /\ sv.turn <= tr.turn
  /\ \A m \in Elements(sv.sending) : m.type # "hello.ack"
  /\ \A m \in Elements(c2s) : m.type = "cancel" => m.id \in cut
  /\ \A m \in Elements(c2s) : m.type = "turn.commit" /\ m.id = tr.turn => tr.committed
  /\ tr.cancel_sent => tr.turn \in cut

\* The server has not heard of a turn whose start is on its way.
Unheard ==
  /\ Once(c2s, Starts(tr))
  /\ (\E m \in Elements(c2s) : m \in Starts(tr)) =>
       /\ sv.turn # tr.turn /\ tr.response = 0
       /\ \A m \in OnWay : m.id # tr.turn

\* What the transport knows of an answer that was not cut.
Answered(t) ==
  /\ t.discard => t.response # 0
  /\ ~t.audio_started => t.downlink = 0 /\ ~t.audio_ended
  /\ tr.turn \notin cut /\ ~t.active => t.response = t.turn

Runs == tr.active /\ tr.turn \notin cut

InLine ==
  /\ Line(s2c, tr)
  /\ sv.sending # <<>> => Fits(sv.sending[1], Elements(s2c), tr)
  /\ Ready(sv, OnWay, tr)

DownInv == tr.conn = "open" => Greeted /\ Named /\ Unheard /\ Answered(tr) /\ (Runs => InLine)

LEMMA FirstMeans ==
  ASSUME NEW S, NEW q \in Seq(S)
  PROVE  /\ First(q, 0) = {} /\ First(q, Len(q)) = Elements(q)
         /\ \A n \in Nat : n <= Len(q) => First(q, n) \subseteq Elements(q)
<1>1. Len(q) \in Nat
  OBVIOUS
<1> QED
  BY <1>1 DEF First, Elements

LEMMA FirstTail ==
  ASSUME NEW S, NEW q \in Seq(S), q # <<>>, NEW i \in 1..Len(Tail(q))
  PROVE  /\ i + 1 \in 1..Len(q) /\ Tail(q)[i] = q[i + 1]
         /\ First(q, (i + 1) - 1) = {Head(q)} \cup First(Tail(q), i - 1)
<1> DEFINE rest == Tail(q)
<1>1. /\ Len(rest) = Len(q) - 1 /\ Len(q) \in Nat \ {0} /\ Head(q) = q[1]
      /\ \A k \in 1..Len(rest) : rest[k] = q[k + 1]
  BY TailElements
<1> HIDE DEF rest
<1>2. i \in Nat \ {0} /\ i <= Len(rest) /\ (i + 1) - 1 = i
  BY <1>1 DEF rest
<1>3. ASSUME NEW k \in 1..i PROVE q[k] \in {Head(q)} \cup First(rest, i - 1)
  <2>1. CASE k = 1
    BY <1>1, <2>1
  <2>2. CASE k # 1
    <3>1. k - 1 \in 1..(i - 1) /\ k - 1 \in 1..Len(rest) /\ (k - 1) + 1 = k
      BY <1>1, <1>2, <2>2
    <3>2. q[k] = rest[k - 1]
      BY <1>1, <3>1
    <3> QED BY <3>1, <3>2 DEF First
  <2> QED BY <2>1, <2>2
<1>4. ASSUME NEW k \in 1..(i - 1) PROVE rest[k] \in First(q, i)
  <2>1. k + 1 \in 1..i /\ k \in 1..Len(rest)
    BY <1>1, <1>2
  <2> QED BY <1>1, <2>1 DEF First
<1>5. Head(q) \in First(q, i)
  BY <1>1, <1>2 DEF First
<1>6. First(q, i) = {Head(q)} \cup First(rest, i - 1)
  BY <1>3, <1>4, <1>5 DEF First
<1> QED
  BY <1>1, <1>2, <1>6 DEF rest

\* A line whose head has passed, and one that has become longer.
LEMMA LineTail ==
  ASSUME NEW q \in Seq(Downlink), q # <<>>, NEW t, NEW u, Line(q, t),
         \A m \in Downlink : \A B \in SUBSET Downlink :
           Fits(m, {Head(q)} \cup B, t) => Fits(m, B, u)
  PROVE  Line(Tail(q), u)
<1> DEFINE rest == Tail(q)
<1>1. rest \in Seq(Downlink)
  BY TailElements
<1> HIDE DEF rest
<1> SUFFICES ASSUME NEW i \in 1..Len(rest) PROVE Fits(rest[i], First(rest, i - 1), u)
  BY DEF Line, rest
<1>2. /\ i + 1 \in 1..Len(q) /\ rest[i] = q[i + 1]
      /\ First(q, (i + 1) - 1) = {Head(q)} \cup First(rest, i - 1)
  BY FirstTail DEF rest
<1>3. rest[i] \in Downlink /\ First(rest, i - 1) \in SUBSET Downlink
  BY <1>1 DEF First
<1>4. Fits(q[i + 1], First(q, (i + 1) - 1), t)
  BY <1>2 DEF Line
<1> QED
  BY <1>2, <1>3, <1>4

LEMMA LineAppend ==
  ASSUME NEW q \in Seq(Downlink), NEW t, Line(q, t), NEW e \in Downlink, Fits(e, Elements(q), t)
  PROVE  Line(Append(q, e), t)
<1> DEFINE long == Append(q, e)
<1>1. /\ Len(long) = Len(q) + 1 /\ Len(q) \in Nat /\ long[Len(q) + 1] = e
      /\ \A i \in 1..Len(q) : long[i] = q[i]
  BY AppendElements
<1> HIDE DEF long
<1> SUFFICES ASSUME NEW i \in 1..Len(long) PROVE Fits(long[i], First(long, i - 1), t)
  BY DEF Line, long
<1>2. First(long, i - 1) = First(q, i - 1)
  <2>1. \A k \in 1..(i - 1) : k \in 1..Len(q)
    BY <1>1
  <2> QED BY <1>1, <2>1 DEF First
<1>3. CASE i \in 1..Len(q)
  BY <1>1, <1>2, <1>3 DEF Line
<1>4. CASE i = Len(q) + 1
  <2>1. i - 1 = Len(q) /\ First(q, Len(q)) = Elements(q)
    BY <1>1, <1>4, FirstMeans
  <2> QED BY <1>1, <1>2, <1>4, <2>1
<1> QED
  BY <1>1, <1>3, <1>4

LEMMA OnceTail ==
  ASSUME NEW T, NEW q \in Seq(T), q # <<>>, NEW S, Once(q, S)
  PROVE  /\ Once(Tail(q), S)
         /\ Head(q) \in S => \A m \in Elements(Tail(q)) : m \notin S
<1> DEFINE rest == Tail(q)
<1>1. /\ Len(rest) = Len(q) - 1 /\ Len(q) \in Nat \ {0} /\ Head(q) = q[1]
      /\ \A k \in 1..Len(rest) : rest[k] = q[k + 1]
  BY TailElements
<1> HIDE DEF rest
<1>2. \A k \in 1..Len(rest) : k + 1 \in 1..Len(q) /\ k + 1 # 1
  BY <1>1
<1>3. Once(rest, S)
  <2> SUFFICES ASSUME NEW i \in 1..Len(rest), NEW j \in 1..Len(rest), rest[i] \in S, rest[j] \in S
               PROVE  i = j
    BY DEF Once
  <2>1. i + 1 = j + 1
    BY <1>1, <1>2 DEF Once
  <2> QED BY <2>1
<1>4. ASSUME Head(q) \in S, NEW m \in Elements(rest) PROVE m \notin S
  <2>1. PICK k \in 1..Len(rest) : m = rest[k]
    BY DEF Elements
  <2>2. 1 \in 1..Len(q)
    BY <1>1
  <2> QED BY <1>1, <1>2, <1>4, <2>1, <2>2 DEF Once
<1> QED
  BY <1>3, <1>4 DEF rest

LEMMA OnceAppend ==
  ASSUME NEW T, NEW q \in Seq(T), NEW e \in T, NEW S, Once(q, S),
         e \notin S \/ \A m \in Elements(q) : m \notin S
  PROVE  Once(Append(q, e), S)
<1> DEFINE long == Append(q, e)
<1>1. /\ Len(long) = Len(q) + 1 /\ Len(q) \in Nat /\ long[Len(q) + 1] = e
      /\ \A i \in 1..Len(q) : long[i] = q[i]
  BY AppendElements
<1> HIDE DEF long
<1> SUFFICES ASSUME NEW i \in 1..Len(long), NEW j \in 1..Len(long), long[i] \in S, long[j] \in S
             PROVE  i = j
  BY DEF Once, long
<1>2. /\ i \in 1..Len(q) \/ i = Len(q) + 1
      /\ j \in 1..Len(q) \/ j = Len(q) + 1
  BY <1>1
<1>3. \A k \in 1..Len(q) : q[k] \in Elements(q)
  BY DEF Elements
<1> QED
  BY <1>1, <1>2, <1>3 DEF Once

LEMMA HeadAndTail ==
  ASSUME NEW S, NEW q \in Seq(S), q # <<>>
  PROVE  Elements(q) = {Head(q)} \cup Elements(Tail(q))
<1> DEFINE rest == Tail(q)
<1>1. /\ Len(rest) = Len(q) - 1 /\ Len(q) \in Nat \ {0} /\ Head(q) = q[1]
      /\ \A k \in 1..Len(rest) : rest[k] = q[k + 1]
      /\ Head(q) \in Elements(q) /\ Elements(rest) \subseteq Elements(q)
  BY TailElements
<1> HIDE DEF rest
<1>2. ASSUME NEW k \in 1..Len(q), k # 1 PROVE q[k] \in Elements(rest)
  <2>1. k - 1 \in 1..Len(rest) /\ (k - 1) + 1 = k
    BY <1>1, <1>2
  <2> QED BY <1>1, <2>1 DEF Elements
<1>3. Elements(q) \subseteq {Head(q)} \cup Elements(rest)
  BY <1>1, <1>2 DEF Elements
<1> QED
  BY <1>1, <1>3 DEF rest

-----------------------------------------------------------------------------
(* The line of the answer.                                                 *)

LEMMA PlaceIs ==
  /\ \A m \in Downlink : Place(m) \in Nat
  /\ \A t \in TrStates : Expected(t) \in Nat
  /\ \A s \in SvStates : Made(s) \in Nat
<1>1. \A m \in Downlink : m.seq \in Nat
  BY TransportAssumption DEF Downlink, TransportAssumption
<1> QED
  BY <1>1, TransportAssumption DEF Place, Expected, Made, TrStates, SvStates, TransportAssumption

\* The transport u knows of the answer what t knows.
Alike(t, u) ==
  /\ u.turn = t.turn /\ u.response = t.response /\ u.downlink = t.downlink
  /\ (u.audio_started <=> t.audio_started) /\ (u.audio_ended <=> t.audio_ended)
  /\ (u.discard <=> t.discard) /\ (t.committed => u.committed)

LEMMA AlikeFits ==
  ASSUME NEW t, NEW u, Alike(t, u), NEW B
  PROVE  /\ \A m : Fits(m, B, t) => Fits(m, B, u)
         /\ \A s : Ready(s, B, t) => Ready(s, B, u)
<1>1. /\ OverBy(B, t) <=> OverBy(B, u)
      /\ \A p : Ahead(p, B, t) <=> Ahead(p, B, u)
  BY DEF Alike, OverBy, Ahead, Speech, Expected
<1>2. /\ Begun(B, t) <=> Begun(B, u)
      /\ Silent(B, t) <=> Silent(B, u)
      /\ Sounding(B, t) <=> Sounding(B, u)
      /\ Sounded(B, t) <=> Sounded(B, u)
  BY DEF Alike, Begun, Silent, Sounding, Sounded, Speech
<1> QED
  BY <1>1, <1>2 DEF Alike, Fits, Ready

\* What is not about the answer does not matter.
Beside(x, t) == x.id # t.turn \/ x.type \notin Spoken \cup {"done", "error"}

LEMMA BesideFits ==
  ASSUME NEW t, NEW x, Beside(x, t), NEW B
  PROVE  /\ \A m : Fits(m, {x} \cup B, t) <=> Fits(m, B, t)
         /\ \A s : Ready(s, {x} \cup B, t) <=> Ready(s, B, t)
<1>1. OverBy({x} \cup B, t) <=> OverBy(B, t)
  BY DEF Beside, OverBy
<1>2. ~Speech(x, t)
  BY DEF Beside, Speech
<1>3. \A p : Ahead(p, {x} \cup B, t) <=> Ahead(p, B, t)
  BY <1>2 DEF Ahead
<1>4. /\ Begun({x} \cup B, t) <=> Begun(B, t)
      /\ Silent({x} \cup B, t) <=> Silent(B, t)
      /\ Sounding({x} \cup B, t) <=> Sounding(B, t)
      /\ Sounded({x} \cup B, t) <=> Sounded(B, t)
  BY <1>2 DEF Begun, Silent, Sounding, Sounded
<1> QED
  BY <1>1, <1>3, <1>4 DEF Fits, Ready

\* An error of the turn ends it, whatever else is in the line.
LEMMA ErrorFits ==
  ASSUME NEW t, NEW x, x.type \notin Spoken \cup {"done"}, NEW B
  PROVE  /\ \A m : Fits(m, B, t) => Fits(m, {x} \cup B, t)
         /\ \A s : Ready(s, B, t) => Ready(s, {x} \cup B, t)
         /\ Fits(x, B, t)
<1>1. Beside(x, t) \/ OverBy({x} \cup B, t)
  BY DEF Beside, OverBy
<1>2. Fits(x, B, t)
  BY DEF Fits, Spoken
<1>3. CASE Beside(x, t)
  BY <1>2, <1>3, BesideFits
<1>4. CASE OverBy({x} \cup B, t)
  BY <1>2, <1>4 DEF Fits, Ready
<1> QED
  BY <1>1, <1>3, <1>4

LEMMA AheadStep ==
  ASSUME NEW t \in TrStates, NEW u \in TrStates, u.turn = t.turn, Expected(u) = Expected(t) + 1,
         NEW h \in Downlink, Speech(h, t), Place(h) = Expected(t),
         NEW p \in Nat, NEW B \in SUBSET Downlink, Ahead(p, {h} \cup B, t)
  PROVE  Ahead(p, B, u)
<1>1. Expected(t) \in Nat /\ Place(h) < p
  BY PlaceIs DEF Ahead
<1>2. Expected(u) <= p
  BY <1>1
<1>3. \A b : Speech(b, u) <=> Speech(b, t)
  BY DEF Speech
<1>4. p = Expected(u) \/ \E b \in B : Speech(b, t) /\ Place(b) + 1 = p
  BY <1>1 DEF Ahead
<1> QED
  BY <1>2, <1>3, <1>4 DEF Ahead

\* What the transport u makes of t once the next message h of its answer has
\* been delivered.
Takes(t, h, u) ==
  /\ u.turn = t.turn /\ (t.committed => u.committed)
  /\ Begun({h}, t) => u.response # 0
  /\ IF u.discard THEN h.type = "pcm"
     ELSE /\ Expected(u) = Expected(t) + 1
          /\ Silent({h}, t) => ~u.audio_started
          /\ Sounding({h}, t) => ~u.audio_ended
          /\ Sounded({h}, t) => u.audio_ended

LEMMA Passing ==
  ASSUME NEW t \in TrStates, NEW u \in TrStates, NEW h \in Downlink, Speech(h, t),
         ~t.discard, Place(h) = Expected(t), Takes(t, h, u), NEW B \in SUBSET Downlink
  PROVE  /\ \A m \in Downlink : Fits(m, {h} \cup B, t) => Fits(m, B, u)
         /\ \A s \in SvStates : Ready(s, {h} \cup B, t) => Ready(s, B, u)
<1> DEFINE A == {h} \cup B
<1>1. OverBy(A, t) => OverBy(B, u)
  BY DEF OverBy, Speech, Spoken, Takes
<1>2. /\ Begun(A, t) => Begun(B, u)
      /\ ~u.discard /\ Silent(A, t) => Silent(B, u)
      /\ ~u.discard /\ Sounding(A, t) => Sounding(B, u)
      /\ Sounded(A, t) => u.discard \/ Sounded(B, u)
  <2>1. \A b : Speech(b, u) <=> Speech(b, t)
    BY DEF Speech, Takes
  <2>2. /\ Begun(A, t) => Begun({h}, t) \/ Begun(B, t)
        /\ Silent(A, t) => Silent({h}, t)
        /\ Sounding(A, t) => Sounding({h}, t)
        /\ Sounded(A, t) => Sounded({h}, t) \/ Sounded(B, t)
    BY DEF Begun, Silent, Sounding, Sounded
  <2>3. t.response # 0 => u.response # 0
    BY DEF Takes, Begun
  <2>4. ~u.discard /\ t.audio_ended => u.audio_ended
    BY DEF Takes, Sounded
  <2>5. Begun(A, t) => Begun(B, u)
    BY <2>1, <2>2, <2>3 DEF Takes, Begun
  <2>6. ~u.discard /\ Silent(A, t) => Silent(B, u)
    BY <2>1, <2>2 DEF Takes, Silent
  <2>7. ~u.discard /\ Sounding(A, t) => Sounding(B, u)
    BY <2>1, <2>2 DEF Takes, Sounding
  <2>8. Sounded(A, t) => u.discard \/ Sounded(B, u)
    BY <2>1, <2>2, <2>4 DEF Takes, Sounded
  <2> QED BY <2>5, <2>6, <2>7, <2>8
<1>3. \A p \in Nat : ~u.discard /\ Ahead(p, A, t) => Ahead(p, B, u)
  BY AheadStep DEF Takes
<1>4. u.discard => ~Ahead(0, A, t)
  <2>1. u.discard => Place(h) >= 2
    BY TransportAssumption DEF Takes, Place, Downlink, TransportAssumption
  <2> QED BY <2>1, PlaceIs DEF Ahead
<1> HIDE DEF A
<1>5. ASSUME NEW m \in Downlink, Fits(m, A, t) PROVE Fits(m, B, u)
  <2>1. Place(m) \in Nat /\ (m.type = "response.start" => Place(m) = 0 /\ m.type \in Spoken)
    BY PlaceIs DEF Place, Spoken
  <2> QED BY <1>1, <1>2, <1>3, <1>4, <1>5, <2>1 DEF Fits, Takes
<1>6. ASSUME NEW s \in SvStates, Ready(s, A, t) PROVE Ready(s, B, u)
  <2>1. Made(s) \in Nat /\ (s.answer = "none" => Made(s) = 0)
    BY PlaceIs DEF Made
  <2> QED BY <1>1, <1>2, <1>3, <1>4, <1>6, <2>1 DEF Ready, Takes
<1> QED
  BY <1>5, <1>6 DEF A

\* The transport drops what is left of an answer with a gap.
LEMMA Dropping ==
  ASSUME NEW t, NEW h, Speech(h, t), t.discard, t.response # 0, NEW B
  PROVE  /\ \A m : Fits(m, {h} \cup B, t) => Fits(m, B, t)
         /\ \A s : Ready(s, {h} \cup B, t) => Ready(s, B, t)
<1>1. OverBy({h} \cup B, t) => OverBy(B, t)
  BY DEF OverBy, Speech, Spoken
<1>2. Begun(B, t)
  BY DEF Begun
<1> QED
  BY <1>1, <1>2 DEF Fits, Ready

-----------------------------------------------------------------------------
(* The transport takes the first message of the line.                      *)

LEMMA NextMessage ==
  ASSUME tr \in TrStates, TurnOf(tr), Answered(tr), NEW m \in Downlink, m.id = tr.turn,
         m.id # 0, Fits(m, {}, tr)
  PROVE  /\ m.type = "response.start" => ~tr.discard /\ tr.committed /\ tr.response = 0
         /\ m.type \in {"audio_start", "pcm", "done"} => tr.response = m.id
         /\ m.type \in Spoken /\ ~tr.discard => Place(m) = Expected(tr)
         /\ m.type = "audio_start" /\ ~tr.discard => ~tr.audio_started
         /\ m.type = "pcm" /\ ~tr.discard =>
              tr.audio_started /\ ~tr.audio_ended /\ m.seq = tr.downlink
         /\ m.type = "done" => tr.discard \/ ~tr.audio_started \/ tr.audio_ended
<1>1. ~OverBy({}, tr)
  BY DEF OverBy
<1>2. m.type \in Spoken /\ ~tr.discard => Place(m) = Expected(tr)
  BY <1>1 DEF Fits, Ahead
<1>3. tr.discard => tr.response = m.id
  BY DEF Answered, TurnOf
<1>4. CASE m.type = "response.start"
  <2>1. ~tr.discard /\ tr.committed /\ Expected(tr) = 0
    BY <1>1, <1>2, <1>4 DEF Fits, Place, Spoken
  <2>2. tr.response = 0
    BY <2>1, TransportAssumption DEF Expected, TrStates, TransportAssumption
  <2> QED BY <1>2, <1>4, <2>1, <2>2
<1>5. CASE m.type = "audio_start"
  <2>1. ~tr.discard => Expected(tr) = 1
    BY <1>2, <1>5 DEF Place, Spoken
  <2>2. ~tr.discard => tr.response # 0 /\ ~tr.audio_started
    BY <2>1, TransportAssumption DEF Expected, TrStates, TransportAssumption
  <2> QED BY <1>2, <1>3, <1>5, <2>2 DEF TurnOf
<1>6. CASE m.type = "pcm"
  <2>1. ~tr.discard => Expected(tr) = 2 + m.seq /\ m.seq \in Nat /\ tr.downlink \in Nat
    BY <1>2, <1>6, TransportAssumption DEF Place, Spoken, Downlink, TrStates, TransportAssumption
  <2>2. ~tr.discard => tr.response # 0 /\ tr.audio_started /\ m.seq = tr.downlink
    BY <2>1 DEF Expected
  <2>3. ~tr.discard => ~tr.audio_ended
    BY <1>1, <1>6 DEF Fits, Sounding
  <2> QED BY <1>2, <1>3, <1>6, <2>2, <2>3 DEF TurnOf
<1>7. CASE m.type = "done"
  <2>1. Begun({}, tr) /\ (tr.discard \/ Silent({}, tr) \/ Sounded({}, tr))
    BY <1>1, <1>7 DEF Fits
  <2> QED BY <1>2, <1>7, <2>1 DEF Begun, Silent, Sounded, TurnOf, Spoken
<1> QED
  BY <1>4, <1>5, <1>6, <1>7 DEF Spoken

\* What is about no turn, or about one that is over, is dropped.
LEMMA StaleIsDropped ==
  ASSUME tr \in TrStates, TurnOf(tr), NEW m \in Downlink,
         m.type \in Spoken \cup {"done", "error"}, m.id < tr.turn \/ (m.id = tr.turn /\ ~tr.active),
         m.type # "error" => m.id # 0,
         m.id = tr.turn => m.id = tr.response \/ m.id = 0
  PROVE  OnMessage(m).do # "bad" /\ OnMessage(m).tr = tr
<1>1. m.id \in Nat /\ tr.turn \in Nat
  BY TransportAssumption DEF Downlink, TrStates, Epochs, TransportAssumption
<1>2. IsStale(m) \/ (m.type = "error" /\ m.id = 0)
  BY <1>1 DEF IsStale, EpochOf
<1>3. \/ m.type = "response.start" /\ OnMessage(m) = OnResponseStart(m)
      \/ m.type = "audio_start" /\ OnMessage(m) = OnAudioStart(m)
      \/ m.type = "pcm" /\ OnMessage(m) = OnBinary(m)
      \/ m.type = "done" /\ OnMessage(m) = OnDone(m)
      \/ m.type = "error" /\ OnMessage(m) = OnError(m)
  BY DEF OnMessage, Spoken
<1>4. OnMessage(m) = Drop \/ OnMessage(m) = Emit(tr, m)
  BY <1>2, <1>3 DEF OnResponseStart, OnAudioStart, OnBinary, OnDone, OnError
<1> QED
  BY <1>4 DEF Drop, Emit

\* The next message of an answer that was not cut is taken.
LEMMA AnswerIsTaken ==
  ASSUME tr \in TrStates, TurnOf(tr), Answered(tr), ~tr.cancel_sent, tr.active,
         NEW m \in Downlink, m.type \in Spoken \cup {"done"}, m.id = tr.turn, m.id # 0,
         m.type = "pcm" => (m.seq = 0 <=> "START" \in m.flags), Fits(m, {}, tr)
  PROVE  /\ OnMessage(m).do # "bad"
         /\ m.type = "done" => ~OnMessage(m).tr.active
         /\ m.type \in Spoken /\ tr.discard => OnMessage(m).tr = tr
         /\ m.type \in Spoken /\ ~tr.discard => Takes(tr, m, OnMessage(m).tr)
<1>1. /\ m.type = "response.start" => ~tr.discard /\ tr.committed /\ tr.response = 0
      /\ m.type \in {"audio_start", "pcm", "done"} => tr.response = m.id
      /\ m.type = "audio_start" /\ ~tr.discard => ~tr.audio_started
      /\ m.type = "pcm" /\ ~tr.discard =>
           tr.audio_started /\ ~tr.audio_ended /\ m.seq = tr.downlink
      /\ m.type = "done" => tr.discard \/ ~tr.audio_started \/ tr.audio_ended
  BY NextMessage
<1>2. ~IsStale(m)
  BY TransportAssumption DEF IsStale, EpochOf, TrStates, TransportAssumption
<1>3. tr.downlink \in Nat
  BY TransportAssumption DEF TrStates, TransportAssumption
<1>4. CASE m.type = "response.start"
  <2> DEFINE u == [tr EXCEPT !.response = m.id, !.discard = tr.cancel_sent]
  <2>1. OnMessage(m) = Emit(u, m)
    BY <1>1, <1>2, <1>4 DEF OnMessage, OnResponseStart
  <2>2. /\ u.turn = tr.turn /\ (u.committed <=> tr.committed) /\ u.response = m.id /\ ~u.discard
        /\ (u.audio_started <=> tr.audio_started) /\ (u.audio_ended <=> tr.audio_ended)
    BY DEF TrStates
  <2> HIDE DEF u
  <2>3. ~tr.audio_started /\ Expected(u) = Expected(tr) + 1
    BY <1>1, <1>4, <2>2 DEF Expected, TurnOf
  <2>4. Takes(tr, m, u)
    BY <1>4, <2>2, <2>3 DEF Takes, Silent, Sounding, Sounded
  <2> QED BY <1>1, <1>4, <2>1, <2>4 DEF Emit
<1>5. CASE m.type = "audio_start" /\ ~tr.discard
  <2> DEFINE u == [tr EXCEPT !.audio_started = TRUE]
  <2>1. OnMessage(m) = Emit(u, m)
    BY <1>1, <1>2, <1>5 DEF OnMessage, OnAudioStart, InResponse, Discarding
  <2>2. /\ u.turn = tr.turn /\ (u.committed <=> tr.committed) /\ u.response = tr.response
        /\ ~u.discard /\ u.audio_started /\ (u.audio_ended <=> tr.audio_ended)
        /\ u.downlink = tr.downlink
    BY <1>5 DEF TrStates
  <2> HIDE DEF u
  <2>3. Expected(u) = Expected(tr) + 1
    BY <1>1, <1>5, <2>2 DEF Expected, Answered
  <2>4. ~Silent({m}, tr)
    BY <1>5 DEF Silent, Speech, Spoken
  <2>5. Takes(tr, m, u)
    BY <1>1, <1>5, <2>2, <2>3, <2>4 DEF Takes, Sounding, Sounded
  <2> QED BY <1>5, <2>1, <2>5 DEF Emit
<1>6. CASE m.type = "pcm" /\ ~tr.discard
  <2> DEFINE t == [tr EXCEPT !.downlink = @ + 1, !.audio_ended = "END" \in m.flags]
             u == [tr EXCEPT !.discard = TRUE]
  <2>1. ~Discarding(m)
    BY <1>6 DEF Discarding
  <2>2. OnMessage(m) = IF "GAP" \in m.flags THEN Emit(u, Message("gap", m.id)) ELSE Emit(t, m)
    BY <1>1, <1>2, <1>6, <2>1 DEF OnMessage, OnBinary
  <2>3. /\ u.turn = tr.turn /\ (u.committed <=> tr.committed) /\ u.response = tr.response
        /\ u.discard
    BY DEF TrStates
  <2>4. /\ t.turn = tr.turn /\ (t.committed <=> tr.committed) /\ t.response = tr.response
        /\ ~t.discard /\ t.audio_started /\ (t.audio_ended <=> "END" \in m.flags)
        /\ t.downlink = tr.downlink + 1
    BY <1>1, <1>6 DEF TrStates
  <2> HIDE DEF t, u
  <2>5. Takes(tr, m, u)
    BY <1>1, <1>6, <2>3 DEF Takes
  <2>6. "GAP" \notin m.flags => Takes(tr, m, t)
    <3>1. Speech(m, tr) /\ Expected(t) = Expected(tr) + 1
      BY <1>1, <1>3, <1>6, <2>4 DEF Speech, Spoken, Expected
    <3>2. ~Silent({m}, tr)
      BY <1>1, <1>6 DEF Silent
    <3>3. Sounding({m}, tr) => "END" \notin m.flags
      BY <1>6, <3>1 DEF Sounding
    <3>4. Sounded({m}, tr) /\ "GAP" \notin m.flags => "END" \in m.flags
      BY <1>1, <1>6 DEF Sounded
    <3> QED BY <1>1, <1>6, <2>4, <3>1, <3>2, <3>3, <3>4 DEF Takes
  <2> QED BY <1>6, <2>2, <2>5, <2>6 DEF Emit
<1>7. CASE m.type \in {"audio_start", "pcm"} /\ tr.discard
  <2>1. Discarding(m) /\ InResponse(m)
    BY <1>1, <1>7 DEF Discarding, InResponse
  <2>2. OnMessage(m) = Drop
    BY <1>2, <1>7, <2>1 DEF OnMessage, OnAudioStart, OnBinary
  <2> QED BY <1>7, <2>2 DEF Drop
<1>8. CASE m.type = "done"
  <2> DEFINE u == [tr EXCEPT !.active = FALSE, !.response_done = TRUE,
                             !.discard = tr.cancel_sent /\ tr.discard]
  <2>1. OnMessage(m) = Emit(u, m)
    BY <1>1, <1>2, <1>8 DEF OnMessage, OnDone, InResponse, Discarding
  <2>2. ~u.active
    BY DEF TrStates
  <2> HIDE DEF u
  <2>3. OnMessage(m).tr = u /\ OnMessage(m).do = "emit"
    BY <2>1 DEF Emit
  <2> QED BY <1>8, <2>2, <2>3 DEF Spoken
<1> QED
  BY <1>4, <1>5, <1>6, <1>7, <1>8 DEF Spoken

\* The transport refuses a message of a turn that was cut only.
LEMMA OnlyCutIsBad ==
  ASSUME ClientInv, DownInv, tr.conn = "open", s2c # <<>>, OnMessage(Head(s2c)).do = "bad"
  PROVE  Head(s2c).id \in cut
<1> DEFINE m == Head(s2c)
<1>1. /\ m \in Downlink /\ m \in Elements(s2c) /\ tr \in TrStates /\ TurnOf(tr)
      /\ s2c \in Seq(Downlink) /\ 1 \in 1..Len(s2c) /\ m = s2c[1]
  <2>1. s2c \in Seq(Downlink) /\ Len(s2c) \in Nat \ {0} /\ m = s2c[1]
    BY TailElements DEF ClientInv, Typed
  <2>2. 1 \in 1..Len(s2c)
    BY <2>1
  <2> QED BY <2>1, <2>2, TailElements DEF ClientInv, Typed, Links
<1>2. /\ Greeted /\ Answered(tr) /\ (Runs => Line(s2c, tr)) /\ (tr.cancel_sent => tr.turn \in cut)
      /\ m.id <= tr.turn
      /\ m.type \in Spoken \cup {"done"} => m.id # 0
      /\ m.type = "pcm" => (m.seq = 0 <=> "START" \in m.flags)
      /\ m.type = "cancelled" => m.id \in cut
      /\ m.type = "hello.ack" => ~tr.session
  BY <1>1 DEF DownInv, Named, OnWay, InLine, Greeted
<1>3. Runs => Fits(m, {}, tr)
  <2>1. First(s2c, 1 - 1) = {}
    BY <1>1, FirstMeans
  <2> QED BY <1>1, <1>2, <2>1 DEF Line
<1>4. OnMessage(m).do = "bad"
  OBVIOUS
<1> HIDE DEF m
<1> SUFFICES ASSUME m.id \notin cut PROVE FALSE
  BY DEF m
<1>5. CASE m.type = "hello.ack"
  BY <1>2, <1>4, <1>5 DEF OnMessage, OnHelloAck, Emit
<1>6. CASE m.type \in Spoken \cup {"done", "error"}
  <2>1. m.id \in Nat /\ tr.turn \in Nat
    BY <1>1, TransportAssumption DEF Downlink, TrStates, Epochs, TransportAssumption
  <2>2. CASE m.id < tr.turn \/ ~tr.active
    <3>1. m.id = tr.turn => m.id = tr.response
      BY <1>2, <2>1, <2>2 DEF Answered
    <3> QED BY <1>1, <1>2, <1>4, <1>6, <2>1, <2>2, <3>1, StaleIsDropped
  <2>3. CASE m.id = tr.turn /\ tr.active
    <3>1. Runs /\ tr.turn # 0 /\ ~tr.cancel_sent
      BY <1>1, <1>2, <2>3 DEF Runs, TurnOf
    <3>2. CASE m.type = "error"
      BY <1>4, <2>3, <3>1, <3>2 DEF OnMessage, OnError, Drop, Emit
    <3>3. CASE m.type \in Spoken \cup {"done"}
      BY <1>1, <1>2, <1>3, <1>4, <2>3, <3>1, <3>3, AnswerIsTaken
    <3> QED BY <1>6, <3>2, <3>3
  <2> QED BY <1>2, <2>1, <2>2, <2>3
<1>7. CASE m.type = "cancelled"
  BY <1>2, <1>7
<1> QED
  BY <1>1, <1>5, <1>6, <1>7 DEF Downlink, Spoken

\* What a message that is taken does to what the transport knows.
LEMMA TakenMeans ==
  ASSUME ClientInv, DownInv, tr.conn = "open", s2c # <<>>, NEW m, m = Head(s2c),
         NEW u, u = OnMessage(m).tr, OnMessage(m).do # "bad"
  PROVE  /\ Alike(tr, u) \/ (m.id = tr.turn /\ m.id # 0)
         /\ u.session <=> tr.session \/ m.type = "hello.ack"
         /\ u.discard => u.response # 0
         /\ ~u.audio_started => u.downlink = 0 /\ ~u.audio_ended
         /\ tr.turn \notin cut =>
              \/ u.active <=> tr.active
              \/ /\ m.type = "error" /\ m.id = tr.turn /\ ~u.active
                 /\ OnMessage(m).do = "emit" /\ OnMessage(m).event = m
              \/ m.type = "done" /\ ~u.active /\ u.response = u.turn
         /\ tr.turn \notin cut /\ ~tr.active => u.response = tr.response
         /\ u.turn = tr.turn /\ (u.committed <=> tr.committed)
<1>1. /\ m \in Downlink /\ m \in Elements(s2c) /\ tr \in TrStates /\ TurnOf(tr)
      /\ m.id \in Nat /\ tr.turn \in Nat
  BY TailElements, TransportAssumption
     DEF ClientInv, Typed, Links, Downlink, TrStates, Epochs, TransportAssumption
<1>2. /\ Answered(tr) /\ (tr.cancel_sent => tr.turn \in cut) /\ m.id <= tr.turn
      /\ m.type \in Spoken \cup {"done"} => m.id # 0
      /\ m.type = "cancelled" => m.id \in cut
  BY <1>1 DEF DownInv, Named, OnWay
<1>3. /\ Alike(tr, tr) /\ Drop.tr = tr /\ Bad.do = "bad" /\ tr.session \in BOOLEAN
      /\ \A t, e : Emit(t, e).tr = t
  BY <1>1 DEF Alike, Drop, Bad, Emit, TrStates
<1>4. CASE u = tr /\ m.type # "hello.ack"
  BY <1>2, <1>3, <1>4 DEF Answered
<1>5. CASE m.type = "hello.ack"
  <2> DEFINE t == [tr EXCEPT !.session = TRUE]
  <2>1. u = t
    BY <1>5 DEF OnMessage, OnHelloAck, Bad, Drop, Emit
  <2>2. /\ Alike(tr, t) /\ t.session /\ (t.active <=> tr.active) /\ t.turn = tr.turn
        /\ (t.committed <=> tr.committed) /\ t.response = tr.response
        /\ (t.discard <=> tr.discard) /\ (t.audio_started <=> tr.audio_started)
        /\ (t.audio_ended <=> tr.audio_ended) /\ t.downlink = tr.downlink
    BY <1>1 DEF TrStates, Alike
  <2> HIDE DEF t
  <2> QED BY <1>2, <1>5, <2>1, <2>2 DEF Answered
<1>6. CASE m.type = "cancelled"
  <2> DEFINE t == [tr EXCEPT !.active = FALSE, !.response_done = FALSE,
                             !.cancel_sent = FALSE, !.discard = FALSE]
  <2>1. u = t /\ m.id = tr.turn
    BY <1>6 DEF OnMessage, OnCancelled, Bad, Drop, Emit
  <2>2. m.id \in cut /\ m.id # 0
    BY <1>2, <1>6 DEF ClientInv, Typed, Epochs
  <2>3. /\ ~t.discard /\ t.turn = tr.turn /\ (t.session <=> tr.session)
        /\ (t.committed <=> tr.committed) /\ (t.audio_started <=> tr.audio_started)
        /\ (t.audio_ended <=> tr.audio_ended) /\ t.downlink = tr.downlink
    BY <1>1 DEF TrStates
  <2> HIDE DEF t
  <2> QED BY <1>2, <1>6, <2>1, <2>2, <2>3 DEF Answered
<1>7. CASE m.type = "error" /\ u # tr
  <2> DEFINE t == [tr EXCEPT !.active = FALSE]
  <2>1. OnMessage(m) = Emit(t, m) /\ m.id # 0 /\ m.id = tr.turn
    <3>1. OnMessage(m) = OnError(m)
      BY <1>7 DEF OnMessage
    <3> QED BY <1>3, <1>7, <3>1 DEF OnError
  <2>2. /\ ~t.active /\ t.turn = tr.turn /\ (t.session <=> tr.session)
        /\ t.response = tr.response /\ (t.discard <=> tr.discard)
        /\ (t.committed <=> tr.committed) /\ (t.audio_started <=> tr.audio_started)
        /\ (t.audio_ended <=> tr.audio_ended) /\ t.downlink = tr.downlink
    BY <1>1 DEF TrStates
  <2> HIDE DEF t
  <2>3. u = t /\ OnMessage(m).do = "emit" /\ OnMessage(m).event = m
    BY <2>1 DEF Emit
  <2> QED BY <1>2, <1>7, <2>1, <2>2, <2>3 DEF Answered
<1>8. CASE m.type = "response.start" /\ u # tr
  <2> DEFINE t == [tr EXCEPT !.response = m.id, !.discard = tr.cancel_sent]
  <2>1. u = t /\ m.id = tr.turn /\ tr.active
    <3>1. OnMessage(m) = OnResponseStart(m)
      BY <1>8 DEF OnMessage
    <3> QED BY <1>8, <3>1 DEF OnResponseStart, Bad, Drop, Emit, Keep
  <2>2. /\ t.turn = tr.turn /\ (t.session <=> tr.session) /\ t.response = m.id
        /\ (t.active <=> tr.active)
        /\ (t.committed <=> tr.committed) /\ (t.audio_started <=> tr.audio_started)
        /\ (t.audio_ended <=> tr.audio_ended) /\ t.downlink = tr.downlink
    BY <1>1 DEF TrStates
  <2> HIDE DEF t
  <2>3. m.id # 0
    BY <1>2, <1>8 DEF Spoken
  <2> QED BY <1>2, <1>8, <2>1, <2>2, <2>3 DEF Answered
<1>9. CASE m.type = "audio_start" /\ u # tr
  <2> DEFINE t == [tr EXCEPT !.audio_started = TRUE]
  <2>1. u = t /\ m.id = tr.turn /\ m.id # 0
    <3>1. OnMessage(m) = OnAudioStart(m)
      BY <1>9 DEF OnMessage
    <3>2. u = t /\ InResponse(m)
      BY <1>3, <1>9, <3>1 DEF OnAudioStart
    <3> QED BY <1>1, <3>2 DEF InResponse, TurnOf
  <2>2. /\ t.turn = tr.turn /\ (t.session <=> tr.session) /\ t.response = tr.response
        /\ (t.active <=> tr.active) /\ (t.discard <=> tr.discard)
        /\ (t.committed <=> tr.committed) /\ t.audio_started
    BY <1>1 DEF TrStates
  <2> HIDE DEF t
  <2> QED BY <1>2, <1>9, <2>1, <2>2 DEF Answered
<1>10. CASE m.type = "done" /\ u # tr
  <2> DEFINE t == [tr EXCEPT !.active = FALSE, !.response_done = TRUE,
                             !.discard = tr.cancel_sent /\ tr.discard]
  <2>1. u = t /\ m.id = tr.turn /\ m.id # 0 /\ tr.response = tr.turn
    <3>1. OnMessage(m) = OnDone(m)
      BY <1>10 DEF OnMessage
    <3>2. u = t /\ InResponse(m)
      BY <1>10, <3>1 DEF OnDone, Bad, Drop, Emit
    <3> QED BY <1>1, <3>2 DEF InResponse, TurnOf
  <2>2. /\ t.turn = tr.turn /\ (t.session <=> tr.session) /\ t.response = tr.response
        /\ ~t.active /\ (t.discard => tr.discard)
        /\ (t.committed <=> tr.committed) /\ (t.audio_started <=> tr.audio_started)
        /\ (t.audio_ended <=> tr.audio_ended) /\ t.downlink = tr.downlink
    BY <1>1 DEF TrStates
  <2> HIDE DEF t
  <2> QED BY <1>2, <1>10, <2>1, <2>2 DEF Answered
<1>11. CASE m.type = "pcm" /\ u # tr
  <2> DEFINE t == [tr EXCEPT !.downlink = @ + 1, !.audio_ended = "END" \in m.flags]
             v == [tr EXCEPT !.discard = TRUE]
  <2>1. /\ u = t \/ u = v
        /\ tr.audio_started /\ m.id = tr.turn /\ m.id # 0 /\ tr.response = m.id
    <3>1. OnMessage(m) = OnBinary(m)
      BY <1>11 DEF OnMessage
    <3>2. (u = t \/ u = v) /\ tr.audio_started /\ m.id = tr.response
      BY <1>3, <1>11, <3>1 DEF OnBinary
    <3> QED BY <1>1, <3>2 DEF TurnOf
  <2>2. /\ t.turn = tr.turn /\ (t.session <=> tr.session) /\ t.response = tr.response
        /\ (t.active <=> tr.active) /\ (t.committed <=> tr.committed) /\ t.audio_started
    BY <1>1, <2>1 DEF TrStates
  <2>3. /\ v.turn = tr.turn /\ (v.session <=> tr.session) /\ v.response = tr.response
        /\ (v.active <=> tr.active) /\ (v.committed <=> tr.committed) /\ v.audio_started
    BY <1>1, <2>1 DEF TrStates
  <2> HIDE DEF t, v
  <2>4. /\ u.turn = tr.turn /\ (u.session <=> tr.session) /\ u.response = tr.response
        /\ (u.active <=> tr.active) /\ (u.committed <=> tr.committed) /\ u.audio_started
    BY <2>1, <2>2, <2>3
  <2> QED BY <1>2, <1>11, <2>1, <2>4 DEF Answered
<1> QED
  BY <1>1, <1>4, <1>5, <1>6, <1>7, <1>8, <1>9, <1>10, <1>11 DEF Downlink

\* What fitted behind the first message of the line fits once it is taken.
LEMMA HeadPasses ==
  ASSUME ClientInv, DownInv, tr.conn = "open", s2c # <<>>, NEW m, m = Head(s2c),
         NEW u, u = OnMessage(m).tr, OnMessage(m).do # "bad", Followed(u),
         Runs, u.active, NEW B \in SUBSET Downlink
  PROVE  /\ \A n \in Downlink : Fits(n, {m} \cup B, tr) => Fits(n, B, u)
         /\ \A s \in SvStates : Ready(s, {m} \cup B, tr) => Ready(s, B, u)
<1>1. /\ m \in Downlink /\ m \in Elements(s2c) /\ tr \in TrStates /\ TurnOf(tr)
      /\ s2c \in Seq(Downlink) /\ 1 \in 1..Len(s2c) /\ m = s2c[1] /\ u \in TrStates
      /\ Plausible(m)
  <2>1. s2c \in Seq(Downlink) /\ Len(s2c) \in Nat \ {0} /\ m = s2c[1] /\ m \in Elements(s2c)
    BY TailElements DEF ClientInv, Typed
  <2>2. 1 \in 1..Len(s2c)
    BY <2>1
  <2> QED BY <2>1, <2>2, TailElements DEF ClientInv, Typed, Links, Followed, Incoming
<1>2. /\ Answered(tr) /\ Line(s2c, tr) /\ ~tr.cancel_sent /\ tr.turn # 0
      /\ m.type \in Spoken \cup {"done"} => m.id # 0
      /\ m.type = "pcm" => (m.seq = 0 <=> "START" \in m.flags)
      /\ m.type = "cancelled" => m.id \in cut
  BY <1>1 DEF DownInv, Named, OnWay, InLine, Runs, TurnOf
<1>3. Fits(m, {}, tr)
  <2>1. First(s2c, 1 - 1) = {}
    BY <1>1, FirstMeans
  <2> QED BY <1>1, <1>2, <2>1 DEF Line
<1>4. CASE m.id = tr.turn /\ m.type \in Spoken
  <2>1. /\ tr.discard => u = tr
        /\ ~tr.discard => Takes(tr, m, u)
    BY <1>1, <1>2, <1>3, <1>4, AnswerIsTaken DEF Runs
  <2>2. Speech(m, tr) /\ (~tr.discard => Place(m) = Expected(tr))
    BY <1>1, <1>2, <1>3, <1>4, NextMessage DEF Speech
  <2>3. CASE tr.discard
    <3>1. tr.response # 0 /\ u = tr
      BY <1>2, <2>1, <2>3 DEF Answered
    <3>2. /\ \A n : Fits(n, {m} \cup B, tr) => Fits(n, B, tr)
          /\ \A s : Ready(s, {m} \cup B, tr) => Ready(s, B, tr)
      BY <2>2, <2>3, <3>1, Dropping
    <3> QED BY <3>1, <3>2
  <2>4. CASE ~tr.discard
    BY <1>1, <2>1, <2>2, <2>4, Passing
  <2> QED BY <2>3, <2>4
<1>5. CASE m.id = tr.turn /\ m.type = "done"
  BY <1>1, <1>2, <1>3, <1>5, AnswerIsTaken DEF Runs
<1>6. CASE m.id = tr.turn /\ m.type = "error"
  <2>1. OnMessage(m) = OnError(m)
    BY <1>6 DEF OnMessage
  <2>2. ~IsStale(m) /\ m.id # 0
    BY <1>1, <1>2, <1>6, TransportAssumption
       DEF IsStale, EpochOf, Runs, TrStates, TransportAssumption
  <2> DEFINE t == [tr EXCEPT !.active = FALSE]
  <2>3. OnMessage(m).tr = t
    BY <1>6, <2>1, <2>2 DEF OnError, Bad, Drop, Emit
  <2>4. ~t.active
    BY <1>1 DEF TrStates
  <2> QED BY <2>3, <2>4
<1>7. CASE m.id # tr.turn \/ m.type \notin Spoken \cup {"done", "error"}
  <2>1. m.id # tr.turn
    BY <1>1, <1>2, <1>7 DEF Downlink, Spoken, Plausible, Runs
  <2>2. Alike(tr, u)
    BY <2>1, TakenMeans
  <2>3. Beside(m, tr)
    BY <1>7 DEF Beside
  <2> QED BY <2>2, <2>3, AlikeFits, BesideFits
<1> QED
  BY <1>4, <1>5, <1>6, <1>7

LEMMA NetworkDown ==
  ASSUME ClientInv, DownInv, Network
  PROVE  DownInv'
<1> SUFFICES ASSUME tr'.conn = "open"
             PROVE  Greeted' /\ Named' /\ Unheard' /\ Answered(tr)' /\ (Runs => InLine)'
  BY DEF DownInv
<1> DEFINE m == Head(s2c)
           u == OnMessage(m).tr
<1>1. /\ Deliver /\ tr.conn = "open" /\ s2c # <<>> /\ s2c' = Tail(s2c) /\ c2s' = c2s
      /\ UNCHANGED <<cl, sv>>
  <2>1. ~Failing
    BY DEF Failing, ClientInv, Typed, TrStates
  <2> QED BY <2>1 DEF Network, Deliver, ConnectionFails, client
<1>2. OnMessage(m).do # "bad" /\ tr' = u
  <2>1. ~Failing
    BY DEF Failing, ClientInv, Typed, TrStates
  <2> QED BY <1>1, <2>1 DEF Deliver
<1>3. cut' = IF OnMessage(m).do = "emit" /\ OnMessage(m).event.type = "error"
             THEN cut \cup ({OnMessage(m).event.id} \ {0}) ELSE cut
  BY <1>1 DEF Deliver
<1>4. /\ m \in Downlink /\ m \in Elements(s2c) /\ Plausible(m) /\ s2c \in Seq(Downlink)
      /\ Tail(s2c) \in Seq(Downlink) /\ Elements(Tail(s2c)) \subseteq Elements(s2c)
      /\ Elements(s2c) = {m} \cup Elements(Tail(s2c))
  BY <1>1, TailElements, HeadAndTail DEF ClientInv, Typed, Incoming
<1>5. Followed(u)
  BY <1>1, <1>2, <1>4, MessageMeans
<1>6. /\ Alike(tr, u) \/ (m.id = tr.turn /\ m.id # 0)
      /\ u.session <=> tr.session \/ m.type = "hello.ack"
      /\ u.discard => u.response # 0
      /\ ~u.audio_started => u.downlink = 0 /\ ~u.audio_ended
      /\ tr.turn \notin cut =>
           \/ u.active <=> tr.active
           \/ /\ m.type = "error" /\ m.id = tr.turn /\ ~u.active
              /\ OnMessage(m).do = "emit" /\ OnMessage(m).event = m
           \/ m.type = "done" /\ ~u.active /\ u.response = u.turn
      /\ tr.turn \notin cut /\ ~tr.active => u.response = tr.response
      /\ u.turn = tr.turn /\ (u.committed <=> tr.committed)
  BY <1>1, <1>2, <1>4, TakenMeans
<1>7. Greeted /\ Named /\ Unheard /\ Answered(tr) /\ (Runs => InLine)
  BY <1>1 DEF DownInv
<1> HIDE DEF m, u
<1>8. cut \subseteq cut'
  BY <1>3
<1>9. Greeted'
  <2>1. Once(s2c', Acks) /\ (m \in Acks => \A a \in Elements(s2c') : a \notin Acks)
    BY <1>1, <1>4, <1>7, OnceTail DEF Greeted, m
  <2>2. \A a \in Elements(s2c') : a \in Downlink
    BY <1>1, <1>4 DEF Elements
  <2>3. m.type = "hello.ack" => \A a \in Elements(s2c') : a.type # "hello.ack"
    BY <1>4, <2>1, <2>2 DEF Acks
  <2>4. /\ \A a \in Elements(s2c') : a \in Elements(s2c)
        /\ cl' = cl /\ c2s' = c2s
        /\ tr'.session <=> tr.session \/ m.type = "hello.ack"
    BY <1>1, <1>2, <1>4, <1>6
  <2>5. Elements(s2c)' = Elements(s2c') /\ Elements(c2s)' = Elements(c2s)
    BY <1>1 DEF Elements
  <2>6. \A a \in Elements(c2s) : a.type = "hello" =>
          ~tr'.session /\ cl'.hello_sent /\ \A b \in Elements(s2c') : b.type # "hello.ack"
    BY <1>4, <1>7, <2>4 DEF Greeted
  <2>7. \A a \in Elements(s2c') : a.type = "hello.ack" => ~tr'.session /\ cl'.hello_sent
    BY <1>7, <2>3, <2>4 DEF Greeted
  <2>8. tr'.session => cl'.hello_sent
    BY <1>4, <1>7, <2>4 DEF Greeted
  <2> QED BY <1>7, <2>1, <2>4, <2>5, <2>6, <2>7, <2>8 DEF Greeted, Once, Hellos, Acks
<1>10. Named'
  <2>1. OnWay' \subseteq OnWay
    BY <1>1, <1>4 DEF OnWay, Elements
  <2>2. Elements(c2s)' = Elements(c2s) /\ Elements(sv.sending)' = Elements(sv.sending)
    BY <1>1 DEF Elements
  <2>3. /\ tr'.turn = tr.turn /\ (tr'.committed <=> tr.committed) /\ sv' = sv
        /\ tr'.cancel_sent => tr.cancel_sent
    BY <1>1, <1>2, <1>5, <1>6 DEF Followed
  <2> QED BY <1>7, <1>8, <2>1, <2>2, <2>3 DEF Named
<1>11. Unheard'
  <2>1. Starts(tr') = Starts(tr)
    BY <1>2, <1>6 DEF Starts
  <2>2. OnWay' \subseteq OnWay /\ Elements(c2s)' = Elements(c2s) /\ sv' = sv /\ tr'.turn = tr.turn
    BY <1>1, <1>2, <1>4, <1>6 DEF OnWay, Elements
  <2>3. (\E a \in Elements(c2s) : a \in Starts(tr)) => tr'.response = 0
    <3>1. (\E a \in Elements(c2s) : a \in Starts(tr)) => m.id # tr.turn /\ tr.response = 0
      BY <1>4, <1>7 DEF Unheard, OnWay
    <3> QED BY <1>2, <1>6, <3>1 DEF Alike
  <2>4. Starts(tr)' = Starts(tr') /\ c2s' = c2s
    BY <1>1 DEF Starts
  <2> QED BY <1>7, <2>1, <2>2, <2>3, <2>4 DEF Unheard
<1>12. Answered(tr)'
  <2>1. tr'.turn \notin cut' /\ ~tr'.active => tr'.response = tr'.turn
    <3> SUFFICES ASSUME tr'.turn \notin cut', ~tr'.active PROVE tr'.response = tr'.turn
      OBVIOUS
    <3>1. tr.turn \notin cut /\ TurnOf(u)
      BY <1>2, <1>5, <1>6, <1>8 DEF Followed
    <3>2. CASE u.active <=> tr.active
      BY <1>2, <1>6, <1>7, <3>1, <3>2 DEF Answered
    <3>3. CASE m.type = "error" /\ m.id = tr.turn /\ OnMessage(m).do = "emit"
               /\ OnMessage(m).event = m
      <4>1. tr.turn = 0
        BY <1>2, <1>3, <1>6, <3>3
      <4> QED BY <1>2, <1>6, <3>1, <4>1 DEF TurnOf
    <3> QED BY <1>2, <1>6, <3>1, <3>2, <3>3
  <2> QED BY <1>2, <1>6, <2>1 DEF Answered
<1>13. ASSUME Runs' PROVE InLine'
  <2>1. Runs /\ u.active
    BY <1>2, <1>3, <1>6, <1>8, <1>13 DEF Runs
  <2>2. InLine
    BY <1>7, <2>1
  <2>3. \A B \in SUBSET Downlink :
          /\ \A n \in Downlink : Fits(n, {m} \cup B, tr) => Fits(n, B, u)
          /\ \A s \in SvStates : Ready(s, {m} \cup B, tr) => Ready(s, B, u)
    BY <1>1, <1>2, <1>5, <2>1, HeadPasses DEF m, u
  <2>4. Line(s2c', tr')
    BY <1>1, <1>2, <1>4, <2>2, <2>3, LineTail DEF InLine, m
  <2>5. /\ Elements(s2c') \in SUBSET Downlink /\ Elements(sv.sending) \in SUBSET Downlink
        /\ Elements(s2c) = {m} \cup Elements(s2c')
        /\ sv.sending # <<>> => sv.sending[1] \in Downlink
        /\ sv \in SvStates
    <3>1. sv \in SvStates
      BY DEF ClientInv, Typed
    <3>2. sv.sending = <<>> \/ \E n \in Downlink : sv.sending = <<n>>
      BY <3>1 DEF SvStates
    <3>3. /\ Elements(sv.sending) \in SUBSET Downlink
          /\ sv.sending # <<>> => sv.sending[1] \in Downlink
      BY <3>2 DEF Elements
    <3>4. Elements(s2c') \in SUBSET Downlink
      BY <1>1, <1>4 DEF Elements
    <3> QED BY <1>1, <1>4, <3>1, <3>3, <3>4
  <2>6. sv.sending # <<>> => Fits(sv.sending[1], Elements(s2c'), tr')
    BY <1>2, <2>2, <2>3, <2>5 DEF InLine
  <2>7. Ready(sv, Elements(s2c') \cup Elements(sv.sending), tr')
    <3> DEFINE B == Elements(s2c') \cup Elements(sv.sending)
    <3>1. OnWay = {m} \cup B /\ B \in SUBSET Downlink
      BY <2>5 DEF OnWay
    <3> HIDE DEF B
    <3>2. Ready(sv, B, tr')
      BY <1>2, <2>2, <2>3, <2>5, <3>1 DEF InLine
    <3> QED BY <3>2 DEF B
  <2>8. sv' = sv /\ Elements(s2c)' = Elements(s2c') /\ Elements(sv.sending)' = Elements(sv.sending)
    BY <1>1 DEF Elements
  <2> QED BY <2>4, <2>6, <2>7, <2>8 DEF InLine, OnWay
<1> QED
  BY <1>9, <1>10, <1>11, <1>12, <1>13

-----------------------------------------------------------------------------
(* The client sends.                                                       *)

\* Nothing that the line depends on changes.
LEMMA SameLine ==
  ASSUME DownInv, tr.conn = "open", s2c' = s2c, sv' = sv, Alike(tr, tr'), Runs' => Runs
  PROVE  (Runs => InLine)'
<1> SUFFICES ASSUME Runs' PROVE InLine'
  OBVIOUS
<1>1. InLine
  BY DEF DownInv
<1>2. Line(s2c, tr')
  BY <1>1, AlikeFits DEF InLine, Line
<1>3. /\ sv.sending # <<>> => Fits(sv.sending[1], Elements(s2c), tr')
      /\ Ready(sv, OnWay, tr')
  BY <1>1, AlikeFits DEF InLine
<1>4. Elements(s2c)' = Elements(s2c) /\ OnWay' = OnWay
  BY DEF Elements, OnWay
<1> QED
  BY <1>2, <1>3, <1>4 DEF InLine

LEMMA HelloDown ==
  ASSUME ClientInv, DownInv, tr.conn = "open", UNCHANGED <<s2c, tr, cut, sv>>,
         \/ c2s' = c2s /\ cl'.hello_sent = cl.hello_sent
         \/ c2s' = Append(c2s, Message("hello", 0)) /\ ~cl.hello_sent /\ cl'.hello_sent
  PROVE  DownInv'
<1> DEFINE m == Message("hello", 0)
<1>1. /\ c2s \in Seq(Uplink) /\ m \in Uplink /\ m.type = "hello" /\ m.id = 0 /\ tr.turn \in Nat
  BY TransportAssumption
     DEF ClientInv, Typed, Message, Uplink, TrStates, TransportAssumption
<1> HIDE DEF m
<1>2. Greeted /\ Named /\ Unheard /\ Answered(tr) /\ (Runs => InLine)
  BY DEF DownInv
<1>3. /\ OnWay' = OnWay /\ Elements(s2c)' = Elements(s2c) /\ Starts(tr)' = Starts(tr)
      /\ Elements(sv.sending)' = Elements(sv.sending) /\ Elements(c2s)' = Elements(c2s')
  BY DEF OnWay, Elements, Starts
<1>4. (Runs => InLine)' /\ Answered(tr)'
  BY <1>2, SameLine DEF Alike, Runs, Answered
<1>5. CASE c2s' = c2s /\ cl'.hello_sent = cl.hello_sent
  BY <1>2, <1>3, <1>4, <1>5 DEF DownInv, Greeted, Named, Unheard, Once, Hellos, Acks
<1>6. CASE c2s' = Append(c2s, m) /\ ~cl.hello_sent /\ cl'.hello_sent
  <2>1. Elements(c2s') = Elements(c2s) \cup {m}
    BY <1>1, <1>6, AppendElements
  <2>2. /\ ~tr.session /\ \A a \in Elements(c2s) : a.type # "hello"
        /\ \A a \in Elements(s2c) : a.type # "hello.ack"
    BY <1>2, <1>6 DEF Greeted
  <2>3. Once(c2s', Hellos)
    BY <1>1, <1>2, <1>6, <2>2, OnceAppend DEF Greeted, Hellos
  <2>4. Once(c2s', Starts(tr))
    BY <1>1, <1>2, <1>6, OnceAppend DEF Unheard, Starts
  <2>5. Greeted'
    BY <1>2, <1>3, <1>6, <2>1, <2>2, <2>3 DEF Greeted, Once, Hellos, Acks
  <2>6. Named'
    <3>1. \A a \in Elements(c2s') : a \in Elements(c2s) \/ (a.type = "hello" /\ a.id = 0)
      BY <1>1, <2>1
    <3>2. 0 <= tr.turn
      BY <1>1
    <3> QED BY <1>2, <1>3, <3>1, <3>2 DEF Named
  <2>7. Unheard'
    <3>1. \A a \in Elements(c2s') : a \in Starts(tr) => a \in Elements(c2s)
      BY <1>1, <2>1 DEF Starts
    <3> QED BY <1>2, <1>3, <2>4, <3>1 DEF Unheard, Once
  <2> QED BY <1>4, <2>5, <2>6, <2>7 DEF DownInv
<1> QED
  BY <1>5, <1>6 DEF m

LEMMA StartDown ==
  ASSUME ClientInv, DownInv, UNCHANGED <<s2c, cut, sv>>, cl'.hello_sent = cl.hello_sent,
         NEW id \in Epochs, MayTurnStart(id), SendTurnStart(id)
  PROVE  DownInv'
<1> DEFINE m == Message("turn.start", id)
<1>1. /\ c2s \in Seq(Uplink) /\ m \in Uplink /\ m.type = "turn.start" /\ m.id = id
      /\ tr.turn \in Nat /\ id \in Nat /\ sv.turn \in Nat /\ tr.turn < id /\ tr.conn = "open"
      /\ tr.session
  BY TransportAssumption DEF ClientInv, Typed, Message, Uplink, TrStates, SvStates, Epochs,
     MayTurnStart, TransportAssumption
<1>2. c2s' = Append(c2s, m)
  BY DEF SendTurnStart
<1>3. /\ tr'.turn = id /\ tr'.response = 0 /\ ~tr'.discard /\ ~tr'.audio_started
      /\ tr'.downlink = 0 /\ ~tr'.audio_ended /\ tr'.active /\ ~tr'.committed
      /\ ~tr'.cancel_sent /\ tr'.session
  BY DEF SendTurnStart, NoTransport
<1> HIDE DEF m
<1>4. Greeted /\ Named /\ Unheard
  BY <1>1 DEF DownInv
<1>5. /\ OnWay' = OnWay /\ Elements(s2c)' = Elements(s2c)
      /\ Elements(sv.sending)' = Elements(sv.sending) /\ Elements(c2s)' = Elements(c2s')
      /\ Elements(c2s') = Elements(c2s) \cup {m}
  BY <1>1, <1>2, AppendElements DEF OnWay, Elements
<1>6. /\ \A a \in OnWay : a.id \in Nat /\ a.id < id
      /\ \A a \in Elements(c2s) : a.id \in Nat /\ a.id < id
      /\ sv.turn < id
  <2>1. \A a \in Downlink \cup Uplink : a.id \in Nat
    BY DEF Downlink, Uplink, Epochs
  <2>2. OnWay \subseteq Downlink /\ Elements(c2s) \subseteq Uplink
    <3>1. sv.sending = <<>> \/ \E n \in Downlink : sv.sending = <<n>>
      BY DEF ClientInv, Typed, SvStates
    <3>2. Elements(sv.sending) \subseteq Downlink
      BY <3>1 DEF Elements
    <3>3. Elements(s2c) \subseteq Downlink /\ Elements(c2s) \subseteq Uplink
      BY DEF Elements, ClientInv, Typed
    <3> QED BY <3>2, <3>3 DEF OnWay
  <2>3. /\ \A a \in OnWay : a.id <= tr.turn
        /\ \A a \in Elements(c2s) : a.id <= tr.turn
        /\ sv.turn <= tr.turn
    BY <1>4 DEF Named
  <2>4. \A n \in Nat : n <= tr.turn => n < id
    BY <1>1
  <2> QED BY <1>1, <2>1, <2>2, <2>3, <2>4
<1>7. \A n \in Nat : n < id => n <= id /\ n # id
  BY <1>1
<1>8. Greeted'
  <2>1. Once(c2s', Hellos)
    BY <1>1, <1>2, <1>4, OnceAppend DEF Greeted, Hellos
  <2>2. \A a \in Elements(c2s') : a.type = "hello" => a \in Elements(c2s)
    BY <1>1, <1>5
  <2> QED BY <1>1, <1>3, <1>4, <1>5, <2>1, <2>2 DEF Greeted, Once, Hellos, Acks
<1>9. Named'
  <2>1. /\ \A a \in Elements(c2s') : a.id <= id
        /\ \A a \in OnWay : a.id <= id
        /\ sv.turn <= id
    BY <1>1, <1>5, <1>6, <1>7
  <2>2. /\ \A a \in Elements(c2s') : a.type = "cancel" => a \in Elements(c2s)
        /\ \A a \in Elements(c2s') : a.type = "turn.commit" => a.id # id
    BY <1>1, <1>5, <1>6, <1>7
  <2> QED BY <1>3, <1>4, <1>5, <2>1, <2>2 DEF Named
<1>10. Unheard'
  <2> DEFINE S == {a \in Uplink : a.type = "turn.start" /\ a.id = id}
  <2>1. \A a \in Elements(c2s) : a \notin S
    BY <1>6, <1>7
  <2>2. Once(c2s, S)
    BY <2>1 DEF Once, Elements
  <2>3. Starts(tr)' = S
    BY <1>3 DEF Starts
  <2> HIDE DEF S
  <2>4. Once(c2s', S)
    BY <1>1, <1>2, <2>1, <2>2, OnceAppend
  <2>5. sv.turn # id /\ \A a \in OnWay : a.id # id
    BY <1>1, <1>6, <1>7
  <2> QED BY <1>3, <1>5, <2>3, <2>4, <2>5 DEF Unheard, Once
<1>11. Answered(tr)'
  BY <1>3 DEF Answered
<1>12. InLine'
  <2>1. \A a \in OnWay : a.id # id
    BY <1>6, <1>7
  <2>2. sv.turn # id
    BY <1>1, <1>6, <1>7
  <2>3. \A a \in OnWay : \A B : Fits(a, B, tr')
    BY <1>3, <2>1 DEF Fits
  <2>4. Line(s2c, tr')
    BY <2>3 DEF Line, OnWay, Elements
  <2>5. sv.sending # <<>> => sv.sending[1] \in OnWay
    <3>1. sv.sending = <<>> \/ \E n \in Downlink : sv.sending = <<n>>
      BY DEF ClientInv, Typed, SvStates
    <3> QED BY <3>1 DEF OnWay, Elements
  <2>6. Ready(sv, OnWay, tr')
    BY <1>3, <2>2 DEF Ready
  <2> QED BY <1>5, <2>3, <2>4, <2>5, <2>6 DEF InLine
<1> QED
  BY <1>8, <1>9, <1>10, <1>11, <1>12 DEF DownInv

LEMMA UpDown ==
  ASSUME ClientInv, DownInv, s2c' = s2c, sv' = sv, cl'.hello_sent = cl.hello_sent,
         tr.conn = "open", tr' \in TrStates, SameAnswer(tr'),
         cut' = IF tr'.cancel_sent = tr.cancel_sent THEN cut ELSE cut \cup {tr.turn},
         NEW m \in Uplink, m.type \in {"pcm", "turn.commit", "cancel"}, m.id = tr.turn,
         c2s' = Append(c2s, m), m.type = "turn.commit" => tr'.committed,
         m.type = "cancel" => ~tr.cancel_sent /\ tr'.cancel_sent
  PROVE  DownInv'
<1>1. c2s \in Seq(Uplink) /\ tr \in TrStates /\ tr.turn \in Nat
  BY TransportAssumption DEF ClientInv, Typed, TrStates, TransportAssumption
<1>2. Greeted /\ Named /\ Unheard /\ Answered(tr) /\ (Runs => InLine)
  BY DEF DownInv
<1>3. /\ OnWay' = OnWay /\ Elements(s2c)' = Elements(s2c) /\ Starts(tr)' = Starts(tr)
      /\ Elements(sv.sending)' = Elements(sv.sending) /\ Elements(c2s)' = Elements(c2s')
      /\ Elements(c2s') = Elements(c2s) \cup {m}
  BY <1>1, AppendElements DEF OnWay, Elements, Starts, SameAnswer
<1>4. /\ Alike(tr, tr') /\ (tr'.active <=> tr.active) /\ (tr'.session <=> tr.session)
      /\ cut \subseteq cut' /\ tr'.turn = tr.turn
      /\ tr'.cancel_sent => tr.cancel_sent \/ tr.turn \in cut'
      /\ m.type = "cancel" => m.id \in cut'
  BY <1>1 DEF SameAnswer, Alike, TrStates
<1>5. (Runs => InLine)'
  BY <1>4, SameLine DEF Runs
<1>6. Answered(tr)'
  BY <1>2, <1>4 DEF Answered, Alike
<1>7. Greeted'
  <2>1. Once(c2s', Hellos)
    BY <1>1, <1>2, OnceAppend DEF Greeted, Hellos
  <2>2. \A a \in Elements(c2s') : a.type = "hello" => a \in Elements(c2s)
    BY <1>3
  <2> QED BY <1>2, <1>3, <1>4, <2>1, <2>2 DEF Greeted, Once, Hellos, Acks
<1>8. Named'
  <2>1. /\ \A a \in Elements(c2s') : a.id <= tr'.turn
        /\ \A a \in Elements(c2s') : a.type = "cancel" => a.id \in cut'
        /\ \A a \in Elements(c2s') : a.type = "turn.commit" /\ a.id = tr'.turn => tr'.committed
    BY <1>1, <1>2, <1>3, <1>4 DEF Named, Alike
  <2> QED BY <1>2, <1>3, <1>4, <2>1 DEF Named
<1>9. Unheard'
  <2>1. Once(c2s', Starts(tr))
    BY <1>1, <1>2, OnceAppend DEF Unheard, Starts
  <2>2. \A a \in Elements(c2s') : a \in Starts(tr) => a \in Elements(c2s)
    BY <1>3 DEF Starts
  <2> QED BY <1>2, <1>3, <1>4, <2>1, <2>2 DEF Unheard, Once, Alike
<1> QED
  BY <1>5, <1>6, <1>7, <1>8, <1>9 DEF DownInv

LEMMA SendsDown ==
  ASSUME ClientInv, ClientInv', DownInv, ClientSends, UNCHANGED <<sv, raced>>
  PROVE  DownInv'
<1> SUFFICES ASSUME tr'.conn = "open" PROVE DownInv'
  BY DEF DownInv
<1>0. ~(tr' = NoTransport \/ tr' = Opening)
  BY DEF NoTransport, Opening
<1>1. tr.conn = "open" /\ tr' \in TrStates
  BY <1>0 DEF ClientSends, MayTurnStart, SameAnswer, ClientInv, Typed
<1> QED
  BY <1>0, <1>1, HelloDown, StartDown, UpDown DEF ClientSends

-----------------------------------------------------------------------------
(* The server sends.                                                       *)

LEMMA OnWayIs ==
  ASSUME Typed
  PROVE  /\ sv.sending = <<>> \/ \E n \in Downlink : sv.sending = <<n>>
         /\ sv.sending = <<>> => Elements(sv.sending) = {}
         /\ sv.sending # <<>> => Elements(sv.sending) = {sv.sending[1]} /\ sv.sending[1] \in Downlink
         /\ Elements(s2c) \subseteq Downlink /\ OnWay \subseteq Downlink
         /\ Elements(c2s) \subseteq Uplink
<1>1. sv.sending = <<>> \/ \E n \in Downlink : sv.sending = <<n>>
  BY DEF Typed, SvStates
<1>2. Elements(s2c) \subseteq Downlink /\ Elements(c2s) \subseteq Uplink
  BY DEF Typed, Elements
<1>3. sv.sending = <<>> => Elements(sv.sending) = {}
  BY DEF Elements
<1>4. sv.sending # <<>> => Elements(sv.sending) = {sv.sending[1]} /\ sv.sending[1] \in Downlink
  BY <1>1 DEF Elements
<1> QED
  BY <1>1, <1>2, <1>3, <1>4 DEF OnWay

\* The server goes on with the answer it has, or gives it up.
LEMMA ReadyStays ==
  ASSUME NEW s, NEW t, NEW B, NEW u, Ready(s, B, t), u.turn = s.turn, u.active => s.active,
         u.active /\ ~u.finishing => ~s.finishing, u.answer = s.answer, u.audio = s.audio,
         u.committed => s.committed \/ (s.turn = t.turn => t.committed)
  PROVE  Ready(u, B, t)
<1>1. Made(u) = Made(s)
  BY DEF Made
<1> QED
  BY <1>1 DEF Ready

\* Any step of the server that answers no turn: it may take a message, and
\* may say that it has, that a turn is over, or that it takes no start.
LEMMA AsideDown ==
  ASSUME ClientInv, DownInv, tr.conn = "open", UNCHANGED <<tr, cut, cl>>,
         c2s' = c2s \/ (c2s # <<>> /\ c2s' = Tail(c2s)),
         sv'.turn = sv.turn, sv'.active => sv.active, sv'.sending = sv.sending,
         sv'.active /\ ~sv'.finishing => ~sv.finishing,
         sv'.answer = sv.answer, sv'.audio = sv.audio,
         sv'.committed => sv.committed \/ (sv.turn = tr.turn => tr.committed),
         \/ s2c' = s2c
         \/ \E x \in Downlink :
              /\ s2c' = Append(s2c, x)
              /\ x.type \in {"hello.ack", "cancelled", "error"}
              /\ x.type = "cancelled" => x.id \in cut
              /\ x.type = "hello.ack" =>
                   c2s # <<>> /\ c2s' = Tail(c2s) /\ Head(c2s).type = "hello"
              /\ \/ x.id = 0 \/ x.id = sv.turn
                 \/ /\ c2s # <<>> /\ c2s' = Tail(c2s)
                    /\ Head(c2s).type = "turn.start" /\ x.id = Head(c2s).id
  PROVE  DownInv'
<1>1. Greeted /\ Named /\ Unheard /\ Answered(tr) /\ (Runs => InLine)
  BY DEF DownInv
<1>2. /\ c2s \in Seq(Uplink) /\ s2c \in Seq(Downlink) /\ tr.turn \in Nat /\ Typed
  BY TransportAssumption DEF ClientInv, Typed, TrStates, TransportAssumption
<1>3. /\ Elements(c2s') \subseteq Elements(c2s)
      /\ Once(c2s', Hellos) /\ Once(c2s', Starts(tr))
      /\ c2s # <<>> /\ c2s' = Tail(c2s) =>
           /\ Head(c2s) \in Elements(c2s) /\ Head(c2s) \in Uplink
           /\ \A S : Once(c2s, S) /\ Head(c2s) \in S => \A m \in Elements(c2s') : m \notin S
  <2>1. CASE c2s' = c2s /\ ~(c2s # <<>> /\ c2s' = Tail(c2s))
    BY <1>1, <2>1 DEF Greeted, Unheard
  <2>2. CASE c2s # <<>> /\ c2s' = Tail(c2s)
    BY <1>1, <1>2, <2>2, TailElements, OnceTail DEF Greeted, Unheard
  <2> QED BY <2>1, <2>2
<1>4. /\ Starts(tr)' = Starts(tr) /\ Elements(sv.sending)' = Elements(sv.sending)
      /\ Elements(c2s)' = Elements(c2s') /\ Elements(s2c)' = Elements(s2c')
      /\ OnWay' = Elements(s2c') \cup Elements(sv.sending)
      /\ Answered(tr)' /\ (Runs' <=> Runs)
  BY <1>1 DEF Starts, Elements, OnWay, Answered, Runs
<1>5. /\ \A a \in Elements(c2s') : a \in Elements(c2s)
      /\ sv'.turn <= tr.turn
      /\ \A a \in Elements(sv.sending) : a.type # "hello.ack"
      /\ Elements(sv.sending) \subseteq OnWay
  BY <1>1, <1>3 DEF Named, OnWay
<1>6. CASE s2c' = s2c
  <2>1. Greeted'
    BY <1>1, <1>3, <1>4, <1>5, <1>6 DEF Greeted, Once, Hellos, Acks
  <2>2. Named' /\ Unheard' /\ OnWay' = OnWay
    BY <1>1, <1>3, <1>4, <1>5, <1>6 DEF Named, Unheard, OnWay, Once
  <2>3. Runs => InLine'
    <3>1. Runs => Ready(sv', OnWay, tr)
      BY <1>1, ReadyStays DEF InLine
    <3> QED BY <1>1, <1>4, <1>6, <2>2, <3>1 DEF InLine, Line
  <2> QED BY <1>4, <2>1, <2>2, <2>3 DEF DownInv
<1>7. ASSUME NEW x \in Downlink, s2c' = Append(s2c, x),
             x.type \in {"hello.ack", "cancelled", "error"},
             x.type = "cancelled" => x.id \in cut,
             x.type = "hello.ack" => c2s # <<>> /\ c2s' = Tail(c2s) /\ Head(c2s).type = "hello",
             \/ x.id = 0 \/ x.id = sv.turn
             \/ /\ c2s # <<>> /\ c2s' = Tail(c2s)
                /\ Head(c2s).type = "turn.start" /\ x.id = Head(c2s).id
      PROVE  DownInv'
  <2>1. Elements(s2c') = Elements(s2c) \cup {x} /\ OnWay' = OnWay \cup {x}
    BY <1>2, <1>4, <1>7, AppendElements DEF OnWay
  <2>2. Greeted'
    <3>1. x.type = "hello.ack" =>
            /\ ~tr.session /\ cl.hello_sent /\ \A a \in Elements(s2c) : a.type # "hello.ack"
            /\ \A a \in Elements(c2s') : a.type # "hello"
      <4> SUFFICES ASSUME x.type = "hello.ack"
                   PROVE  /\ ~tr.session /\ cl.hello_sent
                          /\ \A a \in Elements(s2c) : a.type # "hello.ack"
                          /\ \A a \in Elements(c2s') : a.type # "hello"
        OBVIOUS
      <4>1. Head(c2s) \in Elements(c2s) /\ Head(c2s).type = "hello" /\ Head(c2s) \in Hellos
        BY <1>3, <1>7 DEF Hellos
      <4>2. \A a \in Elements(c2s') : a \notin Hellos /\ a \in Uplink
        BY <1>1, <1>2, <1>3, <1>5, <1>7, <4>1, OnWayIs DEF Greeted
      <4>3. \A a \in Elements(c2s') : a.type # "hello"
        BY <4>2 DEF Hellos
      <4> QED BY <1>1, <4>1, <4>3 DEF Greeted
    <3>2. Once(s2c', Acks)
      BY <1>1, <1>2, <1>7, <3>1, OnceAppend DEF Greeted, Acks
    <3> QED BY <1>1, <1>3, <1>4, <1>5, <2>1, <3>1, <3>2 DEF Greeted, Once, Hellos, Acks
  <2>3. x.id <= tr.turn
    <3>1. c2s # <<>> /\ c2s' = Tail(c2s) => Head(c2s).id <= tr.turn
      BY <1>1, <1>3 DEF Named
    <3> QED BY <1>1, <1>2, <1>7, <3>1 DEF Named
  <2>4. Named'
    BY <1>1, <1>4, <1>5, <1>7, <2>1, <2>3 DEF Named, Spoken
  <2>5. Unheard'
    <3>1. ASSUME \E a \in Elements(c2s') : a \in Starts(tr) PROVE x.id # tr.turn
      <4>1. sv.turn # tr.turn /\ tr.turn # 0
        <5>1. PICK a \in Elements(c2s) : a \in Starts(tr)
          BY <1>5, <3>1
        <5>2. a.id # 0 /\ a.id = tr.turn
          BY <5>1 DEF ClientInv, Outgoing, Starts
        <5> QED BY <1>1, <5>1, <5>2 DEF Unheard
      <4>2. /\ c2s # <<>> /\ c2s' = Tail(c2s) /\ Head(c2s).type = "turn.start" =>
                 Head(c2s).id # tr.turn
        BY <1>1, <1>3, <3>1 DEF Unheard, Starts
      <4> QED BY <1>7, <4>1, <4>2
    <3> QED BY <1>1, <1>3, <1>4, <1>5, <2>1, <3>1 DEF Unheard, Once
  <2>6. Runs => InLine'
    <3> SUFFICES ASSUME Runs PROVE InLine'
      OBVIOUS
    <3>1. x.type \notin Spoken \cup {"done"}
      BY <1>7 DEF Spoken
    <3>2. Line(s2c', tr)
      BY <1>1, <1>2, <1>7, <3>1, ErrorFits, LineAppend DEF InLine
    <3>3. sv.sending # <<>> => Fits(sv.sending[1], Elements(s2c) \cup {x}, tr)
      <4>1. Elements(s2c) \cup {x} = {x} \cup Elements(s2c)
        OBVIOUS
      <4> QED BY <1>1, <3>1, <4>1, ErrorFits DEF InLine
    <3>4. Ready(sv', OnWay \cup {x}, tr)
      <4>1. OnWay \cup {x} = {x} \cup OnWay
        OBVIOUS
      <4>2. Ready(sv, OnWay \cup {x}, tr)
        BY <1>1, <3>1, <4>1, ErrorFits DEF InLine
      <4> QED BY <4>2, ReadyStays
    <3> QED BY <1>4, <2>1, <3>2, <3>3, <3>4 DEF InLine, Line
  <2> QED BY <1>4, <2>2, <2>4, <2>5, <2>6 DEF DownInv
<1> QED
  BY <1>6, <1>7

\* A turn begins that the transport has heard nothing of.
LEMMA BeginsDown ==
  ASSUME ClientInv, DownInv, tr.conn = "open", UNCHANGED <<tr, cut, cl, s2c>>,
         c2s # <<>>, c2s' = Tail(c2s), Head(c2s).type = "turn.start",
         sv' = [NewServer EXCEPT !.hello = TRUE, !.turn = Head(c2s).id, !.active = TRUE,
                                 !.sending = sv.sending]
  PROVE  DownInv'
<1> DEFINE m == Head(c2s)
<1>1. Greeted /\ Named /\ Unheard /\ Answered(tr) /\ (Runs => InLine)
  BY DEF DownInv
<1>2. c2s \in Seq(Uplink) /\ m \in Uplink /\ m \in Elements(c2s) /\ m.type = "turn.start"
  BY TailElements DEF ClientInv, Typed
<1>3. /\ sv'.turn = m.id /\ sv'.active /\ ~sv'.committed /\ sv'.answer = "none" /\ sv'.audio = 0
      /\ ~sv'.finishing /\ sv'.sending = sv.sending
  BY DEF NewServer
<1>4. /\ Elements(c2s') \subseteq Elements(c2s) /\ Once(c2s', Hellos) /\ Once(c2s', Starts(tr))
      /\ m \in Starts(tr) => \A a \in Elements(c2s') : a \notin Starts(tr)
  BY <1>1, <1>2, TailElements, OnceTail DEF Greeted, Unheard
<1> HIDE DEF m
<1>5. /\ Starts(tr)' = Starts(tr) /\ Elements(sv.sending)' = Elements(sv.sending)
      /\ Elements(c2s)' = Elements(c2s') /\ Elements(s2c)' = Elements(s2c)
      /\ OnWay' = OnWay /\ Answered(tr)' /\ (Runs' <=> Runs)
  BY <1>1, <1>3 DEF Starts, Elements, OnWay, Answered, Runs
<1>6. Greeted'
  BY <1>1, <1>4, <1>5 DEF Greeted, Once, Hellos, Acks
<1>7. Named'
  BY <1>1, <1>2, <1>3, <1>4, <1>5 DEF Named
<1>8. m.id = tr.turn => m \in Starts(tr)
  BY <1>2 DEF Starts
<1>9. Unheard'
  <2>1. (\E a \in Elements(c2s') : a \in Starts(tr)) => m.id # tr.turn
    BY <1>4, <1>8
  <2> QED BY <1>1, <1>3, <1>4, <1>5, <2>1 DEF Unheard, Once
<1>10. Ready(sv', OnWay, tr)
  <2> SUFFICES ASSUME m.id = tr.turn PROVE Ready(sv', OnWay, tr)
    BY <1>3 DEF Ready
  <2>1. tr.response = 0 /\ \A a \in OnWay : a.id # tr.turn
    BY <1>1, <1>2, <1>8 DEF Unheard
  <2>2. ~tr.discard /\ Expected(tr) = 0 /\ Made(sv') = 0
    BY <1>1, <1>3, <2>1 DEF Answered, Expected, Made
  <2>3. Ahead(0, OnWay, tr)
    BY <2>1, <2>2 DEF Ahead, Speech
  <2> QED BY <1>3, <2>2, <2>3 DEF Ready
<1>11. Runs => InLine'
  BY <1>1, <1>3, <1>5, <1>10 DEF InLine, Line
<1> QED
  BY <1>5, <1>6, <1>7, <1>9, <1>11 DEF DownInv

\* The turn is over for the server, which may say so.
LEMMA FencedDown ==
  ASSUME ClientInv, DownInv, tr.conn = "open", UNCHANGED <<tr, cut, cl>>,
         c2s' = c2s \/ (c2s # <<>> /\ c2s' = Tail(c2s)), sv' = Fence(sv),
         \/ s2c' = s2c
         \/ s2c' = Append(s2c, Message("error", sv.turn))
         \/ s2c' = Append(s2c, Message("cancelled", sv.turn)) /\ sv.turn \in cut
  PROVE  DownInv'
<1>1. /\ sv'.turn = sv.turn /\ ~sv'.active /\ sv'.sending = sv.sending /\ sv'.answer = sv.answer
      /\ sv'.audio = sv.audio /\ sv'.committed = sv.committed
  BY DEF Fence, ClientInv, Typed, SvStates
<1>2. sv.turn \in 0..MaxEpoch
  BY DEF ClientInv, Typed, SvStates
<1>3. \A type \in {"error", "cancelled"} :
        /\ Message(type, sv.turn) \in Downlink
        /\ Message(type, sv.turn).type = type /\ Message(type, sv.turn).id = sv.turn
  BY <1>2, Messages
<1> QED
  BY <1>1, <1>3, AsideDown

LEMMA EndsDown ==
  ASSUME ClientInv, DownInv, tr.conn = "open", UNCHANGED <<tr, cut, cl>>,
         c2s # <<>>, c2s' = Tail(c2s), NEW m, ProtocolEnds(m)
  PROVE  DownInv'
<1> DEFINE e == Message("error", 0)
<1>1. s2c' = Append(s2c, e) /\ sv' = [sv EXCEPT !.alive = FALSE]
  BY DEF ProtocolEnds, Queue
<1>2. e \in Downlink /\ e.type = "error" /\ e.id = 0
  BY TransportAssumption, Messages DEF TransportAssumption
<1> HIDE DEF e
<1>3. /\ sv'.turn = sv.turn /\ sv'.active = sv.active /\ sv'.sending = sv.sending
      /\ sv'.answer = sv.answer /\ sv'.audio = sv.audio /\ sv'.committed = sv.committed
      /\ sv'.finishing = sv.finishing
  BY <1>1 DEF ClientInv, Typed, SvStates
<1> QED
  BY <1>1, <1>2, <1>3, AsideDown

\* The server takes a message.
LEMMA ReceivesDown ==
  ASSUME ClientInv, DownInv, ServerReceives
  PROVE  DownInv'
<1> DEFINE m == Head(c2s)
<1>1. /\ tr.conn = "open" /\ UNCHANGED <<tr, cut, cl>>
      /\ c2s # <<>> /\ c2s' = Tail(c2s) /\ c2s \in Seq(Uplink)
  BY DEF ServerReceives, Serving, ClientInv, Typed, client
<1>2. m \in Uplink /\ m \in Elements(c2s)
  BY <1>1, TailElements
<1>3. m.type \in {"hello", "turn.start", "pcm", "turn.commit", "cancel"}
  BY <1>2 DEF Uplink
<1>4. /\ m.type = "hello" => OnHello(m)
      /\ m.type = "turn.start" => OnTurnStart(m)
      /\ m.type = "pcm" => OnUplinkPcm(m)
      /\ m.type = "turn.commit" => OnCommit(m)
      /\ m.type = "cancel" => OnCancel(m)
  BY <1>3 DEF ServerReceives
<1>5. sv \in SvStates /\ sv.turn \in 0..MaxEpoch /\ m.id \in 0..MaxEpoch
  BY <1>2 DEF ClientInv, Typed, SvStates, Uplink, Epochs
<1>6. Named
  BY <1>1 DEF DownInv
<1>7. CASE m.type = "hello"
  <2> DEFINE ack == Message("hello.ack", 0)
  <2>1. s2c' = Append(s2c, ack) /\ sv' = [sv EXCEPT !.hello = TRUE]
    BY <1>4, <1>7 DEF OnHello, Queue
  <2>2. ack \in Downlink /\ ack.type = "hello.ack" /\ ack.id = 0
    BY TransportAssumption DEF Message, Downlink, TransportAssumption
  <2> HIDE DEF ack
  <2>3. /\ sv'.turn = sv.turn /\ sv'.active = sv.active /\ sv'.sending = sv.sending
        /\ sv'.answer = sv.answer /\ sv'.audio = sv.audio /\ sv'.committed = sv.committed
        /\ sv'.finishing = sv.finishing
    BY <1>5, <2>1 DEF SvStates
  <2> QED BY <1>1, <1>7, <2>1, <2>2, <2>3, AsideDown
<1>8. CASE ProtocolEnds(m)
  BY <1>1, <1>8, EndsDown
<1>9. CASE Retire(m)
  BY <1>1, <1>9, FencedDown DEF Retire, Queue
<1>10. CASE UNCHANGED <<s2c, sv>>
  BY <1>1, <1>10, AsideDown
<1>11. CASE m.type = "turn.start"
  <2>1. CASE sv.active
    <3> DEFINE e == Message("error", m.id)
    <3>1. s2c' = Append(s2c, e) /\ sv' = sv
      BY <1>4, <1>11, <2>1 DEF OnTurnStart, Queue
    <3>2. e \in Downlink /\ e.type = "error" /\ e.id = m.id
      BY <1>5, Messages
    <3> HIDE DEF e
    <3> QED BY <1>1, <1>11, <3>1, <3>2, AsideDown
  <2>2. CASE ~sv.active
    BY <1>1, <1>4, <1>11, <2>2, BeginsDown DEF OnTurnStart
  <2> QED BY <2>1, <2>2
<1>12. CASE m.type = "pcm"
  <2>1. OnUplinkPcm(m)
    BY <1>4, <1>12
  <2>2. CASE sv' = [sv EXCEPT !.started = TRUE, !.ended = "END" \in m.flags] /\ s2c' = s2c
    <3>1. /\ sv'.turn = sv.turn /\ sv'.active = sv.active /\ sv'.sending = sv.sending
          /\ sv'.answer = sv.answer /\ sv'.audio = sv.audio /\ sv'.committed = sv.committed
          /\ sv'.finishing = sv.finishing
      BY <1>5, <2>2 DEF SvStates
    <3> QED BY <1>1, <2>2, <3>1, AsideDown
  <2> QED BY <1>8, <1>9, <1>10, <2>1, <2>2 DEF OnUplinkPcm
<1>13. CASE m.type = "turn.commit"
  <2>1. OnCommit(m)
    BY <1>4, <1>13
  <2>2. CASE m.id = sv.turn /\ sv' = [sv EXCEPT !.committed = TRUE] /\ s2c' = s2c
    <3>1. /\ sv'.turn = sv.turn /\ sv'.active = sv.active /\ sv'.sending = sv.sending
          /\ sv'.answer = sv.answer /\ sv'.audio = sv.audio /\ sv'.finishing = sv.finishing
      BY <1>5, <2>2 DEF SvStates
    <3>2. sv.turn = tr.turn => tr.committed
      BY <1>2, <1>6, <1>13, <2>2 DEF Named
    <3> QED BY <1>1, <2>2, <3>1, <3>2, AsideDown
  <2> QED BY <1>8, <1>9, <1>10, <2>1, <2>2 DEF OnCommit
<1>14. CASE m.type = "cancel"
  <2>1. OnCancel(m) /\ m.id \in cut
    BY <1>2, <1>4, <1>6, <1>14 DEF Named
  <2>2. CASE m.id = sv.turn
    <3>1. sv' = Fence(sv) /\ s2c' = Append(s2c, Message("cancelled", sv.turn)) /\ sv.turn \in cut
      BY <2>1, <2>2 DEF OnCancel, Queue
    <3> QED BY <1>1, <3>1, FencedDown
  <2> QED BY <1>8, <1>10, <2>1, <2>2 DEF OnCancel
<1> QED
  BY <1>3, <1>7, <1>11, <1>12, <1>13, <1>14

\* The next message of the answer comes behind the others.
LEMMA AheadMore ==
  ASSUME NEW t \in TrStates, NEW B \in SUBSET Downlink, NEW m \in Downlink, Speech(m, t),
         Ahead(Place(m), B, t)
  PROVE  Ahead(Place(m) + 1, B \cup {m}, t)
<1>1. /\ Expected(t) \in Nat /\ Place(m) \in Nat /\ \A b \in B : Place(b) \in Nat
  BY PlaceIs
<1>2. Expected(t) <= Place(m) + 1
  BY <1>1 DEF Ahead
<1>3. \A b \in B \cup {m} : Speech(b, t) => Place(b) < Place(m) + 1
  <2>1. \A b \in B : Speech(b, t) => Place(b) < Place(m)
    BY DEF Ahead
  <2>2. Place(m) < Place(m) + 1 /\ \A b \in B : Place(b) < Place(m) => Place(b) < Place(m) + 1
    BY <1>1
  <2> QED BY <2>1, <2>2
<1>4. \E b \in B \cup {m} : Speech(b, t) /\ Place(b) + 1 = Place(m) + 1
  OBVIOUS
<1> QED
  BY <1>2, <1>3, <1>4 DEF Ahead

\* The server makes up the next message of its turn.
LEMMA MakesDown ==
  ASSUME ClientInv, DownInv, tr.conn = "open", UNCHANGED <<tr, c2s, s2c, cut, cl>>,
         NEW m \in Downlink, sv.sending = <<>>, sv'.sending = <<m>>, sv'.turn = sv.turn,
         m.id = sv.turn, sv.turn # 0, m.type \notin {"cancelled", "hello.ack"},
         m.type = "pcm" => (m.seq = 0 <=> "START" \in m.flags),
         Runs /\ sv.turn = tr.turn =>
           Fits(m, Elements(s2c), tr) /\ Ready(sv', Elements(s2c) \cup {m}, tr)
  PROVE  DownInv'
<1>1. Greeted /\ Named /\ Unheard /\ Answered(tr) /\ (Runs => InLine)
  BY DEF DownInv
<1>2. Elements(sv'.sending) = {m} /\ Elements(sv.sending) = {}
  BY DEF Elements
<1>3. /\ Starts(tr)' = Starts(tr) /\ Elements(sv.sending)' = {m}
      /\ Elements(c2s)' = Elements(c2s) /\ Elements(s2c)' = Elements(s2c)
      /\ OnWay = Elements(s2c) /\ OnWay' = Elements(s2c) \cup {m}
      /\ Answered(tr)' /\ (Runs' <=> Runs)
  BY <1>1, <1>2 DEF Starts, Elements, OnWay, Answered, Runs
<1>4. Greeted'
  BY <1>1, <1>3 DEF Greeted, Once, Hellos, Acks
<1>5. Named'
  BY <1>1, <1>3 DEF Named
<1>6. Unheard'
  BY <1>1, <1>3 DEF Unheard, Once
<1>7. ASSUME Runs PROVE InLine'
  <2>1. Line(s2c, tr)
    BY <1>1, <1>7 DEF InLine
  <2>2. Fits(m, Elements(s2c), tr) /\ Ready(sv', OnWay', tr)
    <3>1. CASE sv.turn = tr.turn
      BY <1>3, <1>7, <3>1
    <3>2. CASE sv.turn # tr.turn
      BY <3>2 DEF Fits, Ready
    <3> QED BY <3>1, <3>2
  <2> QED BY <1>3, <2>1, <2>2 DEF InLine, Line
<1> QED
  BY <1>3, <1>4, <1>5, <1>6, <1>7 DEF DownInv

\* What the server knows when it makes up a message.
LEMMA AnsweringMeans ==
  ASSUME ClientInv, DownInv, Answering
  PROVE  /\ tr.conn = "open" /\ sv \in SvStates /\ tr \in TrStates /\ sv.turn # 0
         /\ sv.turn \in 0..MaxEpoch /\ sv.sending = <<>> /\ sv.active /\ sv.committed
         /\ ~sv.finishing /\ Elements(s2c) \in SUBSET Downlink
         /\ Runs => Ready(sv, Elements(s2c), tr)
<1>1. /\ tr.conn = "open" /\ sv \in SvStates /\ sv.turn \in 0..MaxEpoch /\ sv.sending = <<>>
      /\ sv.active /\ sv.committed /\ ~sv.finishing /\ Typed /\ tr \in TrStates
  BY DEF Answering, Serving, ClientInv, Typed, SvStates
<1>2. sv.turn # 0
  BY <1>1 DEF ClientInv, Incoming
<1>3. Elements(s2c) \in SUBSET Downlink /\ OnWay = Elements(s2c)
  BY <1>1, OnWayIs DEF OnWay
<1>4. Runs => Ready(sv, Elements(s2c), tr)
  BY <1>1, <1>3 DEF DownInv, InLine
<1> QED
  BY <1>1, <1>2, <1>3, <1>4

LEMMA AnswerStartsDown ==
  ASSUME ClientInv, DownInv, AnswerStarts
  PROVE  DownInv'
<1> DEFINE m == Message("response.start", sv.turn)
           B == Elements(s2c)
<1>1. /\ Answering /\ sv.answer = "none" /\ UNCHANGED <<tr, c2s, s2c, cut, cl>>
      /\ sv' = [[sv EXCEPT !.answer = "started"] EXCEPT !.sending = <<m>>]
  BY DEF AnswerStarts, Produce, transport, client
<1>2. /\ tr.conn = "open" /\ sv \in SvStates /\ tr \in TrStates /\ sv.turn # 0
      /\ sv.turn \in 0..MaxEpoch /\ sv.sending = <<>> /\ sv.active /\ sv.committed
      /\ ~sv.finishing /\ B \in SUBSET Downlink /\ (Runs => Ready(sv, B, tr))
  BY <1>1, AnsweringMeans
<1>3. m \in Downlink /\ m.type = "response.start" /\ m.id = sv.turn
  BY <1>2, Messages
<1>4. /\ sv'.sending = <<m>> /\ sv'.turn = sv.turn /\ sv'.answer = "started"
      /\ sv'.audio = sv.audio /\ sv'.active /\ sv'.committed /\ ~sv'.finishing
  BY <1>1, <1>2 DEF SvStates
<1> HIDE DEF m, B
<1>5. ASSUME Runs, sv.turn = tr.turn
      PROVE  Fits(m, B, tr) /\ Ready(sv', B \cup {m}, tr)
  <2>1. CASE OverBy(B, tr)
    <3>1. OverBy(B \cup {m}, tr)
      BY <2>1 DEF OverBy
    <3> QED BY <2>1, <3>1 DEF Fits, Ready
  <2>2. CASE ~OverBy(B, tr)
    <3>1. /\ tr.committed /\ ~tr.discard /\ sv.audio = 0 /\ Ahead(Made(sv), B, tr)
      BY <1>1, <1>2, <1>5, <2>2 DEF Ready
    <3>2. Made(sv) = 0 /\ Place(m) = 0 /\ Speech(m, tr) /\ Made(sv') = 1
      BY <1>1, <1>3, <1>4, <1>5 DEF Made, Place, Speech, Spoken
    <3>3. Fits(m, B, tr)
      BY <1>3, <3>1, <3>2 DEF Fits
    <3>4. Ahead(1, B \cup {m}, tr)
      <4>1. Ahead(Place(m), B, tr) /\ Place(m) + 1 = 1
        BY <3>1, <3>2
      <4>2. Ahead(Place(m) + 1, B \cup {m}, tr)
        BY <1>2, <1>3, <3>2, <4>1, AheadMore
      <4> QED BY <4>1, <4>2
    <3>5. Begun(B \cup {m}, tr)
      BY <1>3, <3>2 DEF Begun
    <3>6. Silent(B \cup {m}, tr)
      <4>1. Expected(tr) = 0
        <5>1. Expected(tr) \in Nat /\ Expected(tr) <= 0
          BY <1>2, <3>1, <3>2, PlaceIs DEF Ahead
        <5> QED BY <5>1
      <4>2. \A b \in B : ~Speech(b, tr)
        <5>1. \A b \in B : Place(b) \in Nat
          BY <1>2, PlaceIs
        <5> QED BY <3>1, <3>2, <5>1 DEF Ahead
      <4>3. tr.response = 0
        BY <1>2, <4>1 DEF Expected, TrStates
      <4>4. ~tr.audio_started
        BY <1>2, <4>3 DEF ClientInv, Links, TurnOf
      <4> QED BY <1>3, <4>2, <4>4 DEF Silent
    <3> QED BY <1>4, <3>1, <3>2, <3>3, <3>4, <3>5, <3>6 DEF Ready
  <2> QED BY <2>1, <2>2
<1> QED
  BY <1>1, <1>2, <1>3, <1>4, <1>5, MakesDown DEF B

LEMMA AudioStartsDown ==
  ASSUME ClientInv, DownInv, AudioStarts
  PROVE  DownInv'
<1> DEFINE m == Message("audio_start", sv.turn)
           B == Elements(s2c)
<1>1. /\ Answering /\ sv.answer = "started" /\ UNCHANGED <<tr, c2s, s2c, cut, cl>>
      /\ sv' = [[sv EXCEPT !.answer = "audio"] EXCEPT !.sending = <<m>>]
  BY DEF AudioStarts, Produce, transport, client
<1>2. /\ tr.conn = "open" /\ sv \in SvStates /\ tr \in TrStates /\ sv.turn # 0
      /\ sv.turn \in 0..MaxEpoch /\ sv.sending = <<>> /\ sv.active /\ sv.committed
      /\ ~sv.finishing /\ B \in SUBSET Downlink /\ (Runs => Ready(sv, B, tr))
  BY <1>1, AnsweringMeans
<1>3. m \in Downlink /\ m.type = "audio_start" /\ m.id = sv.turn
  BY <1>2, Messages
<1>4. /\ sv'.sending = <<m>> /\ sv'.turn = sv.turn /\ sv'.answer = "audio"
      /\ sv'.audio = sv.audio /\ sv'.active /\ sv'.committed /\ ~sv'.finishing
  BY <1>1, <1>2 DEF SvStates
<1> HIDE DEF m, B
<1>5. ASSUME Runs, sv.turn = tr.turn
      PROVE  Fits(m, B, tr) /\ Ready(sv', B \cup {m}, tr)
  <2>1. CASE OverBy(B, tr)
    <3>1. OverBy(B \cup {m}, tr)
      BY <2>1 DEF OverBy
    <3> QED BY <2>1, <3>1 DEF Fits, Ready
  <2>2. CASE ~OverBy(B, tr)
    <3>1. /\ tr.committed /\ Begun(B, tr) /\ sv.audio = 0
          /\ ~tr.discard => Ahead(Made(sv), B, tr) /\ Silent(B, tr)
      BY <1>1, <1>2, <1>5, <2>2 DEF Ready
    <3>2. Made(sv) = 1 /\ Place(m) = 1 /\ Speech(m, tr) /\ Made(sv') = 2
      BY <1>1, <1>3, <1>4, <1>5, <3>1 DEF Made, Place, Speech, Spoken
    <3>3. Fits(m, B, tr)
      BY <1>3, <3>1, <3>2 DEF Fits
    <3>4. ~tr.discard => Ahead(2, B \cup {m}, tr)
      <4>1. (~tr.discard => Ahead(Place(m), B, tr)) /\ Place(m) + 1 = 2
        BY <3>1, <3>2
      <4>2. ~tr.discard => Ahead(Place(m) + 1, B \cup {m}, tr)
        BY <1>2, <1>3, <3>2, <4>1, AheadMore
      <4> QED BY <4>1, <4>2
    <3>5. Begun(B \cup {m}, tr)
      BY <3>1 DEF Begun
    <3>6. ~tr.discard => Sounding(B \cup {m}, tr)
      <4>1. ~tr.discard => ~tr.audio_ended
        BY <1>2, <3>1 DEF Silent, DownInv, Answered
      <4>2. ~tr.discard => \A b \in B : Speech(b, tr) => b.type # "pcm"
        <5>1. \A b \in B : b.type = "pcm" => Place(b) >= 2
          BY <1>2 DEF Place, Downlink
        <5>2. \A b \in B : Place(b) \in Nat
          BY <1>2, PlaceIs
        <5>3. ~tr.discard => \A b \in B : Speech(b, tr) => Place(b) < 1
          BY <3>1, <3>2 DEF Ahead
        <5> QED BY <5>1, <5>2, <5>3
      <4> QED BY <1>3, <4>1, <4>2 DEF Sounding
    <3> QED BY <1>4, <3>1, <3>2, <3>3, <3>4, <3>5, <3>6 DEF Ready
  <2> QED BY <2>1, <2>2
<1> QED
  BY <1>1, <1>2, <1>3, <1>4, <1>5, MakesDown DEF B

LEMMA AudioGoesOnDown ==
  ASSUME ClientInv, DownInv, AudioGoesOn
  PROVE  DownInv'
<1>1. PICK end \in BOOLEAN, gap \in {{}, {"GAP"}} :
        /\ sv.audio + 1 = MaxAudio => end
        /\ gap = {} \/ Gaps
        /\ Produce(Pcm(sv.turn, sv.audio, (IF sv.audio = 0 THEN {"START"} ELSE {}) \cup gap
                                          \cup (IF end THEN {"END"} ELSE {})),
                   [sv EXCEPT !.audio = @ + 1, !.answer = IF end THEN "over" ELSE @])
  BY Zenon DEF AudioGoesOn
<1> DEFINE flags == (IF sv.audio = 0 THEN {"START"} ELSE {}) \cup gap
                    \cup (IF end THEN {"END"} ELSE {})
           answer == IF end THEN "over" ELSE sv.answer
           m == Pcm(sv.turn, sv.audio, flags)
           B == Elements(s2c)
<1>2. /\ Answering /\ sv.answer = "audio" /\ sv.audio < MaxAudio
      /\ UNCHANGED <<tr, c2s, s2c, cut, cl>>
      /\ sv' = [[sv EXCEPT !.audio = @ + 1, !.answer = answer] EXCEPT !.sending = <<m>>]
  BY <1>1 DEF AudioGoesOn, Produce, transport, client
<1>3. /\ tr.conn = "open" /\ sv \in SvStates /\ tr \in TrStates /\ sv.turn # 0
      /\ sv.turn \in 0..MaxEpoch /\ sv.sending = <<>> /\ sv.active /\ sv.committed
      /\ ~sv.finishing /\ B \in SUBSET Downlink /\ (Runs => Ready(sv, B, tr))
  BY <1>2, AnsweringMeans
<1>4. /\ flags \in SUBSET Flags /\ ("END" \in flags <=> end)
      /\ ("START" \in flags <=> sv.audio = 0)
  BY DEF Flags
<1>5. answer = IF end THEN "over" ELSE "audio"
  BY <1>2
<1> HIDE DEF flags, answer
<1>6. m \in Downlink /\ m.type = "pcm" /\ m.id = sv.turn /\ m.seq = sv.audio /\ m.flags = flags
  <2>1. sv.turn \in Epochs /\ sv.audio \in 0..MaxAudio
    BY <1>2, <1>3 DEF Epochs, SvStates
  <2> QED BY <1>4, <2>1 DEF Pcm, Downlink
<1>7. /\ sv'.sending = <<m>> /\ sv'.turn = sv.turn /\ sv'.answer = answer
      /\ sv'.audio = sv.audio + 1 /\ sv'.active /\ sv'.committed /\ ~sv'.finishing
      /\ sv.audio \in Nat
  BY <1>2, <1>3 DEF SvStates
<1> HIDE DEF m, B
<1>8. ASSUME Runs, sv.turn = tr.turn
      PROVE  Fits(m, B, tr) /\ Ready(sv', B \cup {m}, tr)
  <2>1. CASE OverBy(B, tr)
    <3>1. OverBy(B \cup {m}, tr)
      BY <2>1 DEF OverBy
    <3> QED BY <2>1, <3>1 DEF Fits, Ready
  <2>2. CASE ~OverBy(B, tr)
    <3>1. /\ tr.committed /\ Begun(B, tr)
          /\ ~tr.discard => Ahead(Made(sv), B, tr) /\ Sounding(B, tr)
      BY <1>2, <1>3, <1>8, <2>2 DEF Ready
    <3>2. Made(sv) = Place(m) /\ Speech(m, tr) /\ Made(sv') = Place(m) + 1
      BY <1>2, <1>5, <1>6, <1>7, <1>8 DEF Made, Place, Speech, Spoken
    <3>3. Fits(m, B, tr)
      BY <1>6, <3>1, <3>2 DEF Fits
    <3>4. ~tr.discard => Ahead(Place(m) + 1, B \cup {m}, tr)
      BY <1>3, <1>6, <3>1, <3>2, AheadMore
    <3>5. Begun(B \cup {m}, tr)
      BY <3>1 DEF Begun
    <3>6. answer = "audio" /\ ~tr.discard => Sounding(B \cup {m}, tr)
      BY <1>4, <1>5, <1>6, <3>1 DEF Sounding
    <3>7. answer = "over" => Sounded(B \cup {m}, tr)
      BY <1>4, <1>5, <1>6, <3>2 DEF Sounded
    <3>8. answer \in {"audio", "over"}
      BY <1>5
    <3> QED BY <1>7, <3>1, <3>2, <3>3, <3>4, <3>5, <3>6, <3>7, <3>8 DEF Ready
  <2> QED BY <2>1, <2>2
<1>9. m.type \notin {"cancelled", "hello.ack"} /\ (m.seq = 0 <=> "START" \in m.flags)
  BY <1>4, <1>6
<1> QED
  BY <1>2, <1>3, <1>6, <1>7, <1>8, <1>9, MakesDown DEF B

LEMMA AnswerDoneDown ==
  ASSUME ClientInv, DownInv, AnswerDone
  PROVE  DownInv'
<1> DEFINE m == Message("done", sv.turn)
           B == Elements(s2c)
<1>1. /\ Answering /\ sv.answer \in {"started", "over"} /\ UNCHANGED <<tr, c2s, s2c, cut, cl>>
      /\ sv' = [[sv EXCEPT !.finishing = TRUE] EXCEPT !.sending = <<m>>]
  BY DEF AnswerDone, Produce, transport, client
<1>2. /\ tr.conn = "open" /\ sv \in SvStates /\ sv.turn # 0 /\ sv.turn \in 0..MaxEpoch
      /\ sv.sending = <<>> /\ sv.active /\ sv.committed /\ ~sv.finishing
      /\ (Runs => Ready(sv, B, tr))
  BY <1>1, AnsweringMeans
<1>3. m \in Downlink /\ m.type = "done" /\ m.id = sv.turn
  BY <1>2, Messages
<1>4. sv'.sending = <<m>> /\ sv'.turn = sv.turn /\ sv'.finishing
  BY <1>1, <1>2 DEF SvStates
<1> HIDE DEF m, B
<1>5. ASSUME Runs, sv.turn = tr.turn
      PROVE  Fits(m, B, tr) /\ Ready(sv', B \cup {m}, tr)
  <2>1. Ready(sv', B \cup {m}, tr)
    BY <1>4 DEF Ready
  <2>2. ~OverBy(B, tr) => Begun(B, tr) /\ (tr.discard \/ Silent(B, tr) \/ Sounded(B, tr))
    BY <1>1, <1>2, <1>5 DEF Ready
  <2> QED BY <1>3, <2>1, <2>2 DEF Fits, Spoken
<1> QED
  BY <1>1, <1>2, <1>3, <1>4, <1>5, MakesDown DEF B

LEMMA ProviderFailsDown ==
  ASSUME ClientInv, DownInv, ProviderFails
  PROVE  DownInv'
<1> DEFINE m == Message("error", sv.turn)
           B == Elements(s2c)
<1>1. /\ Answering /\ UNCHANGED <<tr, c2s, s2c, cut, cl>>
      /\ sv' = [Fence(sv) EXCEPT !.sending = <<m>>]
  BY DEF ProviderFails, Produce, transport, client
<1>2. /\ tr.conn = "open" /\ sv \in SvStates /\ sv.turn # 0 /\ sv.turn \in 0..MaxEpoch
      /\ sv.sending = <<>>
  BY <1>1, AnsweringMeans
<1>3. m \in Downlink /\ m.type = "error" /\ m.id = sv.turn
  BY <1>2, Messages
<1>4. sv'.sending = <<m>> /\ sv'.turn = sv.turn /\ ~sv'.active
  BY <1>1, <1>2 DEF SvStates, Fence
<1> HIDE DEF m, B
<1>5. Fits(m, B, tr) /\ Ready(sv', B \cup {m}, tr)
  BY <1>3, <1>4, ErrorFits DEF Ready, Spoken
<1> QED
  BY <1>1, <1>2, <1>3, <1>4, <1>5, MakesDown DEF B

\* What has been made up goes out, or is given up.
LEMMA SendDown ==
  ASSUME ClientInv, DownInv, Send
  PROVE  DownInv'
<1> DEFINE m == sv.sending[1]
           B == Elements(s2c)
<1>1. /\ tr.conn = "open" /\ UNCHANGED <<tr, c2s, cut, cl>> /\ sv.sending # <<>>
      /\ sv' = [sv EXCEPT !.sending = <<>>]
      /\ \/ s2c' = Append(s2c, m)
         \/ s2c' = s2c /\ ~(sv.active /\ sv.turn = m.id)
  BY DEF Send, Serving, Queue, client
<1>2. /\ Greeted /\ Named /\ Unheard /\ Answered(tr) /\ (Runs => InLine) /\ Typed
      /\ s2c \in Seq(Downlink)
  BY <1>1 DEF DownInv, ClientInv, Typed
<1>3. m \in Downlink /\ Elements(sv.sending) = {m} /\ OnWay = B \cup {m}
  BY <1>1, <1>2, OnWayIs DEF OnWay
<1>4. /\ sv'.sending = <<>> /\ sv'.turn = sv.turn /\ sv'.active = sv.active
      /\ sv'.finishing = sv.finishing /\ sv'.answer = sv.answer /\ sv'.audio = sv.audio
      /\ sv'.committed = sv.committed
  BY <1>1, <1>2 DEF Typed, SvStates
<1>5. m.type # "hello.ack" /\ (Runs => Fits(m, B, tr) /\ Ready(sv', B \cup {m}, tr))
  <2>1. m.type # "hello.ack"
    BY <1>2, <1>3 DEF Named
  <2>2. Runs => Fits(m, B, tr) /\ Ready(sv, B \cup {m}, tr)
    BY <1>1, <1>2, <1>3 DEF InLine
  <2>3. Runs => Ready(sv', B \cup {m}, tr)
    BY <1>4, <2>2, ReadyStays
  <2> QED BY <2>1, <2>2, <2>3
<1>6. Elements(sv'.sending) = {}
  BY <1>4 DEF Elements
<1> HIDE DEF m
<1>7. /\ Starts(tr)' = Starts(tr) /\ Elements(sv.sending)' = {}
      /\ Elements(c2s)' = Elements(c2s) /\ Elements(s2c)' = Elements(s2c')
      /\ OnWay' = Elements(s2c') /\ Answered(tr)' /\ (Runs' <=> Runs)
  BY <1>1, <1>2, <1>6 DEF Starts, Elements, OnWay, Answered, Runs
<1>8. CASE s2c' = Append(s2c, m)
  <2>1. Elements(s2c') = B \cup {m}
    BY <1>2, <1>3, <1>8, AppendElements
  <2> HIDE DEF B
  <2>2. B = Elements(s2c) /\ OnWay' = OnWay
    BY <1>3, <1>7, <2>1 DEF B
  <2>3. Greeted'
    <3>1. Once(s2c', Acks)
      BY <1>2, <1>3, <1>5, <1>8, OnceAppend DEF Greeted, Acks
    <3> QED BY <1>1, <1>2, <1>5, <1>7, <2>1, <2>2, <3>1 DEF Greeted, Once, Hellos, Acks
  <2>4. Named'
    BY <1>1, <1>2, <1>4, <1>7, <2>2 DEF Named
  <2>5. Unheard'
    BY <1>1, <1>2, <1>4, <1>7, <2>2 DEF Unheard, Once
  <2>6. ASSUME Runs PROVE InLine'
    <3>1. Line(s2c', tr)
      BY <1>2, <1>3, <1>5, <1>8, <2>2, <2>6, LineAppend DEF InLine
    <3>2. Ready(sv', OnWay', tr)
      BY <1>5, <1>7, <2>1, <2>6
    <3> QED BY <1>1, <1>4, <3>1, <3>2 DEF InLine, Line
  <2> QED BY <1>7, <2>3, <2>4, <2>5, <2>6 DEF DownInv
<1>9. CASE s2c' = s2c /\ ~(sv.active /\ sv.turn = m.id)
  <2>1. Elements(s2c') = B /\ OnWay' = B
    BY <1>7, <1>9
  <2>2. Greeted'
    BY <1>1, <1>2, <1>7, <1>9 DEF Greeted, Once, Hellos, Acks
  <2>3. Named'
    BY <1>1, <1>2, <1>3, <1>4, <1>7, <2>1 DEF Named
  <2>4. Unheard'
    BY <1>1, <1>2, <1>3, <1>4, <1>7, <2>1 DEF Unheard, Once
  <2>5. ASSUME Runs PROVE InLine'
    <3>1. Line(s2c', tr)
      BY <1>2, <1>9, <2>5 DEF InLine
    <3>2. Ready(sv', B, tr)
      <4>1. CASE ~sv.active \/ sv.turn # tr.turn
        BY <1>4, <4>1 DEF Ready
      <4>2. CASE sv.active /\ sv.turn = tr.turn
        <5>1. Beside(m, tr) /\ B \cup {m} = {m} \cup B
          BY <1>9, <4>2 DEF Beside
        <5>2. Ready(sv', {m} \cup B, tr)
          BY <1>5, <2>5, <5>1
        <5> QED BY <5>1, <5>2, BesideFits
      <4> QED BY <4>1, <4>2
    <3> QED BY <1>1, <1>4, <2>1, <3>1, <3>2 DEF InLine, Line
  <2> QED BY <1>7, <2>2, <2>3, <2>4, <2>5 DEF DownInv
<1> QED
  BY <1>1, <1>8, <1>9 DEF m

LEMMA RetiredDown ==
  ASSUME ClientInv, DownInv, Retired
  PROVE  DownInv'
<1>1. /\ tr.conn = "open" /\ sv' = Fence(sv) /\ UNCHANGED <<tr, c2s, s2c, cut, cl>>
  BY DEF Retired, Serving, transport, client
<1> QED
  BY <1>1, FencedDown

LEMMA RetiresDown ==
  ASSUME ClientInv, DownInv, ServerRetires
  PROVE  DownInv'
<1>1. /\ tr.conn = "open" /\ sv' = Fence(sv) /\ UNCHANGED <<tr, c2s, cut, cl>>
      /\ s2c' = Append(s2c, Message("error", sv.turn))
  BY DEF ServerRetires, Serving, Retire, Queue, client
<1> QED
  BY <1>1, FencedDown

\* The network ends a connection over a message that the transport does not
\* take, or for reasons of its own.
LEMMA NetworkEnds ==
  ASSUME ClientInv, Network
  PROVE  /\ tr'.conn \in {"open", "failed"}
         /\ s2c # <<>> /\ s2c' = Tail(s2c) /\ tr'.conn = "failed" =>
              tr.conn = "open" /\ OnMessage(Head(s2c)).do = "bad"
<1>1. CASE ConnectionFails
  <2>1. tr'.conn = "failed" /\ s2c' = s2c
    BY <1>1 DEF ConnectionFails, Failing, ClientInv, Typed, TrStates
  <2>2. s2c # <<>> => Tail(s2c) # s2c
    <3> DEFINE rest == Tail(s2c)
    <3>1. s2c # <<>> => Len(rest) = Len(s2c) - 1 /\ Len(s2c) \in Nat \ {0}
      BY TailElements DEF ClientInv, Typed
    <3> HIDE DEF rest
    <3>2. s2c # <<>> => Len(rest) # Len(s2c)
      BY <3>1
    <3> QED BY <3>2 DEF rest
  <2> QED BY <2>1, <2>2
<1>2. CASE Deliver
  <2> DEFINE m == Head(s2c)
             seen == OnMessage(m)
  <2>1. /\ tr.conn = "open" /\ s2c # <<>>
        /\ (seen.do = "bad" /\ Failing) \/ (seen.do # "bad" /\ tr' = seen.tr)
    BY <1>2 DEF Deliver
  <2>2. m \in Downlink /\ Plausible(m)
    BY <2>1, TailElements DEF ClientInv, Typed, Incoming
  <2>3. seen.do # "bad" => seen.tr.conn = "open"
    BY <2>1, <2>2, MessageMeans
  <2>4. Failing => tr'.conn = "failed"
    BY DEF Failing, ClientInv, Typed, TrStates
  <2> HIDE DEF seen, m
  <2>5. /\ tr'.conn \in {"open", "failed"}
        /\ tr'.conn = "failed" => seen.do = "bad"
    BY <2>1, <2>3, <2>4
  <2> QED BY <2>1, <2>5 DEF seen, m
<1> QED
  BY <1>1, <1>2 DEF Network

LEMMA ServerLeaves == ServerStep => UNCHANGED tr
<1>1. ServerReceives \/ ServerRetires => UNCHANGED tr
  BY Zenon DEF ServerReceives, ServerRetires
<1>2. \A m, s : Produce(m, s) => UNCHANGED tr
  BY DEF Produce, transport
<1>3. AnswerStarts \/ AudioStarts \/ AnswerDone \/ ProviderFails => UNCHANGED tr
  BY <1>2, Zenon DEF AnswerStarts, AudioStarts, AnswerDone, ProviderFails
<1>4. AudioGoesOn => UNCHANGED tr
  BY <1>2, Zenon DEF AudioGoesOn
<1>5. Send \/ Retired => UNCHANGED tr
  BY DEF Send, Retired, transport
<1> QED
  BY <1>1, <1>3, <1>4, <1>5 DEF ServerStep, Forward

\* A connection opens on a transport that remembers nothing of the last one.
Fresh == tr.conn = "opening" => tr = Opening

LEMMA OpenDown ==
  ASSUME ClientInv, Fresh, Open
  PROVE  DownInv'
<1>1. /\ tr' = [tr EXCEPT !.conn = "open"] /\ sv' = NewServer /\ tr = Opening
      /\ c2s' = <<>> /\ s2c' = <<>>
  BY DEF Open, Fresh, ClientInv, Links, NotYetOpen
<1>2. /\ tr'.turn = 0 /\ tr'.response = 0 /\ ~tr'.session /\ ~tr'.active /\ ~tr'.discard
      /\ tr'.downlink = 0 /\ ~tr'.audio_started /\ ~tr'.audio_ended /\ ~tr'.cancel_sent
  BY <1>1 DEF Opening, NoTransport
<1>3. /\ Elements(c2s') = {} /\ Elements(s2c') = {} /\ Elements(sv'.sending) = {}
      /\ sv'.turn = 0
  BY <1>1, Sessions DEF Elements
<1>4. /\ Elements(c2s)' = {} /\ Elements(s2c)' = {} /\ Elements(sv.sending)' = {} /\ OnWay' = {}
  BY <1>3 DEF Elements, OnWay
<1>5. /\ Once(c2s', Hellos) /\ Once(s2c', Acks) /\ Once(c2s', Starts(tr'))
  BY <1>1 DEF Once
<1>6. Greeted'
  BY <1>2, <1>4, <1>5 DEF Greeted, Once, Hellos, Acks
<1>7. Named'
  BY <1>2, <1>3, <1>4 DEF Named
<1>8. Unheard'
  BY <1>4, <1>5 DEF Unheard, Once, Starts
<1>9. Answered(tr)' /\ ~Runs'
  BY <1>2 DEF Answered, Runs
<1> QED
  BY <1>6, <1>7, <1>8, <1>9 DEF DownInv

LEMMA BeginsOpen == \A id : SendTurnStart(id) => tr'.conn = "open"
BY DEF SendTurnStart, NoTransport

\* The step of another thread, and of nobody.
LEMMA FreshStays ==
  ASSUME ClientInv, Fresh, ClientSends \/ Network \/ Open \/ ServerStep \/ UNCHANGED vars
  PROVE  Fresh'
<1> SUFFICES ASSUME tr'.conn = "opening" PROVE tr' = Opening
  BY DEF Fresh
<1>1. CASE ClientSends
  <2>1. tr' # NoTransport /\ \A id \in Epochs : ~SendTurnStart(id)
    BY NewTransport, BeginsOpen
  <2>2. ~(tr.turn # 0 /\ SameAnswer(tr'))
    <3>1. Opening.turn = 0
      BY DEF Opening, NoTransport
    <3> QED BY <3>1 DEF SameAnswer, Fresh
  <2> QED BY <1>1, <2>1, <2>2 DEF ClientSends, Fresh
<1>2. CASE Network
  <2>1. tr'.conn \in {"open", "failed"}
    BY <1>2, NetworkEnds
  <2> QED BY <2>1
<1>3. CASE Open
  BY <1>3 DEF Open, ClientInv, Typed, TrStates
<1>4. CASE ServerStep \/ UNCHANGED vars
  <2>1. UNCHANGED tr
    BY <1>4, ServerLeaves DEF vars, transport
  <2> QED BY <2>1 DEF Fresh
<1> QED
  BY <1>1, <1>2, <1>3, <1>4

LineInv == SessionInv /\ Fresh /\ DownInv

LEMMA LineInit == Init => LineInv
<1> SUFFICES ASSUME Init PROVE LineInv
  OBVIOUS
<1>1. tr.conn = "none"
  BY NewTransport DEF Init, TransportInit
<1> QED
  BY <1>1, SessionInit DEF LineInv, Fresh, DownInv

LEMMA LineNext == LineInv /\ [Next]_vars => LineInv'
<1> SUFFICES ASSUME ClientInv, ServerInv, Fresh, DownInv, [Next]_vars PROVE Fresh' /\ DownInv'
  BY SessionNext DEF LineInv, SessionInv
<1>1. ClientInv'
  BY SessionNext DEF SessionInv
<1>2. CASE ClientStep
  <2>1. ClientSends /\ UNCHANGED <<sv, raced>>
    BY <1>2, ClientSteps DEF Sound, ClientStep
  <2> QED BY <1>1, <2>1, SendsDown, FreshStays
<1>3. CASE Network
  BY <1>3, NetworkDown, FreshStays
<1>4. CASE Open
  BY <1>4, OpenDown, FreshStays
<1>5. CASE ServerReceives
  BY <1>5, ReceivesDown, FreshStays DEF ServerStep
<1>6. CASE ServerRetires
  BY <1>6, RetiresDown, FreshStays DEF ServerStep
<1>7. CASE Forward
  <2>1. DownInv'
    BY <1>7, AnswerStartsDown, AudioStartsDown, AudioGoesOnDown, AnswerDoneDown,
       ProviderFailsDown, SendDown, RetiredDown DEF Forward
  <2> QED BY <1>7, <2>1, FreshStays DEF ServerStep
<1>8. CASE UNCHANGED vars
  <2>1. UNCHANGED <<tr, c2s, s2c, cut, cl, sv>>
    BY <1>8 DEF vars, transport, client
  <2>2. DownInv'
    <3> SUFFICES ASSUME tr.conn = "open" PROVE DownInv'
      BY <2>1 DEF DownInv
    <3>1. sv' = sv /\ s2c' = s2c
      BY <2>1
    <3> QED BY <2>1, AsideDown
  <2> QED BY <1>8, <2>2, FreshStays
<1> QED
  BY <1>2, <1>3, <1>4, <1>5, <1>6, <1>7, <1>8 DEF Next

LEMMA LineAlways == FairSpec => []LineInv
<1> QED
  BY LineInit, LineNext, PTL DEF FairSpec, Spec

\* The client gives a connection up only for cause. A message that the
\* transport takes for a protocol error (voice_transport.cpp 394-660) is about
\* a turn that the client cancelled or the server failed, whatever overtook
\* what on the way; and a send is refused (voice_client.cpp 501, 703, 724, 758,
\* 838) only for want of room, or because the transport has already seen the
\* end of the turn, or lost an event, that the application has yet to hear of.
THEOREM ConnectionLostForCause == FairSpec => LostForCause
<1>1. LineInv /\ [Next]_vars =>
        [tr.conn = "open" /\ s2c # <<>> /\ s2c' = Tail(s2c) /\ tr'.conn = "failed"
           => Head(s2c).id \in cut]_vars
  <2> SUFFICES ASSUME ClientInv, DownInv, [Next]_vars, tr.conn = "open", s2c # <<>>,
                      s2c' = Tail(s2c), tr'.conn = "failed"
               PROVE  Head(s2c).id \in cut
    BY DEF LineInv, SessionInv
  <2>1. CASE Network
    BY <2>1, NetworkEnds, OnlyCutIsBad
  <2>2. CASE ClientStep
    <3>1. ClientSends
      BY <2>2, ClientSteps DEF Sound
    <3>2. tr' # NoTransport /\ tr' # Opening /\ tr' # tr
      BY DEF NoTransport, Opening
    <3>3. ~SameAnswer(tr') /\ \A id \in Epochs : ~SendTurnStart(id)
      BY BeginsOpen DEF SameAnswer
    <3> QED BY <3>1, <3>2, <3>3 DEF ClientSends
  <2>3. ~Open
    BY DEF Open
  <2>4. ServerStep \/ UNCHANGED vars => tr' = tr
    BY ServerLeaves DEF vars, transport
  <2> QED BY <2>1, <2>2, <2>3, <2>4 DEF Next, ServerStep
<1>2. LineInv /\ [Next]_vars =>
        [tr.conn = "open" /\ tr'.conn = "none" /\ Refused => ~Room \/ Behind]_vars
  BY RefusalMeans DEF LineInv, SessionInv
<1>3. FairSpec => OnlyCutTurnsFail
  BY <1>1, LineAlways, PTL DEF FairSpec, Spec, OnlyCutTurnsFail
<1>4. FairSpec => RefusedOnlyWhenBehind
  BY <1>2, LineAlways, PTL DEF FairSpec, Spec, RefusedOnlyWhenBehind
<1> QED
  BY <1>3, <1>4, PTL DEF LostForCause
=============================================================================
