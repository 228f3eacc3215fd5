---------------------------- MODULE VoiceSession ----------------------------
(***************************************************************************)
(* The client and the device handler of the server                         *)
(* (server/internal/app/device_handler.go) over one WebSocket at a time.   *)
(*                                                                         *)
(* The server is DeviceHandler with its inside left out: the receive loop  *)
(* takes one message a step, and forwardEvents makes up a packet under the *)
(* lock and queues it in a step of its own, which a cancel can overtake.   *)
(* The connection can break at any moment; both ends then start again from *)
(* nothing, so sessions need no bound.                                     *)
(***************************************************************************)
EXTENDS VoiceClient

CONSTANT Gaps  \* whether the server's PCM may carry the discontinuity flag

ASSUME SessionAssumption == Gaps \in BOOLEAN

VARIABLES
  sv,    \* connectionState.turn of this session, and what is being sent
  raced  \* history: a turn.start met the last turn's response.done half done

vars == <<transport, client, sv, raced>>

NewServer ==
  [alive |-> TRUE, hello |-> FALSE, turn |-> 0, active |-> FALSE,
   started |-> FALSE, ended |-> FALSE, committed |-> FALSE,
   answer |-> "none", audio |-> 0, finishing |-> FALSE, sending |-> <<>>]

TypeOK ==
  /\ TransportTypeOK /\ ClientTypeOK
  /\ sv \in [alive : BOOLEAN, hello : BOOLEAN, turn : 0..MaxEpoch, active : BOOLEAN,
             started : BOOLEAN, ended : BOOLEAN, committed : BOOLEAN,
             answer : {"none", "started", "audio", "over"}, audio : 0..MaxAudio,
             finishing : BOOLEAN, sending : {<<>>} \cup {<<m>> : m \in Downlink}]
  /\ raced \in BOOLEAN

Init ==
  /\ TransportInit /\ ClientInit
  /\ sv = [NewServer EXCEPT !.alive = FALSE] /\ raced = FALSE

-----------------------------------------------------------------------------
\* The open handler: the server accepts and a session begins.
Open ==
  /\ tr.conn = "opening"
  /\ tr' = [tr EXCEPT !.conn = "open"]
  /\ sv' = NewServer /\ raced' = FALSE
  /\ UNCHANGED <<c2s, s2c, events, overflow, cut, client>>

Serving == tr.conn = "open" /\ sv.alive
Queue(m) == s2c' = Append(s2c, m)

\* Handle returns an error: a session error, then the socket closes.
ProtocolEnds(m) == Queue(Message("error", 0)) /\ sv' = [sv EXCEPT !.alive = FALSE] /\ UNCHANGED raced

Fence(s) == [s EXCEPT !.active = FALSE, !.finishing = FALSE]

OnHello(m) ==
  /\ Queue(Message("hello.ack", 0))
  /\ sv' = [sv EXCEPT !.hello = TRUE]
  /\ UNCHANGED raced

\* rejectTurnStart answers a start while a turn is active.
OnTurnStart(m) ==
  IF sv.active
  THEN Queue(Message("error", m.id)) /\ raced' = (raced \/ sv.finishing) /\ UNCHANGED sv
  ELSE /\ sv' = [NewServer EXCEPT !.hello = TRUE, !.turn = m.id, !.active = TRUE,
                                  !.sending = sv.sending]
       /\ UNCHANGED <<s2c, raced>>

\* retireActiveTurn.
Retire(m) ==
  /\ sv' = Fence(sv)
  /\ Queue(Message("error", sv.turn))
  /\ UNCHANGED raced

MutOnUplinkPcm(m) ==
  IF m.id # sv.turn \/ ~sv.active THEN ProtocolEnds(m)
  ELSE sv' = [sv EXCEPT !.started = TRUE, !.ended = "END" \in m.flags] /\ UNCHANGED <<s2c, raced>>

OnUplinkPcm(m) ==
  LET follows == ~sv.committed /\ ~sv.ended /\ ("START" \in m.flags) = ~sv.started
  IN IF m.id # sv.turn THEN ProtocolEnds(m)
     ELSE IF ~sv.active THEN UNCHANGED <<s2c, sv, raced>>
     ELSE IF ~follows THEN Retire(m)
     ELSE /\ sv' = [sv EXCEPT !.started = TRUE, !.ended = "END" \in m.flags]
          /\ UNCHANGED <<s2c, raced>>

OnCommit(m) ==
  IF m.id # sv.turn THEN ProtocolEnds(m)
  ELSE IF ~sv.active THEN UNCHANGED <<s2c, sv, raced>>
  ELSE IF sv.committed \/ ~sv.ended THEN Retire(m)
  ELSE sv' = [sv EXCEPT !.committed = TRUE] /\ UNCHANGED <<s2c, raced>>

MutOnCancel(m) ==
  IF m.id = sv.turn /\ sv.active
  THEN sv' = Fence(sv) /\ Queue(Message("cancelled", m.id)) /\ UNCHANGED raced
  ELSE UNCHANGED <<s2c, sv, raced>>

\* A cancel of another turn is ignored when none is active.
OnCancel(m) ==
  IF m.id = sv.turn
  THEN sv' = Fence(sv) /\ Queue(Message("cancelled", m.id)) /\ UNCHANGED raced
  ELSE IF ~sv.active THEN UNCHANGED <<s2c, sv, raced>> ELSE ProtocolEnds(m)

ServerReceives ==
  LET m == Head(c2s)
  IN /\ Serving /\ c2s # <<>>
     /\ c2s' = Tail(c2s)
     /\ CASE m.type = "hello"       -> OnHello(m)
          [] m.type = "turn.start"  -> OnTurnStart(m)
          [] m.type = "pcm"         -> OnUplinkPcm(m)
          [] m.type = "turn.commit" -> OnCommit(m)
          [] m.type = "cancel"      -> OnCancel(m)
     /\ UNCHANGED <<tr, events, overflow, cut, client>>

\* The turn fails while the receive loop has it: congestion, or a refusal of
\* the actor.
ServerRetires == Serving /\ sv.active /\ Retire(<<>>) /\ UNCHANGED <<tr, c2s, events, overflow, cut, client>>

-----------------------------------------------------------------------------
(* forwardEvents.                                                          *)

\* One goroutine: nothing else is made up before finishPacedResponse is done.
Answering == Serving /\ sv.active /\ sv.committed /\ sv.sending = <<>> /\ ~sv.finishing
Produce(m, s) == sv' = [s EXCEPT !.sending = <<m>>] /\ UNCHANGED <<transport, client, raced>>

AnswerStarts ==
  /\ Answering /\ sv.answer = "none"
  /\ Produce(Message("response.start", sv.turn), [sv EXCEPT !.answer = "started"])

AudioStarts ==
  /\ Answering /\ sv.answer = "started"
  /\ Produce(Message("audio_start", sv.turn), [sv EXCEPT !.answer = "audio"])

AudioGoesOn ==
  /\ Answering /\ sv.answer = "audio" /\ sv.audio < MaxAudio
  /\ \E end \in BOOLEAN, gap \in {{}, {"GAP"}} :
       /\ sv.audio + 1 = MaxAudio => end
       /\ gap = {} \/ Gaps
       /\ Produce(Pcm(sv.turn, sv.audio, (IF sv.audio = 0 THEN {"START"} ELSE {}) \cup gap
                                         \cup (IF end THEN {"END"} ELSE {})),
                  [sv EXCEPT !.audio = @ + 1, !.answer = IF end THEN "over" ELSE @])

\* finishPacedResponse sends response.done and only then retires the turn.
AnswerDone ==
  /\ Answering /\ sv.answer \in {"started", "over"}
  /\ Produce(Message("done", sv.turn), [sv EXCEPT !.finishing = TRUE])

\* EventError retires the turn first and sends then.
ProviderFails ==
  /\ Answering
  /\ Produce(Message("error", sv.turn), Fence(sv))

\* enqueue: a packet of a turn that is fenced by now may still go out, or be
\* given up; the provider's error is never given up.
Send ==
  /\ Serving /\ sv.sending # <<>>
  /\ LET m == sv.sending[1]
     IN \/ /\ Queue(m)
        \/ /\ ~(sv.active /\ sv.turn = m.id) /\ m.type # "error"
           /\ UNCHANGED s2c
  /\ sv' = [sv EXCEPT !.sending = <<>>]
  /\ UNCHANGED <<tr, c2s, events, overflow, cut, client, raced>>

Retired ==
  /\ Serving /\ sv.finishing /\ sv.sending = <<>>
  /\ sv' = Fence(sv)
  /\ UNCHANGED <<transport, client, raced>>

Forward == AnswerStarts \/ AudioStarts \/ AudioGoesOn \/ AnswerDone \/ ProviderFails \/ Send \/ Retired

-----------------------------------------------------------------------------
ClientStep == (Application \/ Deadlines \/ PlaybackEnds) /\ UNCHANGED <<sv, raced>>
Network == (Deliver \/ ConnectionFails) /\ UNCHANGED <<client, sv, raced>>

Next == ClientStep \/ Network \/ Open \/ ServerReceives \/ ServerRetires \/ Forward

Spec == Init /\ [][Next]_vars

\* Threads that have something to do get to do it. No deadline has to pass,
\* no connection has to break; one that the server has closed does.
FairSpec ==
  /\ Spec
  /\ WF_vars((HandleEvent \/ EventsOverflowed) /\ UNCHANGED <<sv, raced>>)
  /\ WF_vars((SendPreRoll \/ SendTurnCommit) /\ UNCHANGED <<sv, raced>>)
  /\ WF_vars(Deliver /\ UNCHANGED <<client, sv, raced>>)
  /\ WF_vars(ServerReceives) /\ WF_vars(Forward)
  /\ WF_vars(~sv.alive /\ s2c = <<>> /\ Network)

-----------------------------------------------------------------------------
\* A turn may be started whenever the state machine allows it: the transport
\* has then seen the end of the last one (voice_client.cpp 591-632 against
\* the guard of kTurnStart, voice_transport.cpp 287-290).
StartAllowed ==
  tr.conn = "open" /\ Session /\ cl.at = "loop"
    /\ cl.state \in {"WaitingForWake", "WaitingForSpeech", "WaitingForFollowUp"}
  => ~tr.active /\ tr.turn < cl.epoch

\* No event of an earlier turn waits in the queue: whatever ends a turn for
\* the application was the last event the transport let through
\* (IsStale and Discarding, voice_transport.cpp 394-401).
EventsAreCurrent == \A i \in 1..Len(events) : events[i].id \in {0, cl.epoch}

\* An answer that was cut, failed or lost with its connection is not
\* heard again: audio plays only in the states that own it
\* (DropPlayback in voice_client.cpp 461-509, 767-844).
NoStalePlayback ==
  playback \in {"active", "ending"} => cl.state \in {"PlayingResponse", "DrainingPlayback"}

\* Backpressure, aborts and barge-ins never make the client send what the
\* server ends the session for; only a start that meets the window between
\* response.done and the retirement of its turn can (device_handler.go 1003).
ServerNotOffended == tr.conn = "open" /\ ~sv.alive => raced

\* The client ends a connection for a protocol error only over a message of
\* a turn that was cut short, cancelled by itself or failed by the server: an
\* acknowledgement that crossed the turn's error, or a response.start or
\* error that the acknowledgement overtook (voice_transport.cpp 477-516).
OnlyCutTurnsFail ==
  [][tr.conn = "open" /\ s2c # <<>> /\ s2c' = Tail(s2c) /\ tr'.conn = "failed"
       => Head(s2c).id \in cut]_vars

\* A send that is refused costs the connection (voice_client.cpp 501, 703,
\* 724, 758, 838). It is refused only for want of room, or because the
\* transport has seen the end of the turn before the application has.
Behind == overflow \/ \E i \in 1..Len(events) : events[i].type \in {"done", "error"}
Refused ==
  \/ SendPreRoll \/ SendTurnCommit \/ Step(TouchInterrupt) \/ Step(TurnTimeout)
  \/ \E frame \in InScope : Step(OnFrame(frame))
RefusedOnlyWhenBehind ==
  [][tr.conn = "open" /\ tr'.conn = "none" /\ Refused => ~Room \/ Behind]_vars

\* Every cancel is answered (CompleteCancel, voice_client.cpp 632): the application leaves kCancelPending without
\* the help of its 3 s deadline.
CancelEnds == []<>~(Pending /\ running)

\* A connection that has failed, or that the server has given up, is let go,
\* whatever the event queue held or had lost (voice_client.cpp 484-493).
FailureNoticed ==
  tr.conn = "failed" \/ (tr.conn = "open" /\ ~sv.alive)
    ~> tr.conn = "none" \/ ~running

\* What the client knows of its turn is true of the connection it has now.
SessionSound == TypeOK /\ StartAllowed /\ EventsAreCurrent

\* The client gives a sound connection up only over a message about a turn it
\* has cut itself, or a refusal of its own transport while it is behind.
LostForCause == OnlyCutTurnsFail /\ RefusedOnlyWhenBehind
=============================================================================
