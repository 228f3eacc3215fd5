--------------------------- MODULE DeviceHandler ---------------------------
(***************************************************************************)
(* The device handler of the server (server/internal/app/device_handler.go)*)
(* after hello: the receive loop of Handle, which drives one turn at a     *)
(* time, and forwardEvents, the goroutine that paces the provider's answer *)
(* onto the wire. They share connectionState.turn under a lock and the     *)
(* session actor, here TurnSession, which SessionActor implements.         *)
(*                                                                         *)
(* Every lock section is one step, and so is every call that can wait: the *)
(* actor's operations and the second select of Connection.enqueue, where   *)
(* a cancelled downlinkCtx and room in the send queue may both be ready.   *)
(* A local read that another lock section only confirms is merged with it. *)
(*                                                                         *)
(* A turn is named by one number: the client numbers turn_id and epoch     *)
(* together, and the stream ids follow the turn. PCM is counted in units:  *)
(* a unit is a sample on the downlink. Text and response ids are left out; *)
(* the actor admits one response id per turn. The clock is the flag due:   *)
(* nextFrameAt has passed.                                                 *)
(***************************************************************************)
EXTENDS Naturals, Sequences, FiniteSets, SequencesExt

CONSTANTS
  MaxTurn,      \* largest turn number a client uses (bound of the model)
  InFrame,      \* inputFrameBytes
  InMax,        \* largest uplink payload
  OutFrame,     \* outputFrameBytes
  MaxBuffered,  \* downlinkMaxBufferedBytes
  MaxDelta,     \* maxProviderAudioDeltaBytes
  MaxAudio,     \* audio of one answer (bound of the model)
  OutCap,       \* events the actor can hold
  Orderly       \* whether the provider keeps to start, content, end

ASSUME HandlerAssumption ==
  /\ {MaxTurn, InFrame, InMax, OutFrame, MaxDelta, OutCap} \subseteq Nat \ {0}
  /\ MaxBuffered \in Nat /\ MaxAudio \in Nat /\ Orderly \in BOOLEAN
  /\ MaxBuffered >= MaxDelta + OutFrame

Resume == MaxBuffered - MaxDelta   \* downlinkReadResumeBytes

Turns == 1..MaxTurn

\* A delta of size 0 stands for audio that validateProviderAudio refuses.
Items == [kind : {"started", "text", "done", "error"}, n : {0}]
           \cup [kind : {"audio"}, n : 0..MaxDelta]
LastItems == {item \in Items : item.kind \in {"done", "error"}}

\* What the receive loop can be handed. ok: the payload is valid, or the PCM
\* header is, with its sequence number and without a discontinuity. Turn 0 is
\* an identity that matches no turn.
NoPCM == [flags |-> {}, n |-> 0]
Messages ==
  [type : {"turn.start", "turn.commit", "turn.cancel", "other"},
   id : 0..MaxTurn, ok : BOOLEAN, pcm : {NoPCM}]
  \cup [type : {"congestion"}, id : Turns, ok : {TRUE}, pcm : {NoPCM}]
  \cup [type : {"pcm"}, id : Turns, ok : {TRUE},
        pcm : [flags : SUBSET {"START", "END"}, n : 1..InMax]]
  \cup [type : {"pcm"}, id : 0..MaxTurn, ok : {FALSE}, pcm : {NoPCM}]
\* All that is kept of a message once it was handled is its turn.
Handled == [type : {"none"}, id : 0..MaxTurn, ok : {TRUE}, pcm : {NoPCM}]
NoMessage == [type |-> "none", id |-> 0, ok |-> TRUE, pcm |-> NoPCM]

\* What forwardEvents puts on the wire.
Packet == [type : {"response.start", "response.text_delta", "response.audio_start",
                   "response.done", "error"}, seq : {0}, end : {FALSE}, n : {0}]
           \cup [type : {"pcm"}, seq : Nat, end : BOOLEAN, n : 1..OutFrame]
Control(type) == [type |-> type, seq |-> 0, end |-> FALSE, n |-> 0]

VARIABLES
  phase, latest, epoch, hasFrames, out, closed,  \* the actor
  turn,     \* connectionState.turn
  stopped,  \* turns whose downlinkCtx is cancelled
  loop,     \* where the receive loop is, and with which message
  pacer,    \* pacedDownlink
  fwd,      \* where forwardEvents is, and the packet it is sending
  ended,    \* why the session is over, or "no"
  said,     \* history: what the provider has produced, per turn
  heard,    \* history: what forwardEvents queued, per turn
  late      \* history: how much of it after the turn's fence

actorVars == <<phase, latest, epoch, hasFrames, out, closed>>
history == <<said, heard, late>>
vars == <<phase, latest, epoch, hasFrames, out, closed,
          turn, stopped, loop, pacer, fwd, ended, said, heard, late>>

Actor == INSTANCE TurnSession WITH
  Epochs <- Turns, LossItem <- [kind |-> "error", n |-> 0]

NoTurn == [id |-> 0, active |-> FALSE, inputStarted |-> FALSE, inputEnded |-> FALSE,
           inputCommitted |-> FALSE, pendingPCM |-> 0,
           outputSequence |-> 0, outputStarted |-> FALSE]
NewTurn(t) == [NoTurn EXCEPT !.id = t, !.active = TRUE]

\* pacedDownlink.reset and begin; a zero nextFrameAt is due.
NoPacer == [turn |-> 0, pending |-> 0, providerDone |-> FALSE, wireFrames |-> 0, due |-> TRUE]
BegunFor(t) == [NoPacer EXCEPT !.turn = t]

AtRecv == [at |-> "recv", msg |-> NoMessage]
At(place) == [at |-> place, packet |-> Control("error"), turn |-> 0]

TypeOK ==
  /\ phase \in {"idle", "listening", "answering"}
  /\ latest \in 0..MaxTurn /\ epoch \in 0..MaxTurn
  /\ hasFrames \in BOOLEAN /\ closed \in BOOLEAN
  /\ out \in Seq([epoch : Turns, item : Items])
  /\ turn \in [id : 0..MaxTurn, active : BOOLEAN, inputStarted : BOOLEAN,
               inputEnded : BOOLEAN, inputCommitted : BOOLEAN,
               pendingPCM : 0..(InFrame - 1), outputSequence : Nat, outputStarted : BOOLEAN]
  /\ stopped \in SUBSET Turns
  /\ loop \in [at : {"recv", "handle", "append", "flush", "commit", "belongs",
                     "retire", "cancel"}, msg : Messages \cup Handled]
  /\ pacer \in [turn : 0..MaxTurn, pending : 0..MaxBuffered, providerDone : BOOLEAN,
                wireFrames : Nat, due : BOOLEAN]
  /\ fwd \in [at : {"top", "select", "push", "clear"}, packet : Packet, turn : 0..MaxTurn]
  /\ ended \in {"no", "peer", "protocol", "actor", "retired", "duplicate start",
                "out of order", "invalid audio", "overflow"}
  /\ said \in [Turns -> [started : BOOLEAN, text : BOOLEAN, audio : 0..MaxAudio]]
  /\ heard \in [Turns -> Seq(Packet)]
  /\ late \in [Turns -> Nat]

Init ==
  /\ Actor!Init
  /\ turn = NoTurn /\ stopped = {} /\ loop = AtRecv
  /\ pacer = NoPacer /\ fwd = At("top") /\ ended = "no"
  /\ said = [t \in Turns |-> [started |-> FALSE, text |-> FALSE, audio |-> 0]]
  /\ heard = [t \in Turns |-> <<>>]
  /\ late = [t \in Turns |-> 0]

Alive == ended = "no"
Active(t) == turn.active /\ turn.id = t     \* sameActiveTurn, belongsTo
End(why) == ended' = why

\* active = false, pendingPCM = nil, stopDownlink().
Fence ==
  /\ turn' = [turn EXCEPT !.active = FALSE, !.pendingPCM = 0]
  /\ stopped' = stopped \cup ({turn.id} \ {0})

-----------------------------------------------------------------------------
(* The receive loop. handle, belongs, retire and cancel are the separate   *)
(* lock sections and calls that one message can go through.                *)

ForwarderVars == <<pacer, fwd, history>>
Ready == Alive /\ loop.at = "recv"
Goto(place, id) == loop' = [at |-> place, msg |-> [NoMessage EXCEPT !.id = id]]
Msg == loop.msg

\* A retired turn's PCM and commit are dropped: pcmBelongsToRetiredTurn,
\* staleRetiredTurnControl. What passes is handled in a lock section of its
\* own.
Stale(m) == ~turn.active /\ m.id = turn.id /\ m.id # 0

Receive(m) ==
  /\ Ready /\ m.type \in {"pcm", "turn.commit"} /\ ~Stale(m)
  /\ loop' = [at |-> "handle", msg |-> m]
  /\ UNCHANGED <<actorVars, turn, stopped, ended, ForwarderVars>>

\* The peer leaves, the session idles out, or the server stops.
PeerGone ==
  /\ Ready
  /\ End("peer")
  /\ UNCHANGED <<actorVars, turn, stopped, loop, ForwarderVars>>

Handling(type) == Alive /\ loop.at = "handle" /\ Msg.type = type

\* An invalid turn.start, or one the actor refuses, is answered by
\* rejectTurnStart and changes nothing.
StartValid(m) == ~turn.active /\ m.id # 0 /\ m.ok

\* The previous turn's stopDownlink is called once more.
TurnStart(m) ==
  /\ Ready /\ m.type = "turn.start" /\ StartValid(m)
  /\ Actor!Start(m.id)
  /\ turn' = NewTurn(m.id)
  /\ stopped' = stopped \cup ({turn.id} \ {0})
  /\ UNCHANGED <<loop, ended, ForwarderVars>>

\* StartTurn fails with ErrClosed, which is not an invalid start.
TurnStartClosed(m) ==
  /\ Ready /\ m.type = "turn.start" /\ StartValid(m) /\ closed
  /\ Goto("belongs", m.id)
  /\ UNCHANGED <<actorVars, turn, stopped, ended, ForwarderVars>>

\* validateActiveEnvelope, the payload and validateUplinkCommit.
CommitValid ==
  /\ Active(Msg.id) /\ Msg.ok
  /\ ~turn.inputCommitted /\ turn.inputStarted /\ turn.inputEnded

\* handleControl works on a copy of the turn taken here.
TurnCommit ==
  /\ Handling("turn.commit")
  /\ Goto(IF CommitValid THEN "flush" ELSE "belongs", Msg.id)
  /\ UNCHANGED <<actorVars, turn, stopped, ended, ForwarderVars>>

MutFlushFinalInput ==
  /\ Alive /\ loop.at = "flush"
  /\ Goto("commit", Msg.id)
  /\ turn' = [turn EXCEPT !.pendingPCM = 0, !.inputCommitted = TRUE, !.active = TRUE]
  /\ UNCHANGED <<actorVars, stopped, ended, ForwarderVars>>

\* flushFinalInput pads the rest to a frame; then the copy is written back
\* whole, active included.
FlushFinalInput ==
  /\ Alive /\ loop.at = "flush"
  /\ \/ /\ IF turn.pendingPCM = 0 THEN UNCHANGED actorVars ELSE Actor!Append1(turn.id)
        /\ Goto("commit", Msg.id)
        /\ turn' = [turn EXCEPT !.pendingPCM = 0, !.inputCommitted = TRUE, !.active = TRUE]
     \/ /\ turn.pendingPCM # 0
        /\ Goto("belongs", Msg.id)
        /\ UNCHANGED <<actorVars, turn>>
  /\ UNCHANGED <<stopped, ended, ForwarderVars>>

\* The provider may refuse the commit.
CommitActor ==
  /\ Alive /\ loop.at = "commit"
  /\ \/ Actor!Commit(turn.id) /\ loop' = AtRecv
     \/ UNCHANGED actorVars /\ Goto("belongs", Msg.id)
  /\ UNCHANGED <<turn, stopped, ended, ForwarderVars>>

\* turn.cancel and response.cancel. A cancel of the current identity goes on
\* to the actor whether or not the turn is still active; one of another turn
\* is ignored when no turn is active.
TurnCancel(m) ==
  /\ Ready /\ m.type = "turn.cancel"
  /\ \/ /\ m.ok /\ m.id = turn.id /\ turn.id # 0
        /\ Fence
        /\ Goto("cancel", m.id)
     \/ /\ ~m.ok \/ (turn.active /\ m.id # turn.id)
        /\ Goto("belongs", m.id)
        /\ UNCHANGED <<turn, stopped>>
  /\ UNCHANGED <<actorVars, ended, ForwarderVars>>

Unsupported(m) ==
  /\ Ready /\ m.type = "other"
  /\ Goto("belongs", m.id)
  /\ UNCHANGED <<actorVars, turn, stopped, ended, ForwarderVars>>

\* handleTurnCongestion; a turn that never became active is only rejected.
TurnCongestion(m) ==
  /\ Ready /\ m.type = "congestion" /\ Active(m.id)
  /\ Goto("retire", m.id)
  /\ UNCHANGED <<actorVars, turn, stopped, ended, ForwarderVars>>

\* ValidateHeader and validateAndAdvanceUplinkFraming.
FramingValid(pcm) ==
  /\ ~turn.inputCommitted /\ ~turn.inputEnded
  /\ ("START" \in pcm.flags) = ~turn.inputStarted

HandlePCM ==
  LET total == turn.pendingPCM + Msg.pcm.n
  IN /\ Handling("pcm")
     /\ IF Active(Msg.id) /\ Msg.ok /\ FramingValid(Msg.pcm)
        THEN /\ turn' = [turn EXCEPT !.inputStarted = TRUE,
                                     !.inputEnded = "END" \in Msg.pcm.flags,
                                     !.pendingPCM = total % InFrame]
             /\ IF total >= InFrame THEN Goto("append", Msg.id) ELSE loop' = AtRecv
        ELSE /\ UNCHANGED turn
             /\ Goto("belongs", Msg.id)
     /\ UNCHANGED <<actorVars, stopped, ended, ForwarderVars>>

\* AppendPCM of the complete frames, outside the lock; it may be refused.
AppendInput ==
  /\ Alive /\ loop.at = "append"
  /\ \/ Actor!Append1(Msg.id) /\ loop' = AtRecv
     \/ UNCHANGED actorVars /\ Goto("belongs", Msg.id)
  /\ UNCHANGED <<turn, stopped, ended, ForwarderVars>>

\* controlBelongsToActiveTurn, pcmBelongsToActiveTurn: an error inside the
\* current turn costs the turn, any other the session.
BelongsToActiveTurn ==
  /\ Alive /\ loop.at = "belongs"
  /\ IF Active(Msg.id) THEN Goto("retire", Msg.id) /\ UNCHANGED ended
     ELSE End("protocol") /\ UNCHANGED loop
  /\ UNCHANGED <<actorVars, turn, stopped, ForwarderVars>>

\* retireActiveTurn returns the cause when the turn is no longer active.
RetireActiveTurn ==
  /\ Alive /\ loop.at = "retire"
  /\ IF turn.active THEN Fence /\ Goto("cancel", Msg.id) /\ UNCHANGED ended
     ELSE End("retired") /\ UNCHANGED <<turn, stopped, loop>>
  /\ UNCHANGED <<actorVars, ForwarderVars>>

MutCancelNoActor ==
  /\ Alive /\ loop.at = "cancel"
  /\ UNCHANGED <<actorVars, ended>>
  /\ loop' = AtRecv
  /\ UNCHANGED <<turn, stopped, ForwarderVars>>

\* actor.Cancel, then response.cancelled or the turn's error. In idle the
\* actor only discards the last response. A failed cancel ends the session.
CancelActor ==
  /\ Alive /\ loop.at = "cancel"
  /\ \/ /\ IF phase = "idle" THEN ~closed /\ UNCHANGED actorVars ELSE Actor!Cancel(turn.id)
        /\ loop' = AtRecv /\ UNCHANGED ended
     \/ UNCHANGED <<actorVars, loop>> /\ End("actor")
  /\ UNCHANGED <<turn, stopped, ForwarderVars>>

ReceiveLoop ==
  \/ TurnCommit \/ FlushFinalInput \/ CommitActor \/ HandlePCM \/ AppendInput
  \/ BelongsToActiveTurn \/ RetireActiveTurn \/ CancelActor

TakeMessage(m) ==
  \/ Receive(m) \/ TurnStart(m) \/ TurnStartClosed(m) \/ TurnCancel(m)
  \/ Unsupported(m) \/ TurnCongestion(m)

-----------------------------------------------------------------------------
(* forwardEvents.                                                          *)

LoopVars == <<phase, latest, epoch, hasFrames, closed, loop, said>>

Sending(packet, t) == fwd' = [at |-> "push", packet |-> packet, turn |-> t]

MutFresh == pacer

\* A pacer of a turn that is over is reset at the top of the loop.
Fresh == IF pacer.turn # 0 /\ ~Active(pacer.turn) THEN NoPacer ELSE pacer

MutPadded == Fresh

\* One silent sample carries END when every frame is already out.
Padded ==
  IF Fresh.providerDone /\ Fresh.pending = 0 /\ Fresh.wireFrames # 0
  THEN [Fresh EXCEPT !.pending = 1] ELSE Fresh

MutFrameReady(p) == p.pending >= OutFrame
MutFinal(p) == p.providerDone

FrameReady(p) == p.pending >= OutFrame \/ (p.providerDone /\ p.pending # 0)
FrameSize(p) == IF p.pending < OutFrame THEN p.pending ELSE OutFrame
Final(p) == p.providerDone /\ p.pending <= OutFrame

\* sendNextPacedFrame reserves the sequence number under the lock.
SendFrame(p) ==
  /\ turn' = [turn EXCEPT !.outputSequence = @ + 1]
  /\ Sending([type |-> "pcm", seq |-> turn.outputSequence, end |-> Final(p),
              n |-> FrameSize(p)], p.turn)

Top ==
  /\ Alive /\ fwd.at = "top"
  /\ pacer' = Padded
  /\ \/ /\ Padded.providerDone /\ Padded.pending = 0
        /\ Sending(Control("response.done"), Padded.turn)
        /\ UNCHANGED turn
     \/ /\ FrameReady(Padded) /\ Padded.due
        /\ SendFrame(Padded)
     \/ /\ ~(Padded.providerDone /\ Padded.pending = 0)
        /\ ~(FrameReady(Padded) /\ Padded.due)
        /\ fwd' = At("select")
        /\ UNCHANGED turn
  /\ UNCHANGED <<LoopVars, out, stopped, ended, heard, late>>

\* The frame's deadline passes; a waiting select is woken by its timer.
Due ==
  /\ Alive /\ ~pacer.due
  /\ pacer' = [pacer EXCEPT !.due = TRUE]
  /\ UNCHANGED <<actorVars, turn, stopped, loop, fwd, ended, history>>

TimerFires ==
  /\ Alive /\ fwd.at = "select" /\ FrameReady(pacer) /\ pacer.due
  /\ fwd' = At("top")
  /\ UNCHANGED <<LoopVars, out, turn, stopped, pacer, ended, heard, late>>

MutGateOpen == TRUE

\* providerEvents is nil while another delta might not fit.
GateOpen == pacer.turn = 0 \/ pacer.pending <= Resume

FailWith(why) == End(why) /\ UNCHANGED <<turn, stopped, pacer, fwd>>

Started ==
  IF pacer.turn # 0 THEN FailWith("duplicate start")
  ELSE /\ pacer' = BegunFor(turn.id)
       /\ Sending(Control("response.start"), turn.id)
       /\ UNCHANGED <<turn, stopped, ended>>

TextDelta ==
  IF ~Active(pacer.turn) THEN FailWith("out of order")
  ELSE /\ Sending(Control("response.text_delta"), turn.id)
       /\ UNCHANGED <<turn, stopped, pacer, ended>>

AudioDelta(n) ==
  IF n = 0 THEN FailWith("invalid audio")
  ELSE IF ~Active(pacer.turn) THEN FailWith("out of order")
  ELSE IF pacer.pending + n > MaxBuffered THEN FailWith("overflow")
  ELSE /\ pacer' = [pacer EXCEPT !.pending = @ + n]
       /\ turn' = [turn EXCEPT !.outputStarted = TRUE]
       /\ IF turn.outputStarted THEN fwd' = At("top")
          ELSE Sending(Control("response.audio_start"), turn.id)
       /\ UNCHANGED <<stopped, ended>>

Done ==
  IF ~Active(pacer.turn) THEN FailWith("out of order")
  ELSE /\ pacer' = [pacer EXCEPT !.providerDone = TRUE]
       /\ fwd' = At("top")
       /\ UNCHANGED <<turn, stopped, ended>>

\* The turn is fenced first; the error itself goes out under the session's
\* context.
ProviderError ==
  /\ Fence
  /\ Sending(Control("error"), turn.id)
  /\ pacer' = NoPacer
  /\ UNCHANGED ended

TakeEvent ==
  LET event == Head(out)
  IN /\ Alive /\ fwd.at = "select" /\ out # <<>> /\ GateOpen
     /\ out' = Tail(out)
     /\ IF ~Active(event.epoch)
        THEN fwd' = At("top") /\ UNCHANGED <<turn, stopped, pacer, ended>>
        ELSE CASE event.item.kind = "started" -> Started
               [] event.item.kind = "text"    -> TextDelta
               [] event.item.kind = "audio"   -> AudioDelta(event.item.n)
               [] event.item.kind = "done"    -> Done
               [] event.item.kind = "error"   -> ProviderError
     /\ UNCHANGED <<LoopVars, heard, late>>

StreamClosed ==
  /\ Alive /\ fwd.at = "select" /\ out = <<>> /\ closed /\ GateOpen
  /\ End("actor")
  /\ UNCHANGED <<LoopVars, out, turn, stopped, pacer, fwd, heard, late>>

\* What follows once the packet is in the send queue.
AfterPush(packet) ==
  \/ /\ packet.type = "pcm"
     /\ LET rest == [pacer EXCEPT !.pending = @ - packet.n,
                                  !.wireFrames = @ + 1, !.due = FALSE]
        IN IF packet.end /\ Active(fwd.turn)
           THEN pacer' = rest /\ Sending(Control("response.done"), fwd.turn)
           ELSE /\ pacer' = IF packet.end THEN NoPacer ELSE rest
                /\ fwd' = At("top")
  \/ /\ packet.type = "response.done"
     /\ fwd' = [fwd EXCEPT !.at = "clear"]
     /\ UNCHANGED pacer
  \/ /\ packet.type \notin {"pcm", "response.done"}
     /\ fwd' = At("top")
     /\ UNCHANGED pacer

\* The second select of Connection.enqueue takes the send queue.
Push ==
  /\ Alive /\ fwd.at = "push"
  /\ heard' = [heard EXCEPT ![fwd.turn] = Append(@, fwd.packet)]
  /\ late' = IF fwd.turn \in stopped /\ fwd.packet.type # "error"
             THEN [late EXCEPT ![fwd.turn] = @ + 1] ELSE late
  /\ AfterPush(fwd.packet)
  /\ UNCHANGED <<LoopVars, out, turn, stopped, ended>>

\* It takes the cancelled context instead; only a frame or a done resets the
\* pacer at once.
Drop ==
  /\ Alive /\ fwd.at = "push"
  /\ fwd.turn \in stopped /\ fwd.packet.type # "error"
  /\ fwd' = At("top")
  /\ pacer' = IF fwd.packet.type \in {"pcm", "response.done"} THEN NoPacer ELSE pacer
  /\ UNCHANGED <<LoopVars, out, turn, stopped, ended, heard, late>>

\* The last lock section of finishPacedResponse.
FinishPacedResponse ==
  /\ Alive /\ fwd.at = "clear"
  /\ IF Active(fwd.turn)
     THEN /\ turn' = [turn EXCEPT !.active = FALSE]
          /\ stopped' = stopped \cup {turn.id}
     ELSE UNCHANGED <<turn, stopped>>
  /\ pacer' = NoPacer
  /\ fwd' = At("top")
  /\ UNCHANGED <<LoopVars, out, ended, heard, late>>

ForwardEvents ==
  Top \/ TimerFires \/ TakeEvent \/ StreamClosed \/ Push \/ Drop \/ FinishPacedResponse

-----------------------------------------------------------------------------
(* The provider behind the actor.                                          *)

InOrder(item) ==
  item.kind = "error" \/ ((item.kind = "started") = ~said[epoch].started)

ProviderAnswers(item) ==
  /\ Len(out) < OutCap
  /\ Actor!Answer(item)
  /\ Orderly => InOrder(item) /\ (item.kind = "audio" => item.n # 0)
  /\ item.kind = "text" => ~said[epoch].text
  /\ said[epoch].audio + item.n <= MaxAudio
  /\ said' = [said EXCEPT ![epoch] =
                [started |-> @.started \/ item.kind = "started",
                 text |-> @.text \/ item.kind = "text",
                 audio |-> @.audio + item.n]]
  /\ UNCHANGED <<turn, stopped, loop, pacer, fwd, ended, heard, late>>

ActorCloses ==
  /\ Actor!Close
  /\ UNCHANGED <<turn, stopped, loop, pacer, fwd, ended, history>>

Next ==
  \/ \E m \in Messages : TakeMessage(m)
  \/ PeerGone \/ ReceiveLoop \/ ForwardEvents \/ Due
  \/ \E item \in Items : ProviderAnswers(item)
  \/ ActorCloses

Spec == Init /\ [][Next]_vars

(***************************************************************************)
(* Fairness: both goroutines are scheduled, a deadline passes, and the     *)
(* writer empties the send queue (part of the push). Nothing is assumed of *)
(* the client or of the provider.                                          *)
(***************************************************************************)
FairSpec == Spec /\ WF_vars(ReceiveLoop) /\ WF_vars(ForwardEvents) /\ WF_vars(Due)

-----------------------------------------------------------------------------
(* Properties.                                                             *)

Types(t) == {heard[t][i].type : i \in DOMAIN heard[t]}
Before(t, a, b) ==  \* some a precedes every b
  \A j \in DOMAIN heard[t] : heard[t][j].type = b =>
     \E i \in 1..(j - 1) : heard[t][i].type = a
Frames(t) == {i \in DOMAIN heard[t] : heard[t][i].type = "pcm"}
Units(t) == FoldLeft(LAMBDA sum, p : sum + p.n, 0, heard[t])

\* The wire of every turn reads as the client's strict receiver expects,
\* however cancels and retirements interleave with the pacing: start before
\* everything, audio_start before PCM, sequence numbers in order and without
\* a gap, END on no frame but the last, and done only once and only after the
\* END frame.
WireWellFormed ==
  \A t \in Turns :
    /\ Before(t, "response.start", "response.text_delta")
    /\ Before(t, "response.start", "response.audio_start")
    /\ Before(t, "response.audio_start", "pcm")
    /\ Before(t, "response.start", "response.done")
    /\ \A i, j \in Frames(t) :
         i < j => heard[t][i].seq < heard[t][j].seq /\ ~heard[t][i].end
    /\ \A i \in Frames(t) : \A s \in 0..(heard[t][i].seq - 1) :
         \E j \in Frames(t) : heard[t][j].seq = s
    /\ \A i \in DOMAIN heard[t] : heard[t][i].type = "response.done" =>
         /\ \A j \in DOMAIN heard[t] : j > i => heard[t][j].type \notin {"pcm", "response.done"}
         /\ Frames(t) # {} => \E j \in Frames(t) : heard[t][j].end

\* A turn whose response.done was queued had every sample of the provider's
\* answer queued before it, plus at most the one silent sample that END rides
\* on.
AudioComplete ==
  \A t \in Turns : "response.done" \in Types(t) =>
    Units(t) - said[t].audio \in {0, 1}

\* A cancelled or retired turn puts at most one more packet on the wire: the
\* one whose enqueue was already under way.
AtMostOneLate == \A t \in Turns : late[t] <= 1

\* The pacing buffer is never asked to hold more than it may: backpressure on
\* the provider, not the overflow error, is what bounds it.
NoOverflow == ended # "overflow"

\* When backpressure shuts the provider out there is a frame to send, so the
\* forwarder never waits with neither a timer nor a source of events.
NeverWaitsForNothing ==
  fwd.at = "select" /\ ~GateOpen => FrameReady(pacer)

\* Whenever the receive loop is ready for a message and no turn is active,
\* the actor is idle too: a new turn with a new number is never refused
\* because of the last one.
ActorFollowsHandler ==
  Alive /\ loop.at = "recv" /\ ~turn.active => phase = "idle" \/ closed

\* A commit that passed the handler's checks is never refused by the actor
\* for lack of audio or for its phase, however little audio there was.
CommitFindsAudio ==
  loop.at = "commit" => closed \/ Actor!CanCommit(turn.id)

\* What a turn owes both its sides: its checked input can be committed, its
\* answer fits the pacing buffer, and what is sent of it is well formed.
TurnSound == CommitFindsAudio /\ NoOverflow /\ WireWellFormed

\* An answer whose end has reached the actor's stream ends its turn, by
\* response.done, an error or a cancel, or the session ends.
AnswerEndsTurn ==
  \A t \in Turns :
    (\E i \in DOMAIN out : out[i].epoch = t /\ out[i].item \in LastItems)
      ~> (~Active(t) \/ ~Alive)

\* A provider that keeps to the order of events never costs a session
\* "provider emitted duplicate response.start".
NoFalseDuplicate == ended # "duplicate start"
=============================================================================
