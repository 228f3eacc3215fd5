------------------------- MODULE DeviceHandlerProofs -------------------------
(***************************************************************************)
(* Proofs about DeviceHandler for every number of turns, every buffer and  *)
(* frame size and every provider, in five invariants, each resting on the  *)
(* ones before it:                                                         *)
(*   IInv      the types, and the pacing buffer bounded by backpressure    *)
(*   OrderInv  the handler's turn, the actor's and the pacer's agree       *)
(*   LateInv   what may still reach the wire of a fenced turn              *)
(*   WireInv   what the pacer and the packet in flight say of the wire     *)
(*   AccountInv  what the provider said is on the wire or on its way there *)
(***************************************************************************)
EXTENDS DeviceHandler, SequenceTheorems, WellFoundedInduction, TLAPS

OutItem == [epoch : Turns, item : Items]

\* The conjuncts of TypeOK, one per component of the state.
ActorTypes ==
  /\ phase \in {"idle", "listening", "answering"}
  /\ latest \in 0..MaxTurn /\ epoch \in 0..MaxTurn
  /\ out \in Seq(OutItem)
ActorFlags == hasFrames \in BOOLEAN /\ closed \in BOOLEAN
TurnTypes ==
  turn \in [id : 0..MaxTurn, active : BOOLEAN, inputStarted : BOOLEAN,
            inputEnded : BOOLEAN, inputCommitted : BOOLEAN,
            pendingPCM : 0..(InFrame - 1), outputSequence : Nat, outputStarted : BOOLEAN]
LoopTypes ==
  loop \in [at : {"recv", "handle", "append", "flush", "commit", "belongs",
                  "retire", "cancel"}, msg : Messages \cup Handled]
Pacers == [turn : 0..MaxTurn, pending : 0..MaxBuffered, providerDone : BOOLEAN,
           wireFrames : Nat, due : BOOLEAN]
PacerTypes == pacer \in Pacers
FwdTypes ==
  fwd \in [at : {"top", "select", "push", "clear"}, packet : Packet, turn : 0..MaxTurn]
EndTypes ==
  ended \in {"no", "peer", "protocol", "actor", "retired", "duplicate start",
             "out of order", "invalid audio", "overflow"}
SaidTypes == said \in [Turns -> [started : BOOLEAN, text : BOOLEAN, audio : 0..MaxAudio]]
HeardTypes == heard \in [Turns -> Seq(Packet)] /\ late \in [Turns -> Nat]

\* What makes the types inductive: an actor in a turn has its epoch, the
\* active turn has a number, a pacer without a turn is empty, and the frame
\* being sent is still counted in the buffer.
ActiveEpoch == phase # "idle" => epoch \in Turns
Numbered == turn.active = TRUE => turn.id \in Turns
Empty(p) == p.turn = 0 => p.pending = 0 /\ p.providerDone = FALSE
IdlePacerEmpty == Empty(pacer)
FrameCounted ==
  fwd.at = "push" /\ fwd.packet.type = "pcm" => fwd.packet.n <= pacer.pending
NotOverflown == ended # "overflow"

ActorInv == ActorTypes /\ ActorFlags /\ ActiveEpoch
ReceiveInv == TurnTypes /\ stopped \in SUBSET Turns /\ LoopTypes /\ Numbered
PacingInv == PacerTypes /\ FwdTypes /\ IdlePacerEmpty /\ FrameCounted
EndInv == EndTypes /\ NotOverflown
HistoryInv == SaidTypes /\ HeardTypes

\* The flush and the commit of a turn happen under the number the handler
\* took its copy with, which is a turn's: CommitValid needs an active one.
CopyNumbered == loop.at = "flush" => turn.id \in Turns

IInv == ActorInv /\ ReceiveInv /\ PacingInv /\ EndInv /\ HistoryInv /\ CopyNumbered

-----------------------------------------------------------------------------
(* Facts about the constants and the operators.                            *)

\* A full buffer still leaves a whole frame when the provider is shut out.
LEMMA Sizes ==
  /\ MaxTurn \in Nat \ {0} /\ InFrame \in Nat \ {0} /\ InMax \in Nat \ {0}
  /\ OutFrame \in Nat \ {0} /\ MaxDelta \in Nat \ {0}
  /\ MaxBuffered \in Nat /\ MaxAudio \in Nat /\ MaxBuffered >= MaxDelta + OutFrame
  /\ Resume \in Nat /\ Resume >= OutFrame /\ Resume + MaxDelta = MaxBuffered
  /\ 0 \in 0..MaxTurn /\ Turns \subseteq 0..MaxTurn /\ 0 \notin Turns
  /\ \A t \in 0..MaxTurn : t # 0 => t \in Turns
<1>1. /\ MaxTurn \in Nat \ {0} /\ InFrame \in Nat \ {0} /\ InMax \in Nat \ {0}
      /\ OutFrame \in Nat \ {0} /\ MaxDelta \in Nat \ {0}
  BY HandlerAssumption DEF HandlerAssumption
<1>2. MaxBuffered \in Nat /\ MaxAudio \in Nat /\ MaxBuffered >= MaxDelta + OutFrame
  BY HandlerAssumption DEF HandlerAssumption
<1> QED
  BY <1>1, <1>2 DEF Resume, Turns

\* An element appended, taken or withdrawn leaves a queue of its type.
LEMMA QueueType ==
  ASSUME NEW S, NEW q \in Seq(S)
  PROVE  /\ \A x \in S : Append(q, x) \in Seq(S)
         /\ q # <<>> => /\ Head(q) \in S /\ Tail(q) \in Seq(S)
                        /\ SubSeq(q, 1, Len(q) - 1) \in Seq(S)
  OBVIOUS

\* Every call of the actor keeps the actor's state.
LEMMA ActorStep ==
  ASSUME ActorInv,
         \/ UNCHANGED actorVars
         \/ \E t \in Turns : Actor!Start(t)
         \/ Actor!Append1(turn.id) \/ Actor!Commit(turn.id) \/ Actor!Cancel(turn.id)
         \/ Actor!Append1(Msg.id)
         \/ \E item \in Items : Actor!Answer(item)
         \/ Actor!Close
  PROVE  ActorInv'
<1> USE Sizes DEF ActorInv, ActorTypes, ActorFlags, ActiveEpoch
<1>1. CASE UNCHANGED actorVars
  BY <1>1 DEF actorVars
<1>2. CASE \E t \in Turns : Actor!Start(t)
  BY <1>2 DEF Actor!Start
<1>3. CASE Actor!Append1(turn.id) \/ Actor!Append1(Msg.id)
  BY <1>3 DEF Actor!Append1
<1>4. CASE Actor!Commit(turn.id)
  BY <1>4 DEF Actor!Commit, Actor!CanCommit, Actor!CanAppend
<1>5. CASE Actor!Cancel(turn.id)
  <2>1. out' \in Seq(OutItem)
    BY <1>5, QueueType DEF Actor!Cancel, Actor!Withdrawn
  <2> QED
    BY <1>5, <2>1 DEF Actor!Cancel
<1>6. CASE \E item \in Items : Actor!Answer(item)
  <2> PICK item \in Items : Actor!Answer(item)
    BY <1>6
  <2>1. [epoch |-> epoch, item |-> item] \in OutItem
    BY DEF Actor!Answer, OutItem
  <2>2. out' \in Seq(OutItem)
    BY <2>1, QueueType DEF Actor!Answer
  <2> QED
    BY <2>2 DEF Actor!Answer
<1>7. CASE Actor!Close
  <2>1. phase # "idle" => [epoch |-> epoch, item |-> [kind |-> "error", n |-> 0]] \in OutItem
    BY DEF OutItem, Items
  <2>2. out' \in Seq(OutItem)
    <3> DEFINE loss == [epoch |-> epoch, item |-> [kind |-> "error", n |-> 0]]
    <3>1. out \in Seq(OutItem)
      OBVIOUS
    <3>2. \/ out' = out
          \/ out # <<>> /\ out' = SubSeq(out, 1, Len(out) - 1)
          \/ phase # "idle" /\ out' = Append(out, loss)
      BY <1>7, Zenon DEF Actor!Close
    <3> HIDE DEF ActorInv, ActorTypes, ActorFlags, ActiveEpoch
    <3> QED
      BY <2>1, <3>1, <3>2, QueueType
  <2> QED
    BY <1>7, <2>2 DEF Actor!Close
<1> QED
  BY <1>1, <1>2, <1>3, <1>4, <1>5, <1>6, <1>7

\* Fencing keeps the turn's record and adds its number to the stopped ones.
LEMMA FenceStep ==
  ASSUME ReceiveInv, Fence
  PROVE  TurnTypes' /\ stopped' \in SUBSET Turns /\ Numbered'
<1>1. TurnTypes
  BY DEF ReceiveInv
<1>2. turn.id \in 0..MaxTurn /\ 0 \in 0..(InFrame - 1)
  BY <1>1, Sizes DEF TurnTypes
<1>3. stopped' \in SUBSET Turns
  BY <1>2, Sizes DEF ReceiveInv, Fence
<1>4. TurnTypes'
  BY <1>1, <1>2 DEF TurnTypes, Fence
<1>5. turn'.active = FALSE
  BY <1>1 DEF TurnTypes, Fence
<1> QED
  BY <1>3, <1>4, <1>5 DEF Numbered

\* A new turn's record.
LEMMA NewTurnType ==
  ASSUME NEW t \in Turns, turn' = NewTurn(t)
  PROVE  TurnTypes' /\ Numbered'
<1> DEFINE Records ==
      [id : 0..MaxTurn, active : BOOLEAN, inputStarted : BOOLEAN,
       inputEnded : BOOLEAN, inputCommitted : BOOLEAN,
       pendingPCM : 0..(InFrame - 1), outputSequence : Nat, outputStarted : BOOLEAN]
<1>1. t \in 0..MaxTurn /\ 0 \in 0..MaxTurn /\ 0 \in 0..(InFrame - 1)
  BY Sizes
<1>2. NoTurn \in Records
  BY <1>1 DEF NoTurn
<1>3. [NoTurn EXCEPT !.id = t] \in Records /\ [NoTurn EXCEPT !.id = t].id = t
  BY <1>1, <1>2
<1>4. NewTurn(t) = [[NoTurn EXCEPT !.id = t] EXCEPT !.active = TRUE]
  BY DEF NewTurn
<1>5. NewTurn(t) \in Records /\ NewTurn(t).id = t
  BY <1>3, <1>4
<1> QED
  BY <1>5 DEF TurnTypes, Numbered

\* Going on with the message's number in the receive loop.
LEMMA GotoStep ==
  ASSUME NEW place \in {"recv", "handle", "append", "flush", "commit", "belongs",
                        "retire", "cancel"},
         NEW id \in 0..MaxTurn, Goto(place, id)
  PROVE  LoopTypes'
  BY Sizes DEF Goto, LoopTypes, Handled, NoMessage, NoPCM

\* A message in the receive loop has a turn, and PCM a size.
LEMMA MsgType ==
  ASSUME LoopTypes
  PROVE  Msg.id \in 0..MaxTurn /\ (Msg.type = "pcm" => Msg.pcm.n \in Nat)
<1>1. Msg \in Messages \cup Handled
  BY DEF LoopTypes, Msg
<1>2. Msg.id \in 0..MaxTurn
  BY <1>1, Sizes DEF Messages, Handled
<1>3. Msg.type = "pcm" => Msg.pcm = NoPCM \/ Msg.pcm \in [flags : SUBSET {"START", "END"}, n : 1..InMax]
  BY <1>1 DEF Messages, Handled
<1>4. NoPCM.n \in Nat /\ \A pcm \in [flags : SUBSET {"START", "END"}, n : 1..InMax] : pcm.n \in Nat
  BY Sizes DEF NoPCM
<1> QED
  BY <1>2, <1>3, <1>4

-----------------------------------------------------------------------------
(* The receive loop.                                                       *)

ReceiveKeeps == ActorInv' /\ ReceiveInv' /\ EndInv'

\* The messages the loop takes.
LEMMA TakeMessageStep ==
  ASSUME ActorInv, ReceiveInv, EndInv, NEW m \in Messages, TakeMessage(m)
  PROVE  ReceiveKeeps
<1> USE Sizes DEF ReceiveKeeps, EndInv, EndTypes, NotOverflown
<1>0. m.id \in 0..MaxTurn
  BY DEF Messages
<1>1. CASE Receive(m)
  <2>1. LoopTypes'
    BY <1>1 DEF Receive, LoopTypes
  <2>2. ActorInv'
    BY <1>1, ActorStep DEF Receive
  <2> QED
    BY <1>1, <2>1, <2>2 DEF Receive, ReceiveInv, TurnTypes, Numbered
<1>2. CASE TurnStart(m)
  <2>1. m.id \in Turns
    BY <1>0, <1>2 DEF TurnStart, StartValid
  <2>2. ActorInv'
    BY <1>2, <2>1, ActorStep DEF TurnStart
  <2>3. TurnTypes' /\ Numbered'
    BY <1>2, <2>1, NewTurnType DEF TurnStart
  <2>4. stopped' \in SUBSET Turns
    BY <1>2 DEF TurnStart, ReceiveInv, TurnTypes
  <2> QED
    BY <1>2, <2>2, <2>3, <2>4 DEF TurnStart, ReceiveInv, LoopTypes
<1>3. CASE TurnStartClosed(m) \/ Unsupported(m) \/ TurnCongestion(m)
  <2>1. ActorInv'
    BY <1>3, ActorStep DEF TurnStartClosed, Unsupported, TurnCongestion
  <2>2. LoopTypes'
    BY <1>0, <1>3, GotoStep DEF TurnStartClosed, Unsupported, TurnCongestion
  <2> QED
    BY <1>3, <2>1, <2>2 DEF TurnStartClosed, Unsupported, TurnCongestion, ReceiveInv,
                            TurnTypes, Numbered
<1>4. CASE TurnCancel(m)
  <2>1. ActorInv'
    BY <1>4, ActorStep DEF TurnCancel
  <2>2. LoopTypes'
    BY <1>0, <1>4, GotoStep DEF TurnCancel
  <2>3. TurnTypes' /\ stopped' \in SUBSET Turns /\ Numbered'
    <3>1. CASE Fence
      BY <3>1, FenceStep
    <3>2. CASE UNCHANGED <<turn, stopped>>
      BY <3>2 DEF ReceiveInv, TurnTypes, Numbered
    <3> QED
      BY <1>4, <3>1, <3>2 DEF TurnCancel
  <2> QED
    BY <1>4, <2>1, <2>2, <2>3 DEF TurnCancel, ReceiveInv
<1> QED
  BY <1>1, <1>2, <1>3, <1>4 DEF TakeMessage

\* Waiting for the next message.
LEMMA AtRecvStep ==
  ASSUME loop' = AtRecv
  PROVE  LoopTypes'
  BY Sizes DEF AtRecv, LoopTypes, Handled, NoMessage, NoPCM

\* Membership, as the value of a flag.
LEMMA MemberBoolean == ASSUME NEW x, NEW S PROVE (x \in S) \in BOOLEAN
  OBVIOUS

\* What is left of the input after its whole frames.
LEMMA Remainder ==
  /\ 0 \in 0..(InFrame - 1)
  /\ TurnTypes => \A n \in Nat : (turn.pendingPCM + n) % InFrame \in 0..(InFrame - 1)
<1>1. TurnTypes => turn.pendingPCM \in Nat
  BY Sizes DEF TurnTypes
<1> QED
  BY <1>1, Sizes

\* What PCM and a flushed commit do to the turn's record.
LEMMA InputStep ==
  ASSUME ReceiveInv,
         \/ turn' = [turn EXCEPT !.pendingPCM = 0, !.inputCommitted = TRUE, !.active = TRUE]
              /\ turn.id \in Turns
         \/ \E n \in Nat, e \in BOOLEAN :
              turn' = [turn EXCEPT !.inputStarted = TRUE, !.inputEnded = e,
                                   !.pendingPCM = (turn.pendingPCM + n) % InFrame]
         \/ UNCHANGED turn
  PROVE  TurnTypes' /\ Numbered'
<1> DEFINE Records ==
      [id : 0..MaxTurn, active : BOOLEAN, inputStarted : BOOLEAN,
       inputEnded : BOOLEAN, inputCommitted : BOOLEAN,
       pendingPCM : 0..(InFrame - 1), outputSequence : Nat, outputStarted : BOOLEAN]
<1>1. turn \in Records /\ Numbered
  BY DEF ReceiveInv, TurnTypes
<1>2. CASE turn' = [turn EXCEPT !.pendingPCM = 0, !.inputCommitted = TRUE, !.active = TRUE]
             /\ turn.id \in Turns
  <2>1. 0 \in 0..(InFrame - 1)
    BY Remainder
  <2>2. turn' \in Records /\ turn'.id = turn.id
    BY <1>1, <1>2, <2>1
  <2> QED
    BY <1>2, <2>2 DEF TurnTypes, Numbered
<1>3. ASSUME NEW n \in Nat, NEW e \in BOOLEAN,
             turn' = [turn EXCEPT !.inputStarted = TRUE, !.inputEnded = e,
                                  !.pendingPCM = (turn.pendingPCM + n) % InFrame]
      PROVE  TurnTypes' /\ Numbered'
  <2>1. (turn.pendingPCM + n) % InFrame \in 0..(InFrame - 1)
    BY Remainder DEF ReceiveInv
  <2>2. turn' \in Records /\ turn'.id = turn.id /\ turn'.active = turn.active
    BY <1>1, <1>3, <2>1
  <2> QED
    BY <1>1, <2>2 DEF TurnTypes, Numbered
<1> QED
  BY <1>1, <1>2, <1>3 DEF TurnTypes, Numbered

\* The steps of the loop on the message it has taken.
LEMMA ReceiveLoopStep ==
  ASSUME ActorInv, ReceiveInv, EndInv, CopyNumbered, ReceiveLoop
  PROVE  ReceiveKeeps
<1> USE Sizes, MsgType DEF ReceiveKeeps, EndInv, EndTypes, NotOverflown
<1>0. Msg.id \in 0..MaxTurn
  BY DEF ReceiveInv
<1>1. CASE TurnCommit
  <2>1. ActorInv'
    BY <1>1, ActorStep DEF TurnCommit
  <2>2. LoopTypes'
    BY <1>0, <1>1, GotoStep DEF TurnCommit
  <2> QED
    BY <1>1, <2>1, <2>2 DEF TurnCommit, ReceiveInv, TurnTypes, Numbered
<1>2. CASE FlushFinalInput
  <2>1. ActorInv'
    BY <1>2, ActorStep DEF FlushFinalInput
  <2>2. LoopTypes'
    BY <1>0, <1>2, GotoStep DEF FlushFinalInput
  <2>3. TurnTypes' /\ Numbered'
    BY <1>2, InputStep DEF FlushFinalInput, CopyNumbered
  <2> QED
    BY <1>2, <2>1, <2>2, <2>3 DEF FlushFinalInput, ReceiveInv
<1>3. CASE CommitActor
  <2>1. ActorInv'
    BY <1>3, ActorStep DEF CommitActor
  <2>2. LoopTypes'
    BY <1>0, <1>3, GotoStep, AtRecvStep DEF CommitActor
  <2> QED
    BY <1>3, <2>1, <2>2 DEF CommitActor, ReceiveInv, TurnTypes, Numbered
<1>4. CASE HandlePCM
  <2>1. ActorInv'
    BY <1>4, ActorStep DEF HandlePCM
  <2>2. LoopTypes'
    BY <1>0, <1>4, GotoStep, AtRecvStep DEF HandlePCM
  <2>3. Msg.pcm.n \in Nat
    BY <1>4 DEF HandlePCM, Handling, ReceiveInv
  <2>4. \/ UNCHANGED turn
        \/ \E e \in BOOLEAN :
             turn' = [turn EXCEPT !.inputStarted = TRUE, !.inputEnded = e,
                                  !.pendingPCM = (turn.pendingPCM + Msg.pcm.n) % InFrame]
    <3>1. ("END" \in Msg.pcm.flags) \in BOOLEAN
      BY MemberBoolean
    <3> QED
      BY <1>4, <3>1, Zenon DEF HandlePCM
  <2>5. TurnTypes' /\ Numbered'
    BY <2>3, <2>4, InputStep
  <2> QED
    BY <1>4, <2>1, <2>2, <2>5 DEF HandlePCM, ReceiveInv
<1>5. CASE AppendInput
  <2>1. ActorInv'
    BY <1>5, ActorStep DEF AppendInput
  <2>2. LoopTypes'
    BY <1>0, <1>5, GotoStep, AtRecvStep DEF AppendInput
  <2> QED
    BY <1>5, <2>1, <2>2 DEF AppendInput, ReceiveInv, TurnTypes, Numbered
<1>6. CASE BelongsToActiveTurn
  <2>1. ActorInv'
    BY <1>6, ActorStep DEF BelongsToActiveTurn
  <2>2. LoopTypes'
    BY <1>0, <1>6, GotoStep DEF BelongsToActiveTurn, ReceiveInv, LoopTypes
  <2> QED
    BY <1>6, <2>1, <2>2 DEF BelongsToActiveTurn, End, ReceiveInv, TurnTypes, Numbered
<1>7. CASE RetireActiveTurn
  <2>1. ActorInv'
    BY <1>7, ActorStep DEF RetireActiveTurn
  <2>2. LoopTypes'
    BY <1>0, <1>7, GotoStep DEF RetireActiveTurn, ReceiveInv, LoopTypes
  <2>3. TurnTypes' /\ stopped' \in SUBSET Turns /\ Numbered'
    <3>1. CASE turn.active
      BY <1>7, <3>1, FenceStep DEF RetireActiveTurn
    <3>2. CASE ~turn.active
      BY <1>7, <3>2 DEF RetireActiveTurn, ReceiveInv, TurnTypes, Numbered
    <3> QED
      BY <3>1, <3>2
  <2> QED
    BY <1>7, <2>1, <2>2, <2>3 DEF RetireActiveTurn, End, ReceiveInv
<1>8. CASE CancelActor
  <2>1. ActorInv'
    BY <1>8, ActorStep DEF CancelActor
  <2>2. LoopTypes'
    BY <1>8, AtRecvStep DEF CancelActor, ReceiveInv, LoopTypes
  <2> QED
    BY <1>8, <2>1, <2>2 DEF CancelActor, End, ReceiveInv, TurnTypes, Numbered
<1> QED
  BY <1>1, <1>2, <1>3, <1>4, <1>5, <1>6, <1>7, <1>8 DEF ReceiveLoop

-----------------------------------------------------------------------------
(* forwardEvents.                                                          *)

ForwardKeeps ==
  TurnTypes' /\ stopped' \in SUBSET Turns /\ Numbered' /\ PacingInv' /\ EndInv'

\* The pacers forwardEvents builds.
LEMMA NoPacerType == NoPacer \in Pacers /\ Empty(NoPacer)
  BY Sizes DEF NoPacer, Pacers, Empty

LEMMA BegunType ==
  ASSUME NEW t \in Turns
  PROVE  BegunFor(t) \in Pacers /\ Empty(BegunFor(t))
  BY NoPacerType, Sizes DEF BegunFor, NoPacer, Pacers, Empty

\* The top of the loop resets or pads a pacer; the one sample of padding fits.
LEMMA PaddedType ==
  ASSUME PacerTypes, IdlePacerEmpty
  PROVE  Padded \in Pacers /\ Empty(Padded)
<1>1. Fresh \in Pacers /\ Empty(Fresh)
  BY NoPacerType DEF Fresh, PacerTypes, IdlePacerEmpty
<1>2. 1 \in 0..MaxBuffered
  BY Sizes
<1>3. CASE Fresh.providerDone /\ Fresh.pending = 0 /\ Fresh.wireFrames # 0
  <2>1. Fresh.turn # 0
    BY <1>1, <1>3 DEF Empty
  <2>2. Padded = [Fresh EXCEPT !.pending = 1]
    BY <1>3 DEF Padded
  <2>3. Padded \in Pacers /\ Padded.turn = Fresh.turn
    BY <1>1, <1>2, <2>2 DEF Pacers
  <2> QED
    BY <2>1, <2>3 DEF Empty
<1> QED
  BY <1>1, <1>3 DEF Padded

\* Going to a place where no packet is being sent, or sending a control.
LEMMA PlaceStep ==
  ASSUME NEW place \in {"top", "select", "push", "clear"}, fwd' = At(place)
  PROVE  FwdTypes' /\ fwd'.packet.type # "pcm"
  BY Sizes DEF At, Control, FwdTypes, Packet

LEMMA ControlStep ==
  ASSUME NEW type \in {"response.start", "response.text_delta", "response.audio_start",
                       "response.done", "error"},
         NEW t \in 0..MaxTurn, Sending(Control(type), t)
  PROVE  FwdTypes' /\ fwd'.packet.type # "pcm"
  BY DEF Sending, Control, FwdTypes, Packet

\* The flag of the last frame, as a value.
LEMMA FinalBoolean == ASSUME NEW p PROVE Final(p) \in BOOLEAN
  BY DEF Final

\* A frame is not empty, not larger than a frame, and still in the buffer.
LEMMA FrameStep ==
  ASSUME TurnTypes, NEW p \in Pacers, FrameReady(p), SendFrame(p)
  PROVE  /\ TurnTypes' /\ FwdTypes' /\ fwd'.packet.n <= p.pending
         /\ turn'.id = turn.id /\ turn'.active = turn.active
<1>1. p.pending \in Nat /\ p.turn \in 0..MaxTurn /\ p.pending >= 1
  BY Sizes DEF Pacers, FrameReady
<1>2. FrameSize(p) \in 1..OutFrame /\ FrameSize(p) <= p.pending
  BY <1>1, Sizes DEF FrameSize
<1>3. turn.outputSequence \in Nat
  BY DEF TurnTypes
<1>4. [type |-> "pcm", seq |-> turn.outputSequence, end |-> Final(p), n |-> FrameSize(p)]
        \in [type : {"pcm"}, seq : Nat, end : BOOLEAN, n : 1..OutFrame]
  BY <1>2, <1>3, FinalBoolean
<1>5. FwdTypes' /\ fwd'.packet.n = FrameSize(p)
  BY <1>1, <1>4 DEF SendFrame, Sending, FwdTypes, Packet
<1>6. TurnTypes' /\ turn'.id = turn.id /\ turn'.active = turn.active
  BY <1>3 DEF TurnTypes, SendFrame
<1> QED
  BY <1>2, <1>5, <1>6

\* The top of the loop.
LEMMA TopStep ==
  ASSUME ReceiveInv, PacingInv, EndInv, Top
  PROVE  ForwardKeeps
<1> USE DEF ForwardKeeps
<1>1. Padded \in Pacers /\ Empty(Padded)
  BY PaddedType DEF PacingInv
<1>2. PacerTypes' /\ IdlePacerEmpty'
  BY <1>1 DEF Top, PacerTypes, IdlePacerEmpty, Empty
<1>3. EndInv' /\ stopped' \in SUBSET Turns
  BY DEF Top, EndInv, EndTypes, NotOverflown, ReceiveInv
<1>4. Padded.turn \in 0..MaxTurn
  BY <1>1 DEF Pacers
<1>5. CASE Sending(Control("response.done"), Padded.turn) /\ UNCHANGED turn
  <2>1. FwdTypes' /\ fwd'.packet.type # "pcm"
    BY <1>4, <1>5, ControlStep
  <2> QED
    BY <1>2, <1>3, <1>5, <2>1 DEF PacingInv, FrameCounted, ReceiveInv, TurnTypes, Numbered
<1>6. CASE FrameReady(Padded) /\ SendFrame(Padded)
  <2>1. /\ TurnTypes' /\ FwdTypes' /\ fwd'.packet.n <= Padded.pending
        /\ turn'.id = turn.id /\ turn'.active = turn.active
    BY <1>1, <1>6, FrameStep DEF ReceiveInv
  <2>2. FrameCounted'
    BY <2>1 DEF Top, FrameCounted
  <2> QED
    BY <1>2, <1>3, <2>1, <2>2 DEF PacingInv, ReceiveInv, Numbered
<1>7. CASE fwd' = At("select") /\ UNCHANGED turn
  <2>1. FwdTypes' /\ fwd'.packet.type # "pcm"
    BY <1>7, PlaceStep
  <2> QED
    BY <1>2, <1>3, <1>7, <2>1 DEF PacingInv, FrameCounted, ReceiveInv, TurnTypes, Numbered
<1> QED
  BY <1>5, <1>6, <1>7 DEF Top

\* An event of the actor's stream, and what shutting the provider out implies:
\* the next audio fits.
LEMMA TakenEvent ==
  ASSUME ActorInv, PacingInv, out # <<>>, GateOpen
  PROVE  /\ Head(out).epoch \in Turns /\ Head(out).item \in Items
         /\ Head(out).item.kind = "audio" =>
              Head(out).item.n \in 0..MaxDelta
                /\ pacer.pending + Head(out).item.n \in 0..MaxBuffered
<1>1. Head(out) \in OutItem
  BY QueueType DEF ActorInv, ActorTypes
<1>2. Head(out).item.n \in 0..MaxDelta
  BY <1>1, Sizes DEF OutItem, Items
<1>3. pacer.pending \in Nat /\ pacer.pending <= Resume
  BY Sizes DEF PacingInv, PacerTypes, Pacers, IdlePacerEmpty, Empty, GateOpen
<1> QED
  BY <1>1, <1>2, <1>3, Sizes DEF OutItem

\* Accepted audio is counted, and the first of a turn is announced.
LEMMA AudioStep ==
  ASSUME ReceiveInv, PacingInv, EndInv, NEW n \in 0..MaxDelta,
         pacer.pending + n \in 0..MaxBuffered, fwd.at = "select", AudioDelta(n)
  PROVE  ForwardKeeps
<1> USE DEF ForwardKeeps
<1>1. TurnTypes /\ PacerTypes /\ FwdTypes /\ Numbered /\ IdlePacerEmpty
  BY DEF ReceiveInv, PacingInv
<1>2. CASE n = 0 \/ ~Active(pacer.turn)
  BY <1>1, <1>2 DEF AudioDelta, FailWith, End, ReceiveInv, PacingInv, EndInv, EndTypes,
    NotOverflown, TurnTypes, Numbered, PacerTypes, FwdTypes, IdlePacerEmpty, FrameCounted
<1>3. CASE n # 0 /\ Active(pacer.turn)
  <2>1. ~(pacer.pending + n > MaxBuffered) /\ pacer.turn \in Turns /\ turn.id \in 0..MaxTurn
    BY <1>1, <1>3, Sizes DEF Active, Numbered, TurnTypes, PacerTypes, Pacers
  <2>2. /\ pacer' = [pacer EXCEPT !.pending = @ + n]
        /\ turn' = [turn EXCEPT !.outputStarted = TRUE]
        /\ UNCHANGED <<stopped, ended>>
        /\ fwd' = At("top") \/ Sending(Control("response.audio_start"), turn.id)
    BY <1>3, <2>1 DEF AudioDelta
  <2>3. pacer' \in Pacers /\ pacer'.turn = pacer.turn
    BY <1>1, <2>2 DEF PacerTypes, Pacers
  <2>4. TurnTypes' /\ turn'.id = turn.id /\ turn'.active = turn.active
    BY <1>1, <2>2 DEF TurnTypes
  <2>5. FwdTypes' /\ fwd'.packet.type # "pcm"
    BY <2>1, <2>2, PlaceStep, ControlStep
  <2>6. IdlePacerEmpty' /\ FrameCounted' /\ Numbered'
    BY <1>1, <2>1, <2>3, <2>4, <2>5, Sizes DEF IdlePacerEmpty, Empty, FrameCounted, Numbered
  <2> QED
    BY <2>2, <2>3, <2>4, <2>5, <2>6 DEF ReceiveInv, PacingInv, PacerTypes, EndInv, EndTypes,
                                        NotOverflown
<1> QED
  BY <1>2, <1>3

\* One event of the actor's stream.
LEMMA TakeEventStep ==
  ASSUME ActorInv, ReceiveInv, PacingInv, EndInv, TakeEvent
  PROVE  ForwardKeeps
<1> DEFINE event == Head(out)
<1> USE DEF ForwardKeeps
<1>0. /\ event.epoch \in Turns /\ fwd.at = "select"
      /\ event.item.kind = "audio" => event.item.n \in 0..MaxDelta
                                      /\ pacer.pending + event.item.n \in 0..MaxBuffered
  BY TakenEvent DEF TakeEvent
<1>1. /\ TurnTypes /\ PacerTypes /\ FwdTypes /\ Numbered /\ IdlePacerEmpty
      /\ turn.id \in 0..MaxTurn /\ stopped \in SUBSET Turns
  BY DEF ReceiveInv, PacingInv, TurnTypes
<1> DEFINE Kept == TurnTypes' /\ stopped' \in SUBSET Turns /\ Numbered' /\ PacerTypes'
                     /\ IdlePacerEmpty' /\ EndInv'
<1>2. ASSUME UNCHANGED <<turn, stopped, pacer, ended>>
      PROVE  Kept
  BY <1>1, <1>2 DEF TurnTypes, Numbered, PacerTypes, IdlePacerEmpty, Empty, EndInv, EndTypes,
                    NotOverflown
<1>3. ASSUME FailWith("duplicate start") \/ FailWith("out of order")
      PROVE  ForwardKeeps
  BY <1>1, <1>3 DEF FailWith, End, ReceiveInv, PacingInv, EndInv, EndTypes, NotOverflown,
    TurnTypes, Numbered, PacerTypes, FwdTypes, IdlePacerEmpty, FrameCounted
<1>4. CASE fwd' = At("top") /\ UNCHANGED <<turn, stopped, pacer, ended>>
  BY <1>2, <1>4, PlaceStep DEF PacingInv, FrameCounted
<1>5. CASE Active(event.epoch) /\ Started
  <2>1. turn.id \in Turns
    BY <1>0, <1>5 DEF Active
  <2>2. CASE pacer.turn = 0
    <3>1. pacer' = BegunFor(turn.id) /\ Sending(Control("response.start"), turn.id)
            /\ UNCHANGED <<turn, stopped, ended>>
      BY <1>5, <2>2 DEF Started
    <3>2. PacerTypes' /\ IdlePacerEmpty'
      BY <2>1, <3>1, BegunType DEF PacerTypes, IdlePacerEmpty, Empty
    <3>3. FwdTypes' /\ FrameCounted'
      BY <1>1, <3>1, ControlStep DEF FrameCounted
    <3> QED
      BY <1>1, <3>1, <3>2, <3>3 DEF PacingInv, EndInv, EndTypes, NotOverflown, TurnTypes, Numbered
  <2> QED
    BY <1>3, <1>5, <2>2 DEF Started
<1>6. CASE TextDelta
  <2>1. CASE Sending(Control("response.text_delta"), turn.id)
               /\ UNCHANGED <<turn, stopped, pacer, ended>>
    BY <1>1, <1>2, <2>1, ControlStep DEF PacingInv, FrameCounted
  <2> QED
    BY <1>3, <1>6, <2>1 DEF TextDelta
<1>7. CASE event.item.kind = "audio" /\ AudioDelta(event.item.n)
  BY <1>0, <1>7, AudioStep
<1>8. CASE Done
  <2>1. CASE Active(pacer.turn)
    <3>1. /\ pacer' = [pacer EXCEPT !.providerDone = TRUE]
          /\ fwd' = At("top") /\ UNCHANGED <<turn, stopped, ended>>
      BY <1>8, <2>1 DEF Done
    <3>2. pacer' \in Pacers /\ pacer'.turn = pacer.turn /\ pacer.turn # 0
      BY <1>1, <2>1, <3>1, Sizes DEF PacerTypes, Pacers, Active, Numbered, TurnTypes
    <3>3. FwdTypes' /\ FrameCounted'
      BY <3>1, PlaceStep DEF FrameCounted
    <3> QED
      BY <1>1, <3>1, <3>2, <3>3 DEF PacingInv, PacerTypes, IdlePacerEmpty, Empty, EndInv,
        EndTypes, NotOverflown, TurnTypes, Numbered
  <2> QED
    BY <1>3, <1>8, <2>1 DEF Done
<1>9. CASE ProviderError
  <2>1. TurnTypes' /\ stopped' \in SUBSET Turns /\ Numbered'
    BY <1>9, FenceStep DEF ProviderError
  <2>2. FwdTypes' /\ FrameCounted'
    BY <1>1, <1>9, ControlStep DEF ProviderError, FrameCounted
  <2>3. PacerTypes' /\ IdlePacerEmpty'
    BY <1>9, NoPacerType DEF ProviderError, PacerTypes, IdlePacerEmpty, Empty
  <2> QED
    BY <1>9, <2>1, <2>2, <2>3 DEF ProviderError, PacingInv, EndInv, EndTypes, NotOverflown
<1>10. event.item.kind \in {"started", "text", "audio", "done", "error"}
  BY TakenEvent DEF TakeEvent, Items
<1> QED
  BY <1>4, <1>5, <1>6, <1>7, <1>8, <1>9, <1>10 DEF TakeEvent

\* A frame on the wire is not empty.
LEMMA FrameOnWire ==
  ASSUME NEW packet \in Packet, packet.type = "pcm"
  PROVE  packet.n \in Nat \ {0}
<1>1. packet \in [type : {"pcm"}, seq : Nat, end : BOOLEAN, n : 1..OutFrame]
  BY DEF Packet
<1> QED
  BY <1>1, Sizes

\* A pacer after a frame that was in it.
LEMMA SpentType ==
  ASSUME NEW p \in Pacers, NEW n \in Nat, n <= p.pending
  PROVE  LET rest == [p EXCEPT !.pending = @ - n, !.wireFrames = @ + 1, !.due = FALSE]
         IN  rest \in Pacers /\ rest.turn = p.turn
<1> DEFINE rest == [p EXCEPT !.pending = p.pending - n, !.wireFrames = p.wireFrames + 1,
                             !.due = FALSE]
<1>1. p.pending - n \in 0..MaxBuffered /\ p.wireFrames + 1 \in Nat
  BY Sizes DEF Pacers
<1>2. rest \in Pacers /\ rest.turn = p.turn
  BY <1>1 DEF Pacers
<1> QED
  BY <1>2

\* A packet taken by the send queue: what was sent leaves the buffer.
LEMMA PushStep ==
  ASSUME ReceiveInv, PacingInv, EndInv, HistoryInv, Push
  PROVE  ForwardKeeps /\ HistoryInv'
<1> USE DEF ForwardKeeps
<1>1. /\ TurnTypes /\ PacerTypes /\ FwdTypes /\ Numbered /\ IdlePacerEmpty
      /\ fwd.turn \in 0..MaxTurn /\ fwd.packet \in Packet /\ FrameCounted
  BY DEF ReceiveInv, PacingInv, FwdTypes
<1>2. TurnTypes' /\ stopped' \in SUBSET Turns /\ Numbered' /\ EndInv' /\ SaidTypes'
  BY DEF Push, LoopVars, ReceiveInv, TurnTypes, Numbered, EndInv, EndTypes, NotOverflown,
         HistoryInv, SaidTypes
<1>3. HeardTypes'
  <2>1. heard \in [Turns -> Seq(Packet)] /\ late \in [Turns -> Nat]
    BY DEF HistoryInv, HeardTypes
  <2>2. heard' \in [Turns -> Seq(Packet)]
    <3>1. fwd.turn \in Turns => Append(heard[fwd.turn], fwd.packet) \in Seq(Packet)
      BY <1>1, <2>1, QueueType
    <3>2. heard' = [heard EXCEPT ![fwd.turn] = Append(heard[fwd.turn], fwd.packet)]
      BY DEF Push
    <3> QED
      BY <2>1, <3>1, <3>2
  <2>3. late' \in [Turns -> Nat]
    <3>1. fwd.turn \in Turns => late[fwd.turn] + 1 \in Nat
      BY <2>1
    <3>2. late' = late \/ late' = [late EXCEPT ![fwd.turn] = late[fwd.turn] + 1]
      BY DEF Push
    <3> QED
      BY <2>1, <3>1, <3>2
  <2> QED
    BY <2>2, <2>3 DEF HeardTypes
<1>4. CASE fwd.packet.type = "pcm"
  <2> DEFINE rest == [pacer EXCEPT !.pending = @ - fwd.packet.n,
                                   !.wireFrames = @ + 1, !.due = FALSE]
  <2>1. fwd.packet.n \in Nat \ {0} /\ fwd.packet.n <= pacer.pending
    BY <1>1, <1>4, FrameOnWire DEF FrameCounted, Push
  <2>2. pacer.pending \in 0..MaxBuffered /\ pacer.pending # 0
    BY <1>1, <2>1, Sizes DEF PacerTypes, Pacers
  <2>3. pacer.turn \in Turns
    BY <1>1, <2>2, Sizes DEF IdlePacerEmpty, Empty, PacerTypes, Pacers
  <2>4. rest \in Pacers /\ rest.turn = pacer.turn
    BY <1>1, <2>1, SpentType DEF PacerTypes
  <2>5. Empty(rest)
    BY <2>3, <2>4, Sizes DEF Empty
  <2>6. pacer' = rest \/ pacer' = NoPacer
    BY <1>4 DEF Push, AfterPush
  <2>7. PacerTypes' /\ IdlePacerEmpty'
    BY <2>4, <2>5, <2>6, NoPacerType DEF PacerTypes, IdlePacerEmpty, Empty
  <2>8. Sending(Control("response.done"), fwd.turn) \/ fwd' = At("top")
    BY <1>4 DEF Push, AfterPush
  <2>9. FwdTypes' /\ fwd'.packet.type # "pcm"
    BY <1>1, <2>8, PlaceStep, ControlStep
  <2> QED
    BY <1>2, <1>3, <2>7, <2>9 DEF PacingInv, FrameCounted, HistoryInv
<1>5. CASE fwd.packet.type # "pcm"
  <2>1. fwd' = [fwd EXCEPT !.at = "clear"] \/ fwd' = At("top")
    BY <1>5 DEF Push, AfterPush
  <2>2. FwdTypes' /\ fwd'.packet.type # "pcm"
    <3>1. CASE fwd' = [fwd EXCEPT !.at = "clear"]
      BY <1>1, <1>5, <3>1 DEF FwdTypes
    <3> QED
      BY <2>1, <3>1, PlaceStep
  <2>3. PacerTypes' /\ IdlePacerEmpty'
    BY <1>1, <1>5 DEF Push, AfterPush, PacerTypes, IdlePacerEmpty, Empty
  <2> QED
    BY <1>2, <1>3, <2>2, <2>3 DEF PacingInv, FrameCounted, HistoryInv
<1> QED
  BY <1>4, <1>5

\* The other steps of the loop change the pacer to an empty one at most.
LEMMA DropStep ==
  ASSUME ReceiveInv, PacingInv, EndInv, Drop \/ FinishPacedResponse
  PROVE  ForwardKeeps
<1> USE DEF ForwardKeeps
<1>1. TurnTypes /\ Numbered /\ PacerTypes /\ IdlePacerEmpty /\ fwd.turn \in 0..MaxTurn
  BY DEF ReceiveInv, PacingInv, FwdTypes
<1>2. PacerTypes' /\ IdlePacerEmpty'
  BY <1>1, NoPacerType DEF Drop, FinishPacedResponse, PacerTypes, IdlePacerEmpty, Empty
<1>3. FwdTypes' /\ FrameCounted'
  BY PlaceStep DEF Drop, FinishPacedResponse, FrameCounted
<1>4. EndInv'
  BY DEF Drop, FinishPacedResponse, EndInv, EndTypes, NotOverflown
<1>5. TurnTypes' /\ stopped' \in SUBSET Turns /\ Numbered'
  <2>1. CASE UNCHANGED <<turn, stopped>>
    BY <1>1, <2>1 DEF TurnTypes, Numbered, ReceiveInv
  <2>2. CASE /\ Active(fwd.turn) /\ turn' = [turn EXCEPT !.active = FALSE]
             /\ stopped' = stopped \cup {turn.id}
    <3>1. turn.active = TRUE
      BY <1>1, <2>2 DEF Active, TurnTypes
    <3>2. turn.id \in Turns
      BY <1>1, <3>1 DEF Numbered
    <3>3. TurnTypes' /\ turn'.active = FALSE
      BY <1>1, <2>2 DEF TurnTypes
    <3> QED
      BY <2>2, <3>2, <3>3 DEF ReceiveInv, Numbered
  <2> QED
    BY <2>1, <2>2 DEF Drop, FinishPacedResponse
<1> QED
  BY <1>2, <1>3, <1>4, <1>5 DEF PacingInv

\* A deadline, a timer, and the end of the actor's stream.
LEMMA WakeStep ==
  ASSUME ReceiveInv, PacingInv, EndInv, Due \/ TimerFires \/ StreamClosed
  PROVE  ForwardKeeps
<1> USE DEF ForwardKeeps
<1>1. TurnTypes' /\ stopped' \in SUBSET Turns /\ Numbered'
  BY DEF Due, TimerFires, StreamClosed, ReceiveInv, TurnTypes, Numbered
<1>2. EndInv'
  BY DEF Due, TimerFires, StreamClosed, End, EndInv, EndTypes, NotOverflown
<1>3. PacerTypes' /\ IdlePacerEmpty' /\ pacer'.pending = pacer.pending
  BY DEF Due, TimerFires, StreamClosed, PacingInv, PacerTypes, Pacers, IdlePacerEmpty, Empty
<1>4. FwdTypes' /\ FrameCounted'
  <2>1. CASE fwd' = At("top")
    BY <2>1, PlaceStep DEF FrameCounted
  <2>2. CASE UNCHANGED fwd
    BY <1>3, <2>2 DEF PacingInv, FwdTypes, FrameCounted
  <2> QED
    BY <2>1, <2>2 DEF Due, TimerFires, StreamClosed
<1> QED
  BY <1>1, <1>2, <1>3, <1>4 DEF PacingInv

-----------------------------------------------------------------------------
(* The whole handler.                                                      *)

\* Every step of forwardEvents.
LEMMA ForwardStep ==
  ASSUME IInv, ForwardEvents
  PROVE  /\ ForwardKeeps /\ ActorInv' /\ LoopTypes' /\ HistoryInv'
         /\ UNCHANGED loop /\ turn'.id = turn.id
<1> USE DEF IInv
<1>1. ForwardKeeps
  BY TopStep, TakeEventStep, PushStep, DropStep, WakeStep DEF ForwardEvents
<1>2. UNCHANGED LoopVars
  BY DEF ForwardEvents, Top, TimerFires, TakeEvent, StreamClosed, Push, Drop, FinishPacedResponse
<1>3. out' = out \/ (out # <<>> /\ out' = Tail(out))
  BY DEF ForwardEvents, Top, TimerFires, TakeEvent, StreamClosed, Push, Drop, FinishPacedResponse
<1>4. ActorInv'
  <2>1. out' \in Seq(OutItem)
    BY <1>3, QueueType DEF ActorInv, ActorTypes
  <2> QED
    BY <1>2, <2>1 DEF LoopVars, ActorInv, ActorTypes, ActorFlags, ActiveEpoch
<1>5. LoopTypes' /\ UNCHANGED loop
  BY <1>2 DEF LoopVars, ReceiveInv, LoopTypes
<1>6. HistoryInv'
  <2>1. CASE Push
    BY <2>1, PushStep
  <2>2. CASE UNCHANGED <<heard, late>>
    BY <1>2, <2>2 DEF LoopVars, HistoryInv, SaidTypes, HeardTypes
  <2> QED
    BY <2>1, <2>2 DEF ForwardEvents, Top, TimerFires, TakeEvent, StreamClosed, Drop,
                      FinishPacedResponse
<1>7. turn'.id = turn.id
  <2>0. TurnTypes
    BY DEF ReceiveInv
  <2>1. CASE Top
    BY <2>0, <2>1 DEF Top, SendFrame, TurnTypes
  <2>2. CASE TakeEvent
    <3>1. \/ UNCHANGED turn \/ Fence \/ turn' = [turn EXCEPT !.outputStarted = TRUE]
      <4>1. \A n \in Nat : AudioDelta(n) => 
              UNCHANGED turn \/ turn' = [turn EXCEPT !.outputStarted = TRUE]
        BY DEF AudioDelta, FailWith
      <4>2. Started \/ TextDelta \/ Done => UNCHANGED turn
        BY DEF Started, TextDelta, Done, FailWith
      <4>3. Head(out).item.kind = "audio" => Head(out).item.n \in Nat
        BY <2>2, TakenEvent, Sizes DEF TakeEvent
      <4>4. Head(out).item.kind \in {"started", "text", "audio", "done", "error"}
        BY <2>2, TakenEvent DEF TakeEvent, Items
      <4> QED
        BY <2>2, <4>1, <4>2, <4>3, <4>4 DEF TakeEvent, ProviderError
    <3> QED
      BY <2>0, <3>1 DEF Fence, TurnTypes
  <2>3. CASE TimerFires \/ StreamClosed \/ Push \/ Drop \/ FinishPacedResponse
    BY <2>0, <2>3 DEF TimerFires, StreamClosed, Push, Drop, FinishPacedResponse, TurnTypes
  <2> QED
    BY <2>1, <2>2, <2>3 DEF ForwardEvents
<1> QED
  BY <1>1, <1>4, <1>5, <1>6, <1>7

\* A step that leaves the forwarder and the histories alone.
LEMMA ForwarderAlone ==
  ASSUME PacingInv, HistoryInv, UNCHANGED ForwarderVars
  PROVE  PacingInv' /\ HistoryInv'
  BY DEF ForwarderVars, history, PacingInv, PacerTypes, FwdTypes, IdlePacerEmpty, Empty,
         FrameCounted, HistoryInv, SaidTypes, HeardTypes

\* The handler's copy stays a turn's: nobody else changes a turn's number, and
\* a new turn starts only where the loop takes a message.
LEMMA CopyStep ==
  ASSUME ReceiveInv, CopyNumbered,
         \/ \E m \in Messages : TakeMessage(m)
         \/ ReceiveLoop
         \/ UNCHANGED loop /\ turn'.id = turn.id
  PROVE  CopyNumbered'
<1> USE DEF CopyNumbered
<1>1. CASE \E m \in Messages : TakeMessage(m)
  <2>1. loop'.at # "flush"
    BY <1>1 DEF TakeMessage, Receive, TurnStart, TurnStartClosed, TurnCancel, Unsupported,
                TurnCongestion, Ready, Goto, LoopTypes, ReceiveInv
  <2> QED
    BY <2>1
<1>2. CASE TurnCommit
  <2>1. CASE CommitValid
    <3>1. turn.active = TRUE
      BY <2>1 DEF CommitValid, Active, ReceiveInv, TurnTypes
    <3> QED
      BY <1>2, <3>1 DEF TurnCommit, ReceiveInv, Numbered
  <2>2. CASE ~CommitValid
    BY <1>2, <2>2 DEF TurnCommit, Goto
  <2> QED
    BY <2>1, <2>2
<1>3. CASE ReceiveLoop /\ ~TurnCommit
  <2>1. loop'.at # "flush"
    BY <1>3 DEF ReceiveLoop, FlushFinalInput, CommitActor, HandlePCM, AppendInput,
                BelongsToActiveTurn, RetireActiveTurn, CancelActor, Goto, AtRecv
  <2> QED
    BY <2>1
<1> QED
  BY <1>1, <1>2, <1>3

\* The initial state.
LEMMA InitIInv == Init => IInv
<1> SUFFICES ASSUME Init PROVE IInv
  OBVIOUS
<1>1. ActorInv
  <2>1. /\ phase = "idle" /\ latest = 0 /\ epoch = 0 /\ hasFrames = FALSE
        /\ out = <<>> /\ closed = FALSE
    BY DEF Init, Actor!Init
  <2>2. out \in Seq(OutItem)
    BY <2>1
  <2> QED
    BY <2>1, <2>2, Sizes DEF ActorInv, ActorTypes, ActorFlags, ActiveEpoch
<1>2. ReceiveInv /\ CopyNumbered
  <2>1. TurnTypes /\ turn.active = FALSE
    BY Sizes, Remainder DEF Init, NoTurn, TurnTypes
  <2>2. LoopTypes /\ loop.at = "recv"
    BY Sizes DEF Init, AtRecv, LoopTypes, Handled, NoMessage, NoPCM
  <2>3. stopped \in SUBSET Turns
    BY DEF Init
  <2> QED
    BY <2>1, <2>2, <2>3 DEF ReceiveInv, CopyNumbered, Numbered
<1>3. PacingInv
  <2>1. FwdTypes /\ fwd.packet.type # "pcm"
    BY Sizes DEF Init, At, Control, FwdTypes, Packet
  <2>2. PacerTypes /\ IdlePacerEmpty
    BY NoPacerType DEF Init, PacerTypes, IdlePacerEmpty
  <2> QED
    BY <2>1, <2>2 DEF PacingInv, FrameCounted
<1>4. EndInv
  BY DEF Init, EndInv, EndTypes, NotOverflown
<1>5. HistoryInv
  BY Sizes DEF Init, HistoryInv, SaidTypes, HeardTypes
<1> QED
  BY <1>1, <1>2, <1>3, <1>4, <1>5 DEF IInv


\* The provider's answers are counted in the history.
LEMMA AnswerStep ==
  ASSUME IInv, NEW item \in Items, ProviderAnswers(item)
  PROVE  ActorInv' /\ HistoryInv'
<1>1. ActorInv'
  BY ActorStep DEF IInv, ProviderAnswers
<1>2. HeardTypes'
  BY DEF IInv, HistoryInv, HeardTypes, ProviderAnswers
<1>3. SaidTypes'
  <2> DEFINE Saids == [started : BOOLEAN, text : BOOLEAN, audio : 0..MaxAudio]
             was == said[epoch]
             now == [started |-> was.started \/ item.kind = "started",
                     text |-> was.text \/ item.kind = "text",
                     audio |-> was.audio + item.n]
  <2>1. said \in [Turns -> Saids] /\ epoch \in Turns
    BY DEF IInv, ActorInv, ActiveEpoch, HistoryInv, SaidTypes, ProviderAnswers, Actor!Answer
  <2>2. was \in Saids
    BY <2>1
  <2>3. was.audio + item.n \in 0..MaxAudio
    <3>1. item.n \in Nat
      BY Sizes DEF Items
    <3>2. was.audio + item.n <= MaxAudio
      BY DEF ProviderAnswers
    <3> QED
      BY <2>2, <3>1, <3>2, Sizes
  <2>4. now \in Saids
    BY <2>3
  <2>5. said' = [said EXCEPT ![epoch] = now]
    BY <2>1, <2>2 DEF ProviderAnswers
  <2> QED
    BY <2>1, <2>4, <2>5 DEF SaidTypes
<1> QED
  BY <1>1, <1>2, <1>3 DEF HistoryInv

\* Every step keeps the invariant.
LEMMA NextIInv == IInv /\ [Next]_vars => IInv'
<1> SUFFICES ASSUME IInv, [Next]_vars PROVE IInv'
  OBVIOUS
<1> USE DEF IInv
<1>1. CASE \E m \in Messages : TakeMessage(m)
  <2> PICK m \in Messages : TakeMessage(m)
    BY <1>1
  <2>1. UNCHANGED ForwarderVars
    BY DEF TakeMessage, Receive, TurnStart, TurnStartClosed, TurnCancel, Unsupported,
           TurnCongestion
  <2> QED
    BY <2>1, TakeMessageStep, ForwarderAlone, CopyStep DEF ReceiveKeeps
<1>2. CASE ReceiveLoop
  <2>1. UNCHANGED ForwarderVars
    BY <1>2 DEF ReceiveLoop, TurnCommit, FlushFinalInput, CommitActor, HandlePCM, AppendInput,
                BelongsToActiveTurn, RetireActiveTurn, CancelActor
  <2> QED
    BY <1>2, <2>1, ReceiveLoopStep, ForwarderAlone, CopyStep DEF ReceiveKeeps
<1>3. CASE ForwardEvents
  BY <1>3, ForwardStep, CopyStep DEF ForwardKeeps, ReceiveInv
<1>4. CASE \E item \in Items : ProviderAnswers(item)
  <2> PICK item \in Items : ProviderAnswers(item)
    BY <1>4
  <2>1. ActorInv' /\ HistoryInv'
    BY AnswerStep
  <2>2. UNCHANGED <<turn, stopped, loop, pacer, fwd, ended>>
    BY DEF ProviderAnswers
  <2>3. ReceiveInv' /\ CopyNumbered'
    BY <2>2 DEF ReceiveInv, TurnTypes, LoopTypes, Numbered, CopyNumbered
  <2>4. PacingInv'
    BY <2>2 DEF PacingInv, PacerTypes, FwdTypes, IdlePacerEmpty, Empty, FrameCounted
  <2>5. EndInv'
    BY <2>2 DEF EndInv, EndTypes, NotOverflown
  <2> QED
    BY <2>1, <2>3, <2>4, <2>5
<1>5. CASE PeerGone \/ ActorCloses \/ UNCHANGED vars
  <2>1. ActorInv'
    BY <1>5, ActorStep DEF PeerGone, ActorCloses, vars, actorVars
  <2>2. UNCHANGED <<turn, stopped, loop, pacer, fwd, history>>
    BY <1>5 DEF PeerGone, ActorCloses, vars, ForwarderVars, history
  <2>3. EndInv'
    BY <1>5 DEF PeerGone, ActorCloses, vars, End, EndInv, EndTypes, NotOverflown
  <2>4. UNCHANGED ForwarderVars
    BY <2>2 DEF ForwarderVars
  <2> QED
    BY <2>1, <2>2, <2>3, <2>4, ForwarderAlone
      DEF ReceiveInv, TurnTypes, LoopTypes, Numbered, CopyNumbered
<1>6. CASE Due
  <2>1. ForwardKeeps
    BY <1>6, WakeStep
  <2>2. ActorInv'
    BY <1>6, ActorStep DEF Due
  <2> QED
    BY <1>6, <2>1, <2>2 DEF Due, ForwardKeeps, ReceiveInv, LoopTypes, CopyNumbered, history,
                            HistoryInv, SaidTypes, HeardTypes
<1> QED
  BY <1>1, <1>2, <1>3, <1>4, <1>5, <1>6 DEF Next

LEMMA SpecIInv == Spec => []IInv
  BY InitIInv, NextIInv, PTL DEF Spec

\* Every component of the handler has its type, whatever the numbers of turns
\* and the sizes of frames and buffers are.
THEOREM HandlerTypes == Spec => []TypeOK
<1>1. IInv => TypeOK
  <2> SUFFICES ASSUME IInv PROVE TypeOK
    OBVIOUS
  <2>1. ActorInv /\ ReceiveInv /\ PacingInv /\ EndInv /\ HistoryInv
    BY DEF IInv
  <2>2. hasFrames \in BOOLEAN /\ closed \in BOOLEAN
    BY <2>1 DEF ActorInv, ActorFlags
  <2> QED
    BY <2>1, <2>2 DEF ActorInv, ActorTypes, OutItem, ReceiveInv, TurnTypes, LoopTypes, PacingInv,
      PacerTypes, Pacers, FwdTypes, EndInv, EndTypes, HistoryInv, SaidTypes, HeardTypes, TypeOK
<1> QED
  BY <1>1, SpecIInv, PTL

\* The pacing buffer never overflows: TakeEvent is guarded by providerEvents
\* being nil above Resume, and Resume leaves room for the largest delta
\* (forwardEvents, device_handler.go:804 and 855).
THEOREM BufferBounded == Spec => []NoOverflow
<1>1. IInv => NoOverflow
  BY DEF IInv, EndInv, NotOverflown, NoOverflow
<1> QED
  BY <1>1, SpecIInv, PTL

\* A forwarder whose provider is shut out has a whole frame to send: the
\* buffer is above Resume, and Resume is at least a frame.
THEOREM NeverStuckPacing == Spec => []NeverWaitsForNothing
<1>1. IInv => NeverWaitsForNothing
  <2> SUFFICES ASSUME IInv, ~GateOpen PROVE FrameReady(pacer)
    BY DEF NeverWaitsForNothing
  <2>1. pacer.pending \in Nat /\ ~(pacer.pending <= Resume)
    BY Sizes DEF IInv, PacingInv, PacerTypes, Pacers, GateOpen
  <2> QED
    BY <2>1, Sizes DEF FrameReady
<1> QED
  BY <1>1, SpecIInv, PTL

-----------------------------------------------------------------------------
(***************************************************************************)
(* The order of turns. A commit that flushed its input writes back a copy  *)
(* of the turn that is active, and may so revive a turn that the forwarder *)
(* has fenced in between. What keeps that harmless is that an uncommitted  *)
(* turn is silent: nothing of it is in the actor's stream, unless the      *)
(* session is lost.                                                        *)
(***************************************************************************)

\* The handler's turn is the actor's newest, and nothing is of a later one.
Numbers ==
  /\ turn.id = latest
  /\ phase # "idle" => epoch = latest
  /\ \A i \in DOMAIN out : out[i].epoch <= latest
  /\ \A t \in stopped : t <= latest
  /\ pacer.turn <= latest /\ fwd.turn <= latest

\* What is on its way to the send queue is of the pacer's turn; an error is
\* of a fenced one; the end of an answer was heard before it is sent.
Carrying == fwd.at = "push" /\ fwd.packet.type # "error"
Carries ==
  /\ Carrying \/ fwd.at = "clear" => fwd.turn = pacer.turn /\ fwd.turn # 0
  /\ fwd.at = "push" /\ ~Carrying => fwd.turn \in stopped
  /\ Carrying /\ (fwd.packet.type = "response.done" \/ fwd.packet.end = TRUE)
       => pacer.providerDone = TRUE
  /\ fwd.at = "clear" => pacer.providerDone = TRUE

\* Where the receive loop is says what it has done to the turn's input.
LoopPlaces ==
  /\ loop.at = "flush" => turn.id # 0 /\ turn.inputCommitted = FALSE /\ turn.inputStarted = TRUE
  /\ loop.at = "commit" => turn.id # 0 /\ turn.inputCommitted = TRUE
  /\ loop.at = "cancel" => turn.active = FALSE

\* A turn whose commit has not reached the actor has no answer.
Silent == turn.inputCommitted = FALSE \/ loop.at = "commit"
SilentTurn ==
  turn.id # 0 /\ Silent =>
    /\ phase # "answering" /\ pacer.turn # turn.id
    /\ \A i \in DOMAIN out : out[i].epoch = turn.id =>
         closed = TRUE /\ i = Len(out) /\ out[i].item.kind = "error"

\* A fenced turn is only revived when the session is lost, and stays silent.
Revived ==
  (turn.active = TRUE \/ loop.at = "flush") /\ turn.id \in stopped =>
    /\ closed = TRUE /\ pacer.turn # turn.id
    /\ \A i \in DOMAIN out : out[i].epoch # turn.id

\* The actor listens while the turn takes input, and has what was appended.
Listens ==
  loop.at \in {"flush", "commit"} \/ (turn.active = TRUE /\ Silent)
    => closed = TRUE \/ (phase = "listening" /\ epoch = turn.id)
HasInput ==
  /\ /\ loop.at = "flush" \/ (turn.active = TRUE /\ Silent)
     /\ turn.inputStarted = TRUE /\ turn.pendingPCM = 0 /\ hasFrames = FALSE
     => closed = TRUE \/ loop.at \in {"append", "belongs", "retire"}
  /\ loop.at = "commit" => closed = TRUE \/ hasFrames = TRUE

\* The actor is through with a turn whose end the forwarder can see.
Over == phase = "idle" \/ closed = TRUE
Ends ==
  /\ \A i \in DOMAIN out :
       out[i].item.kind \in {"done", "error"} /\ out[i].epoch = turn.id => Over
  /\ pacer.providerDone = TRUE /\ pacer.turn = turn.id => Over
  /\ turn.active = FALSE => Over \/ loop.at = "cancel"

OrderInv ==
  Numbers /\ Carries /\ LoopPlaces /\ SilentTurn /\ Revived /\ Listens /\ HasInput /\ Ends

\* The types the steps below rest on.
LEMMA OrderTypes ==
  ASSUME IInv
  PROVE  /\ out \in Seq(OutItem) /\ Len(out) \in Nat /\ DOMAIN out = 1..Len(out)
         /\ \A i \in DOMAIN out : out[i].epoch \in Turns /\ out[i].epoch \in Nat
         /\ latest \in Nat /\ epoch \in Nat /\ hasFrames \in BOOLEAN /\ closed \in BOOLEAN
         /\ TurnTypes /\ turn.id \in Nat /\ stopped \subseteq Turns /\ stopped \subseteq Nat
         /\ turn.active = TRUE => turn.id \in Turns
         /\ PacerTypes /\ pacer.turn \in Nat /\ FwdTypes /\ fwd.turn \in Nat
         /\ LoopTypes /\ Msg.id \in Nat
         /\ phase \in {"idle", "listening", "answering"}
         /\ phase # "idle" => epoch \in Turns
<1>1. ActorInv /\ ReceiveInv /\ PacingInv
  BY DEF IInv
<1>2. /\ out \in Seq(OutItem) /\ Len(out) \in Nat /\ DOMAIN out = 1..Len(out)
      /\ phase \in {"idle", "listening", "answering"}
  BY <1>1 DEF ActorInv, ActorTypes
<1>3. /\ latest \in Nat /\ epoch \in Nat /\ hasFrames \in BOOLEAN /\ closed \in BOOLEAN
      /\ phase # "idle" => epoch \in Turns
  BY <1>1, Sizes DEF ActorInv, ActorTypes, ActorFlags, ActiveEpoch
<1>4. TurnTypes /\ turn.id \in Nat /\ (turn.active = TRUE => turn.id \in Turns)
  BY <1>1, Sizes DEF ReceiveInv, TurnTypes, Numbered
<1>5. stopped \subseteq Turns /\ stopped \subseteq Nat
  BY <1>1, Sizes DEF ReceiveInv, Turns
<1>6. PacerTypes /\ pacer.turn \in Nat /\ FwdTypes /\ fwd.turn \in Nat
  BY <1>1, Sizes DEF PacingInv, PacerTypes, Pacers, FwdTypes
<1>7. LoopTypes /\ Msg.id \in Nat
  BY <1>1, MsgType, Sizes DEF ReceiveInv
<1>8. \A i \in DOMAIN out : out[i].epoch \in Turns /\ out[i].epoch \in Nat
  <2> TAKE i \in DOMAIN out
  <2>1. out[i] \in OutItem
    BY <1>2
  <2> QED
    BY <2>1, Sizes DEF OutItem, Turns
<1> QED
  BY <1>2, <1>3, <1>4, <1>5, <1>6, <1>7, <1>8

\* A step of the receive loop that leaves the turn, the actor and the
\* forwarder alone and goes on to a place where no input is in flight.
LEMMA LoopMoves ==
  ASSUME IInv, OrderInv,
         UNCHANGED <<phase, latest, epoch, hasFrames, out, closed, turn, stopped, pacer, fwd>>,
         \/ loop'.at \in {"handle", "recv"} /\ loop.at \in {"recv", "handle"}
         \/ loop'.at \in {"belongs", "retire"} /\ loop.at # "cancel"
         \/ loop' = loop
         \/ loop'.at = "flush" /\ loop.at = "handle" /\ CommitValid
  PROVE  OrderInv'
<1> USE OrderTypes DEF OrderInv
<1>1. Numbers' /\ Carries'
  BY DEF Numbers, Carries, Carrying
<1>2. LoopPlaces'
  BY Sizes DEF LoopPlaces, CommitValid, Active, TurnTypes
<1>4. Silent' => Silent
  BY DEF Silent
<1>5. SilentTurn'
  BY <1>4 DEF SilentTurn
<1>6. Revived'
  BY DEF Revived, CommitValid, Active
<1>3. Listens' /\ HasInput' /\ Ends'
  BY DEF LoopPlaces, Listens, Silent, HasInput, Ends, Over, CommitValid, Active, TurnTypes
<1> QED
  BY <1>1, <1>2, <1>3, <1>5, <1>6

\* A new turn is newer than everything that is under way.
LEMMA StartOrder ==
  ASSUME IInv, OrderInv, NEW m \in Messages, TurnStart(m)
  PROVE  OrderInv'
<1> USE OrderTypes, Sizes DEF OrderInv
<1>1. /\ m.id > latest /\ phase = "idle" /\ ~closed /\ turn.active = FALSE /\ loop.at = "recv"
      /\ phase' = "listening" /\ latest' = m.id /\ epoch' = m.id /\ hasFrames' = FALSE
      /\ UNCHANGED <<out, closed, loop, pacer, fwd>>
      /\ stopped' = stopped \cup ({turn.id} \ {0})
  BY DEF TurnStart, StartValid, Ready, Actor!Start, Actor!CanStart, ForwarderVars, TurnTypes
<1>2. m.id \in Nat /\ m.id # 0
  <2>1. m.id \in 0..MaxTurn
    BY DEF Messages
  <2> QED
    BY <2>1 DEF TurnStart, StartValid
<1>3. /\ turn'.id = m.id /\ turn'.inputCommitted = FALSE /\ turn'.inputStarted = FALSE
      /\ turn'.active = TRUE
  BY DEF TurnStart, NewTurn, NoTurn
<1>8. Numbers'
  BY <1>1, <1>2, <1>3 DEF Numbers
<1>4. Carries' /\ LoopPlaces'
  BY <1>1, <1>2, <1>3 DEF Carries, Carrying, LoopPlaces
<1>5. /\ \A i \in DOMAIN out' : out'[i].epoch # turn'.id
      /\ pacer'.turn # turn'.id /\ turn'.id \notin stopped'
  BY <1>1, <1>2, <1>3 DEF Numbers
<1>6. SilentTurn' /\ Revived'
  BY <1>1, <1>5 DEF SilentTurn, Revived
<1>7. Listens' /\ HasInput' /\ Ends'
  BY <1>1, <1>3, <1>5 DEF Listens, HasInput, Ends
<1> QED
  BY <1>4, <1>6, <1>7, <1>8

\* What a fence does to the turn.
LEMMA Fenced ==
  ASSUME TurnTypes, Fence
  PROVE  /\ turn'.active = FALSE /\ turn'.id = turn.id /\ turn'.pendingPCM = 0
         /\ turn'.inputCommitted = turn.inputCommitted /\ turn'.inputStarted = turn.inputStarted
         /\ turn'.outputSequence = turn.outputSequence /\ turn'.outputStarted = turn.outputStarted
         /\ stopped' = stopped \cup ({turn.id} \ {0})
  BY DEF TurnTypes, Fence

\* turn.cancel and retireActiveTurn.
LEMMA CancelOrder ==
  ASSUME IInv, OrderInv, Fence, loop'.at = "cancel",
         UNCHANGED <<actorVars, pacer, fwd>>
  PROVE  OrderInv'
<1> USE OrderTypes DEF OrderInv, actorVars
<1>0. /\ turn'.active = FALSE /\ turn'.id = turn.id
      /\ turn'.inputCommitted = turn.inputCommitted
      /\ stopped' = stopped \cup ({turn.id} \ {0})
  BY Fenced
<1>1. Numbers' /\ LoopPlaces'
  BY <1>0 DEF Numbers, LoopPlaces
<1>5. Carries'
  BY <1>0 DEF Carries, Carrying
<1>2. Silent' => Silent
  BY <1>0 DEF Silent
<1>3. SilentTurn'
  BY <1>0, <1>2 DEF SilentTurn
<1>4. Revived' /\ Listens' /\ HasInput'
  BY <1>0 DEF Revived, Listens, HasInput
<1>6. Ends'
  BY <1>0 DEF Ends, Over
<1> QED
  BY <1>1, <1>3, <1>4, <1>5, <1>6

\* PCM that does not fill a frame leaves something to flush.
LEMMA SmallRemainder ==
  ASSUME NEW a \in Nat, NEW f \in Nat \ {0}, a < f
  PROVE  a % f = a
  OBVIOUS

LEMMA Unframed ==
  ASSUME NEW p \in Nat, NEW n \in Nat \ {0}, NEW f \in Nat \ {0}, p + n < f
  PROVE  (p + n) % f # 0
<1>1. p + n \in Nat /\ p + n # 0
  OBVIOUS
<1>2. (p + n) % f = p + n
  BY <1>1, SmallRemainder
<1> QED
  BY <1>1, <1>2

\* Input that was appended, or is about to be, and a commit that flushed it.
LEMMA InputOrder ==
  ASSUME IInv, OrderInv, FlushFinalInput \/ CommitActor \/ HandlePCM \/ AppendInput
  PROVE  OrderInv'
<1> USE OrderTypes DEF OrderInv
<1>1. CASE FlushFinalInput
  <2>1. CASE loop'.at = "belongs"
    BY <1>1, <2>1, LoopMoves DEF FlushFinalInput, Goto, actorVars, ForwarderVars
  <2>2. CASE loop'.at # "belongs"
    <3>1. /\ loop.at = "flush" /\ loop'.at = "commit"
          /\ turn' = [turn EXCEPT !.pendingPCM = 0, !.inputCommitted = TRUE, !.active = TRUE]
          /\ UNCHANGED <<phase, latest, epoch, out, closed, stopped, pacer, fwd>>
          /\ IF turn.pendingPCM = 0 THEN hasFrames' = hasFrames
             ELSE hasFrames' = TRUE /\ phase = "listening" /\ ~closed
      BY <1>1, <2>2 DEF FlushFinalInput, Goto, actorVars, ForwarderVars, Actor!Append1,
                        Actor!CanAppend
    <3>2. /\ turn'.id = turn.id /\ turn'.inputCommitted = TRUE /\ turn'.active = TRUE
      BY <3>1 DEF TurnTypes
    <3>3. Numbers' /\ Carries' /\ LoopPlaces'
      BY <3>1, <3>2 DEF Numbers, Carries, Carrying, LoopPlaces
    <3>4. Silent
      BY <3>1 DEF LoopPlaces, Silent
    <3>5. SilentTurn' /\ Revived'
      BY <3>1, <3>2, <3>4 DEF SilentTurn, Revived
    <3>6. Listens' /\ HasInput' /\ Ends'
      BY <3>1, <3>2, <3>4 DEF Listens, HasInput, Ends, LoopPlaces, Over
    <3> QED
      BY <3>3, <3>5, <3>6
  <2> QED
    BY <2>1, <2>2
<1>2. CASE CommitActor
  <2>1. CASE loop'.at = "belongs"
    BY <1>2, <2>1, LoopMoves DEF CommitActor, Goto, AtRecv, actorVars, ForwarderVars
  <2>2. CASE loop'.at # "belongs"
    <3>1. /\ loop.at = "commit" /\ loop'.at = "recv" /\ turn' = turn
          /\ phase = "listening" /\ phase' = "answering" /\ ~closed
          /\ UNCHANGED <<latest, epoch, hasFrames, out, closed, stopped, pacer, fwd>>
      BY <1>2, <2>2 DEF CommitActor, Goto, AtRecv, ForwarderVars, Actor!Commit, Actor!CanCommit,
                        Actor!CanAppend
    <3>2. ~Silent'
      BY <3>1 DEF Silent, LoopPlaces
    <3>3. Numbers' /\ Carries' /\ LoopPlaces' /\ SilentTurn' /\ Revived'
      BY <3>1, <3>2 DEF Numbers, Carries, Carrying, LoopPlaces, SilentTurn, Revived
    <3>4. Ends'
      <4>1. turn.active = TRUE
        BY <3>1 DEF Ends, Over
      <4>2. turn.id # 0 /\ Silent
        BY <3>1 DEF LoopPlaces, Silent
      <4>3. \A i \in DOMAIN out : out[i].epoch # turn.id
        BY <3>1, <4>2 DEF SilentTurn
      <4> QED
        BY <3>1, <4>1, <4>2, <4>3 DEF Ends, SilentTurn
    <3> QED
      BY <3>1, <3>2, <3>3, <3>4 DEF Listens, HasInput
  <2> QED
    BY <2>1, <2>2
<1>3. CASE HandlePCM
  <2>1. CASE loop'.at = "belongs"
    BY <1>3, <2>1, LoopMoves DEF HandlePCM, Handling, Goto, AtRecv, actorVars, ForwarderVars
  <2>2. CASE loop'.at # "belongs"
    <3> DEFINE total == turn.pendingPCM + Msg.pcm.n
    <3>1. /\ loop.at = "handle" /\ Active(Msg.id) /\ Msg.ok /\ Msg.type = "pcm"
          /\ FramingValid(Msg.pcm)
          /\ turn' = [turn EXCEPT !.inputStarted = TRUE,
                                  !.inputEnded = "END" \in Msg.pcm.flags,
                                  !.pendingPCM = total % InFrame]
          /\ loop'.at = IF total >= InFrame THEN "append" ELSE "recv"
          /\ UNCHANGED <<phase, latest, epoch, hasFrames, out, closed, stopped, pacer, fwd>>
      BY <1>3, <2>2 DEF HandlePCM, Handling, Goto, AtRecv, actorVars, ForwarderVars
    <3>2. /\ turn'.id = turn.id /\ turn'.inputCommitted = turn.inputCommitted
          /\ turn'.active = turn.active /\ turn'.pendingPCM = total % InFrame
          /\ turn.inputCommitted = FALSE
      BY <3>1 DEF TurnTypes, FramingValid
    <3>3. Msg.pcm.n \in Nat \ {0} /\ turn.pendingPCM \in Nat
      <4>1. Msg \in Messages \cup Handled
        BY DEF LoopTypes, Msg
      <4>2. Msg.pcm \in [flags : SUBSET {"START", "END"}, n : 1..InMax]
        BY <3>1, <4>1 DEF Messages, Handled
      <4> QED
        BY <4>2, Sizes DEF TurnTypes
    <3>4. total < InFrame => total % InFrame # 0
      BY <3>3, Sizes, Unframed
    <3>5. Numbers' /\ Carries' /\ LoopPlaces' /\ SilentTurn' /\ Revived'
      BY <3>1, <3>2 DEF Numbers, Carries, Carrying, LoopPlaces, Silent, SilentTurn, Revived
    <3>6. Listens' /\ Ends'
      BY <3>1, <3>2 DEF Listens, Silent, Ends, Over
    <3>7. HasInput'
      BY <3>1, <3>2, <3>3, <3>4, Sizes DEF HasInput
    <3> QED
      BY <3>5, <3>6, <3>7
  <2> QED
    BY <2>1, <2>2
<1>4. CASE AppendInput
  <2>1. CASE loop'.at = "belongs"
    BY <1>4, <2>1, LoopMoves DEF AppendInput, Goto, AtRecv, actorVars, ForwarderVars
  <2>2. CASE loop'.at # "belongs"
    <3>1. /\ loop.at = "append" /\ loop'.at = "recv" /\ turn' = turn /\ hasFrames' = TRUE
          /\ phase = "listening" /\ ~closed
          /\ UNCHANGED <<phase, latest, epoch, out, closed, stopped, pacer, fwd>>
      BY <1>4, <2>2 DEF AppendInput, Goto, AtRecv, ForwarderVars, Actor!Append1, Actor!CanAppend
    <3>2. Silent' => Silent
      BY <3>1 DEF Silent
    <3>3. Numbers' /\ Carries' /\ LoopPlaces' /\ SilentTurn' /\ Revived'
      BY <3>1, <3>2 DEF Numbers, Carries, Carrying, LoopPlaces, SilentTurn, Revived
    <3>4. Listens' /\ HasInput' /\ Ends'
      BY <3>1, <3>2 DEF Listens, HasInput, Ends, Over
    <3> QED
      BY <3>3, <3>4
  <2> QED
    BY <2>1, <2>2
<1> QED
  BY <1>1, <1>2, <1>3, <1>4

\* A withdrawn or lost event is the newest; the others stay where they are.
LEMMA Shortened ==
  ASSUME NEW S, NEW q \in Seq(S), q # <<>>
  PROVE  LET p == SubSeq(q, 1, Len(q) - 1)
         IN  /\ Len(p) = Len(q) - 1 /\ DOMAIN p = 1..(Len(q) - 1)
             /\ \A i \in DOMAIN p : i \in DOMAIN q /\ p[i] = q[i]
<1>1. Len(q) \in Nat \ {0} /\ DOMAIN q = 1..Len(q)
  BY EmptySeq, LenProperties
<1>2. /\ Len(SubSeq(q, 1, Len(q) - 1)) = Len(q) - 1
      /\ \A i \in 1..(Len(q) - 1) : SubSeq(q, 1, Len(q) - 1)[i] = q[i]
  BY <1>1
<1>3. SubSeq(q, 1, Len(q) - 1) \in Seq(S)
  BY <1>1
<1>4. DOMAIN SubSeq(q, 1, Len(q) - 1) = 1..(Len(q) - 1)
  BY <1>2, <1>3
<1> QED
  BY <1>1, <1>2, <1>4

\* The actor's answer to the cancel, or the end of the session.
LEMMA CancelledOrder ==
  ASSUME IInv, OrderInv, CancelActor
  PROVE  OrderInv'
<1> USE OrderTypes DEF OrderInv
<1>1. CASE UNCHANGED actorVars /\ UNCHANGED loop
  BY <1>1, LoopMoves DEF CancelActor, actorVars, ForwarderVars
<1>2. CASE loop' = AtRecv
  <2>1. /\ loop.at = "cancel" /\ loop'.at = "recv" /\ turn' = turn /\ turn.active = FALSE
        /\ phase' = "idle" /\ UNCHANGED <<latest, closed, stopped, pacer, fwd>>
    BY <1>2 DEF CancelActor, AtRecv, ForwarderVars, actorVars, Actor!Cancel, LoopPlaces
  <2>2. out' = out \/ (out # <<>> /\ out' = SubSeq(out, 1, Len(out) - 1) /\ ~closed)
    BY <1>2 DEF CancelActor, actorVars, Actor!Cancel, Actor!Withdrawn
  <2>3. \A i \in DOMAIN out' : i \in DOMAIN out /\ out'[i] = out[i]
    BY <2>2, Shortened
  <2>4. Numbers' /\ Carries' /\ LoopPlaces'
    BY <2>1, <2>3 DEF Numbers, Carries, Carrying, LoopPlaces
  <2>5. SilentTurn'
    <3>1. Silent' => Silent
      BY <2>1 DEF Silent
    <3>2. CASE out' = out
      BY <2>1, <3>1, <3>2 DEF SilentTurn
    <3>3. CASE ~closed
      BY <2>1, <2>3, <3>1, <3>3 DEF SilentTurn
    <3> QED
      BY <2>2, <3>2, <3>3
  <2>6. Revived' /\ Listens' /\ HasInput' /\ Ends'
    BY <2>1, <2>3 DEF Revived, Listens, HasInput, Ends, Over
  <2> QED
    BY <2>4, <2>5, <2>6
<1> QED
  BY <1>1, <1>2 DEF CancelActor

\* Every step of the receive loop.
LEMMA LoopOrder ==
  ASSUME IInv, OrderInv,
         (\E m \in Messages : TakeMessage(m)) \/ ReceiveLoop \/ PeerGone
  PROVE  OrderInv'
<1>1. CASE \E m \in Messages : TakeMessage(m)
  <2> PICK m \in Messages : TakeMessage(m)
    BY <1>1
  <2>1. CASE TurnStart(m)
    BY <2>1, StartOrder
  <2>2. CASE TurnCancel(m)
    <3>1. CASE Fence /\ Goto("cancel", m.id)
      BY <2>2, <3>1, CancelOrder DEF TurnCancel, Goto, ForwarderVars
    <3>2. CASE Goto("belongs", m.id) /\ UNCHANGED <<turn, stopped>>
      BY <2>2, <3>2, LoopMoves DEF TurnCancel, Ready, Goto, actorVars, ForwarderVars
    <3> QED
      BY <2>2, <3>1, <3>2 DEF TurnCancel
  <2>3. CASE Receive(m) \/ TurnStartClosed(m) \/ Unsupported(m) \/ TurnCongestion(m)
    BY <2>3, LoopMoves DEF Receive, TurnStartClosed, Unsupported, TurnCongestion, Ready, Goto,
                           actorVars, ForwarderVars
  <2> QED
    BY <2>1, <2>2, <2>3 DEF TakeMessage
<1>2. CASE FlushFinalInput \/ CommitActor \/ HandlePCM \/ AppendInput
  BY <1>2, InputOrder
<1>3. CASE CancelActor
  BY <1>3, CancelledOrder
<1>4. CASE TurnCommit \/ BelongsToActiveTurn \/ PeerGone
  BY <1>4, LoopMoves DEF TurnCommit, Handling, BelongsToActiveTurn, PeerGone, Goto,
                         actorVars, ForwarderVars
<1>5. CASE RetireActiveTurn
  <2>1. CASE turn.active
    BY <1>5, <2>1, CancelOrder DEF RetireActiveTurn, Goto, ForwarderVars
  <2>2. CASE ~turn.active
    BY <1>5, <2>2, LoopMoves DEF RetireActiveTurn, actorVars, ForwarderVars
  <2> QED
    BY <2>1, <2>2
<1> QED
  BY <1>1, <1>2, <1>3, <1>4, <1>5 DEF ReceiveLoop

\* Steps of forwardEvents that change neither the turn's standing nor its
\* input: the pacer is kept or reset, and events may be taken from the stream.
\* An end of the answer is new to the pacer only if the actor is through.
LEMMA ForwarderMoves ==
  ASSUME IInv, OrderInv,
         UNCHANGED <<phase, latest, epoch, hasFrames, closed, loop, stopped>>,
         turn'.id = turn.id, turn'.active = turn.active,
         turn'.inputStarted = turn.inputStarted, turn'.inputCommitted = turn.inputCommitted,
         turn'.pendingPCM = turn.pendingPCM,
         \A i \in DOMAIN out' : \E j \in DOMAIN out :
            out'[i] = out[j] /\ (j = Len(out) => i = Len(out')),
         pacer'.turn \in {0, pacer.turn}, fwd'.turn \in {0, fwd.turn, pacer.turn, pacer'.turn},
         pacer'.providerDone = TRUE =>
            pacer'.turn = pacer.turn /\ (pacer.providerDone = TRUE \/ Over),
         Carries'
  PROVE  OrderInv'
<1> USE OrderTypes, Sizes DEF OrderInv
<1>1. Numbers'
  BY DEF Numbers
<1>2. LoopPlaces'
  BY DEF LoopPlaces
<1>3. SilentTurn'
  BY DEF SilentTurn, Silent
<1>4. Revived'
  BY DEF Revived
<1>5. Listens' /\ HasInput'
  BY DEF Listens, HasInput, Silent
<1>6. Ends'
  BY DEF Ends, Over
<1> QED
  BY <1>1, <1>2, <1>3, <1>4, <1>5, <1>6

\* What is left of the stream when its first event is taken.
LEMMA TailOf ==
  ASSUME NEW S, NEW q \in Seq(S), q # <<>>
  PROVE  /\ 1 \in DOMAIN q /\ Head(q) = q[1]
         /\ \A i \in DOMAIN Tail(q) : i + 1 \in DOMAIN q /\ Tail(q)[i] = q[i + 1]
                                      /\ (i + 1 = Len(q) <=> i = Len(Tail(q)))
<1>1. Len(q) \in Nat \ {0} /\ DOMAIN q = 1..Len(q)
  BY EmptySeq, LenProperties
<1>2. Tail(q) \in Seq(S) /\ Len(Tail(q)) = Len(q) - 1
      /\ \A i \in 1..Len(Tail(q)) : Tail(q)[i] = q[i + 1]
  BY HeadTailProperties
<1>3. DOMAIN Tail(q) = 1..(Len(q) - 1)
  BY <1>2
<1> QED
  BY <1>1, <1>2, <1>3

\* The same, as ForwarderMoves asks for it.
LEMMA Taken ==
  ASSUME out \in Seq(OutItem), out' = out \/ (out # <<>> /\ out' = Tail(out))
  PROVE  \A i \in DOMAIN out' : \E j \in DOMAIN out :
            out'[i] = out[j] /\ (j = Len(out) => i = Len(out'))
  BY TailOf

\* The top of the loop, and the ends of an enqueue that does not fail.
LEMMA TopOrder ==
  ASSUME IInv, OrderInv, Top
  PROVE  OrderInv'
<1> USE OrderTypes
<1>1. Padded \in Pacers /\ Empty(Padded)
  BY PaddedType DEF IInv, PacingInv
<1>2. /\ Padded.turn \in {0, pacer.turn}
      /\ Padded.providerDone = TRUE => Padded.turn = pacer.turn /\ pacer.providerDone = TRUE
  BY DEF Padded, Fresh, NoPacer, PacerTypes, Pacers
<1>3. /\ turn'.id = turn.id /\ turn'.active = turn.active
      /\ turn'.inputStarted = turn.inputStarted /\ turn'.inputCommitted = turn.inputCommitted
      /\ turn'.pendingPCM = turn.pendingPCM
  BY DEF Top, SendFrame, TurnTypes
<1>4. Carries' /\ fwd'.turn \in {0, Padded.turn}
  <2>1. CASE Padded.providerDone /\ Sending(Control("response.done"), Padded.turn)
    <3>1. Padded.turn # 0 /\ Padded.providerDone = TRUE
      BY <1>1, <2>1 DEF Empty, Pacers
    <3> QED
      BY <2>1, <3>1 DEF Top, Sending, Control, Carries, Carrying
  <2>2. CASE FrameReady(Padded) /\ SendFrame(Padded)
    <3>1. Padded.turn # 0
      BY <1>1, <2>2, Sizes DEF Empty, FrameReady, Pacers
    <3>2. Final(Padded) = TRUE => Padded.providerDone = TRUE
      BY <1>1 DEF Final, Pacers
    <3> QED
      BY <2>2, <3>1, <3>2 DEF Top, Sending, SendFrame, Carries, Carrying
  <2>3. CASE fwd' = At("select")
    BY <2>3 DEF At, Carries, Carrying
  <2> QED
    BY <2>1, <2>2, <2>3 DEF Top
<1> QED
  BY <1>2, <1>3, <1>4, ForwarderMoves DEF Top, LoopVars

LEMMA PushOrder ==
  ASSUME IInv, OrderInv, Push
  PROVE  OrderInv'
<1> USE OrderTypes
<1>0. fwd.packet.end \in BOOLEAN /\ fwd.at = "push" /\ Carries
  BY DEF Push, FwdTypes, Packet, OrderInv
<1>1. pacer'.turn \in {0, pacer.turn}
      /\ (pacer'.providerDone = TRUE => pacer'.turn = pacer.turn /\ pacer.providerDone = TRUE)
  <2> DEFINE rest == [pacer EXCEPT !.pending = @ - fwd.packet.n,
                                   !.wireFrames = @ + 1, !.due = FALSE]
  <2>1. pacer' = pacer \/ pacer' = NoPacer \/ pacer' = rest
    BY DEF Push, AfterPush
  <2>2. rest.turn = pacer.turn /\ rest.providerDone = pacer.providerDone
    BY DEF PacerTypes, Pacers
  <2>3. NoPacer.turn = 0 /\ NoPacer.providerDone = FALSE
    BY DEF NoPacer
  <2> HIDE DEF rest
  <2> QED
    BY <2>1, <2>2, <2>3
<1>2. Carries' /\ fwd'.turn \in {0, fwd.turn}
  <2>1. CASE fwd' = At("top")
    BY <2>1 DEF At, Carries, Carrying
  <2>2. CASE fwd.packet.type = "response.done" /\ fwd' = [fwd EXCEPT !.at = "clear"]
    BY <1>0, <2>2 DEF Push, AfterPush, Carries, Carrying, FwdTypes
  <2>3. CASE /\ fwd.packet.type = "pcm" /\ fwd.packet.end
             /\ pacer' = [pacer EXCEPT !.pending = @ - fwd.packet.n,
                                       !.wireFrames = @ + 1, !.due = FALSE]
             /\ Sending(Control("response.done"), fwd.turn)
    BY <1>0, <2>3 DEF Sending, Control, Carries, Carrying, PacerTypes, Pacers
  <2> QED
    BY <2>1, <2>2, <2>3 DEF Push, AfterPush
<1> QED
  BY <1>1, <1>2, ForwarderMoves DEF Push, LoopVars

LEMMA FinishOrder ==
  ASSUME IInv, OrderInv, FinishPacedResponse
  PROVE  OrderInv'
<1>0. Carries
  BY DEF OrderInv
<1>1. /\ fwd.at = "clear" /\ fwd.turn = pacer.turn /\ fwd.turn # 0 /\ pacer.providerDone = TRUE
      /\ pacer' = NoPacer /\ fwd' = At("top")
      /\ UNCHANGED <<phase, latest, epoch, hasFrames, closed, loop, out>>
  BY <1>0 DEF FinishPacedResponse, Carries, LoopVars
<1>2. CASE ~Active(fwd.turn)
  <2>1. Carries' /\ fwd'.turn = 0 /\ pacer'.turn = 0 /\ pacer'.providerDone = FALSE
    BY <1>1 DEF NoPacer, At, Carries, Carrying
  <2>2. UNCHANGED <<turn, stopped>>
    BY <1>2 DEF FinishPacedResponse
  <2> QED
    BY <1>1, <2>1, <2>2, ForwarderMoves
<1>3. CASE Active(fwd.turn)
  <2> USE OrderTypes, Sizes DEF OrderInv
  <2>1. /\ turn.id = pacer.turn /\ turn'.active = FALSE /\ turn'.id = turn.id
        /\ turn'.inputCommitted = turn.inputCommitted /\ turn'.inputStarted = turn.inputStarted
        /\ turn'.pendingPCM = turn.pendingPCM /\ stopped' = stopped \cup {turn.id}
        /\ turn.active = TRUE
    BY <1>1, <1>3 DEF FinishPacedResponse, Active, TurnTypes
  <2>2. Over /\ ~Silent /\ loop.at # "flush"
    BY <1>1, <2>1 DEF Ends, SilentTurn, LoopPlaces, Silent
  <2>3. Numbers' /\ Carries' /\ LoopPlaces'
    BY <1>1, <2>1 DEF Numbers, Carries, Carrying, LoopPlaces, At, NoPacer
  <2>4. SilentTurn' /\ Revived' /\ Listens' /\ HasInput'
    BY <1>1, <2>1, <2>2 DEF SilentTurn, Silent, Revived, Listens, HasInput, LoopPlaces
  <2>5. Ends'
    BY <1>1, <2>1, <2>2 DEF Ends, Over, NoPacer
  <2> QED
    BY <2>3, <2>4, <2>5
<1> QED
  BY <1>2, <1>3

\* The other ends of an enqueue, and the steps that only wait.
LEMMA WaitOrder ==
  ASSUME IInv, OrderInv, Drop \/ Due \/ TimerFires \/ StreamClosed
  PROVE  OrderInv'
<1>0. Carries /\ PacerTypes
  BY OrderTypes DEF OrderInv
<1>1. UNCHANGED <<phase, latest, epoch, hasFrames, out, closed, turn, loop, stopped>>
  BY DEF Drop, Due, TimerFires, StreamClosed, LoopVars, actorVars
<1>2. /\ pacer'.turn \in {0, pacer.turn}
      /\ pacer'.providerDone = TRUE => pacer'.turn = pacer.turn /\ pacer.providerDone = TRUE
  BY <1>0 DEF Drop, Due, TimerFires, StreamClosed, NoPacer, PacerTypes, Pacers
<1>3. Carries' /\ fwd'.turn \in {0, fwd.turn}
  <2>1. CASE fwd' = At("top")
    BY <2>1 DEF At, Carries, Carrying
  <2>2. CASE UNCHANGED fwd /\ (UNCHANGED pacer \/ pacer' = [pacer EXCEPT !.due = TRUE])
    BY <1>0, <1>1, <2>2 DEF Carries, Carrying, PacerTypes, Pacers
  <2> QED
    BY <2>1, <2>2 DEF Drop, Due, TimerFires, StreamClosed
<1> QED
  BY <1>1, <1>2, <1>3, ForwarderMoves

\* An event of the active turn means that its commit has reached the actor,
\* or that the session is lost, and never that the turn was revived.
LEMMA Current ==
  ASSUME IInv, OrderInv, out # <<>>, Active(Head(out).epoch)
  PROVE  /\ turn.active = TRUE /\ turn.id \in Turns /\ Head(out).epoch = turn.id
         /\ turn.id \notin stopped
         /\ Head(out).item.kind \in {"done", "error"} => Over
         /\ Silent => closed = TRUE /\ Head(out).item.kind = "error" /\ Tail(out) = <<>>
<1> USE OrderTypes, Sizes
<1>1. turn.active = TRUE /\ turn.id \in Turns /\ Head(out).epoch = turn.id
  BY DEF Active, TurnTypes
<1>2. 1 \in DOMAIN out /\ Head(out) = out[1] /\ turn.id # 0
  BY <1>1, TailOf
<1>3. turn.id \notin stopped
  BY <1>1, <1>2 DEF OrderInv, Revived
<1>4. Head(out).item.kind \in {"done", "error"} => Over
  BY <1>1, <1>2 DEF OrderInv, Ends
<1>5. Silent => closed = TRUE /\ Head(out).item.kind = "error" /\ Len(out) = 1
  BY <1>1, <1>2 DEF OrderInv, SilentTurn
<1>6. Silent => Tail(out) = <<>>
  <2>1. Tail(out) \in Seq(OutItem) /\ Len(Tail(out)) = Len(out) - 1
    BY HeadTailProperties
  <2> QED
    BY <1>5, <2>1, EmptySeq
<1> QED
  BY <1>1, <1>3, <1>4, <1>5, <1>6

\* An event of the active turn is refused, which ends the session and changes
\* nothing else, or it has its effect.
LEMMA EventEffects ==
  /\ Started => \/ UNCHANGED <<turn, stopped, pacer, fwd>>
                \/ /\ pacer.turn = 0 /\ pacer' = BegunFor(turn.id)
                   /\ UNCHANGED <<turn, stopped>>
                   /\ Sending(Control("response.start"), turn.id)
  /\ TextDelta => \/ UNCHANGED <<turn, stopped, pacer, fwd>>
                  \/ /\ Active(pacer.turn) /\ UNCHANGED <<turn, stopped, pacer>>
                     /\ Sending(Control("response.text_delta"), turn.id)
  /\ \A n : AudioDelta(n) =>
       \/ UNCHANGED <<turn, stopped, pacer, fwd>>
       \/ /\ Active(pacer.turn) /\ UNCHANGED stopped
          /\ pacer' = [pacer EXCEPT !.pending = pacer.pending + n]
          /\ turn' = [turn EXCEPT !.outputStarted = TRUE]
          /\ IF turn.outputStarted THEN fwd' = At("top")
             ELSE Sending(Control("response.audio_start"), turn.id)
  /\ Done => \/ UNCHANGED <<turn, stopped, pacer, fwd>>
             \/ /\ Active(pacer.turn) /\ UNCHANGED <<turn, stopped>>
                /\ fwd' = At("top") /\ pacer' = [pacer EXCEPT !.providerDone = TRUE]
<1>1. Started => \/ UNCHANGED <<turn, stopped, pacer, fwd>>
                 \/ /\ pacer.turn = 0 /\ pacer' = BegunFor(turn.id)
                    /\ UNCHANGED <<turn, stopped>>
                    /\ Sending(Control("response.start"), turn.id)
  BY Zenon DEF Started, FailWith
<1>2. TextDelta => \/ UNCHANGED <<turn, stopped, pacer, fwd>>
                   \/ /\ Active(pacer.turn) /\ UNCHANGED <<turn, stopped, pacer>>
                      /\ Sending(Control("response.text_delta"), turn.id)
  BY Zenon DEF TextDelta, FailWith
<1>3. ASSUME NEW n, AudioDelta(n)
      PROVE  \/ UNCHANGED <<turn, stopped, pacer, fwd>>
             \/ /\ Active(pacer.turn) /\ UNCHANGED stopped
                /\ pacer' = [pacer EXCEPT !.pending = pacer.pending + n]
                /\ turn' = [turn EXCEPT !.outputStarted = TRUE]
                /\ IF turn.outputStarted THEN fwd' = At("top")
                   ELSE Sending(Control("response.audio_start"), turn.id)
  BY <1>3, Zenon DEF AudioDelta, FailWith
<1>4. Done => \/ UNCHANGED <<turn, stopped, pacer, fwd>>
              \/ /\ Active(pacer.turn) /\ UNCHANGED <<turn, stopped>>
                 /\ fwd' = At("top") /\ pacer' = [pacer EXCEPT !.providerDone = TRUE]
  BY Zenon DEF Done, FailWith
<1> QED
  BY <1>1, <1>2, <1>3, <1>4, Zenon

LEMMA TakeOrder ==
  ASSUME IInv, OrderInv, TakeEvent
  PROVE  OrderInv'
<1> DEFINE event == Head(out)
<1>0. /\ fwd.at = "select" /\ out # <<>> /\ out' = Tail(out)
      /\ UNCHANGED <<phase, latest, epoch, hasFrames, closed, loop>>
  BY DEF TakeEvent, LoopVars
<1>1. \A i \in DOMAIN out' : \E j \in DOMAIN out :
        out'[i] = out[j] /\ (j = Len(out) => i = Len(out'))
  BY <1>0, Taken, OrderTypes
<1>2. Carries /\ PacerTypes /\ TurnTypes
  BY OrderTypes DEF OrderInv
<1> DEFINE Stays == /\ turn'.id = turn.id /\ turn'.active = turn.active
                    /\ turn'.inputStarted = turn.inputStarted
                    /\ turn'.inputCommitted = turn.inputCommitted
                    /\ turn'.pendingPCM = turn.pendingPCM /\ stopped' = stopped
<1>3. ASSUME UNCHANGED <<turn, stopped, pacer, fwd>>
      PROVE  OrderInv'
  <2>1. Carries'
    BY <1>0, <1>2, <1>3 DEF Carries, Carrying
  <2> QED
    BY <1>0, <1>1, <1>3, <2>1, ForwarderMoves
<1>4. CASE fwd' = At("top") /\ UNCHANGED <<turn, stopped, pacer>>
  <2>1. Carries' /\ fwd'.turn = 0
    BY <1>4 DEF At, Carries, Carrying
  <2> QED
    BY <1>0, <1>1, <1>4, <2>1, ForwarderMoves
<1>5. CASE Active(event.epoch)
  <2>0. /\ turn.active = TRUE /\ turn.id \in Turns /\ turn.id # 0 /\ turn.id \notin stopped
        /\ event.item.kind \in {"done", "error"} => Over
        /\ Silent => closed = TRUE /\ event.item.kind = "error" /\ out' = <<>>
    BY <1>0, <1>5, Current, Sizes
  <2>1. CASE event.item.kind = "started" /\ Started
    <3>1. CASE UNCHANGED <<turn, stopped, pacer, fwd>>
      BY <1>3, <3>1
    <3>2. CASE ~UNCHANGED <<turn, stopped, pacer, fwd>>
      <4>1. /\ pacer.turn = 0 /\ pacer' = BegunFor(turn.id) /\ turn' = turn /\ stopped' = stopped
            /\ Sending(Control("response.start"), turn.id)
        BY <2>1, <3>2, EventEffects
      <4>2. pacer'.turn = turn.id /\ pacer'.providerDone = FALSE
        BY <4>1 DEF BegunFor, NoPacer
      <4>3. /\ fwd'.turn = turn.id /\ fwd'.at = "push" /\ fwd'.packet.type = "response.start"
            /\ fwd'.packet.end = FALSE
        BY <4>1 DEF Sending, Control
      <4>4. ~Silent /\ ~Silent'
        BY <1>0, <2>0, <2>1, <4>1 DEF Silent
      <4> USE OrderTypes DEF OrderInv
      <4>5. Numbers' /\ Carries' /\ LoopPlaces'
        BY <1>0, <1>1, <2>0, <4>1, <4>2, <4>3 DEF Numbers, Carries, Carrying, LoopPlaces
      <4>6. SilentTurn' /\ Revived' /\ Listens' /\ HasInput'
        BY <1>0, <2>0, <4>1, <4>4 DEF SilentTurn, Revived, Listens, HasInput, Silent
      <4>7. Ends'
        BY <1>0, <1>1, <2>0, <4>1, <4>2 DEF Ends, Over
      <4> QED
        BY <4>5, <4>6, <4>7
    <3> QED
      BY <3>1, <3>2
  <2>2. CASE TextDelta
    <3>1. CASE UNCHANGED <<turn, stopped, pacer, fwd>>
      BY <1>3, <3>1
    <3>2. CASE ~UNCHANGED <<turn, stopped, pacer, fwd>>
      <4>1. /\ Active(pacer.turn) /\ UNCHANGED <<turn, stopped, pacer>>
            /\ Sending(Control("response.text_delta"), turn.id)
        BY <2>2, <3>2, EventEffects
      <4>2. Carries' /\ fwd'.turn = pacer.turn
        BY <1>2, <2>0, <4>1 DEF Sending, Control, Carries, Carrying, Active
      <4> QED
        BY <1>0, <1>1, <4>1, <4>2, ForwarderMoves
    <3> QED
      BY <3>1, <3>2
  <2>3. CASE event.item.kind = "audio" /\ AudioDelta(event.item.n)
    <3>1. CASE UNCHANGED <<turn, stopped, pacer, fwd>>
      BY <1>3, <3>1
    <3>2. CASE ~UNCHANGED <<turn, stopped, pacer, fwd>>
      <4>1. /\ Active(pacer.turn) /\ stopped' = stopped
            /\ pacer' = [pacer EXCEPT !.pending = @ + event.item.n]
            /\ turn' = [turn EXCEPT !.outputStarted = TRUE]
            /\ fwd' = At("top") \/ Sending(Control("response.audio_start"), turn.id)
        BY <2>3, <3>2, EventEffects
      <4>2. Stays
        BY <1>2, <4>1 DEF TurnTypes
      <4>3. pacer'.turn = pacer.turn /\ pacer'.providerDone = pacer.providerDone
        BY <1>2, <4>1 DEF PacerTypes, Pacers
      <4>4. Carries' /\ fwd'.turn \in {0, pacer.turn}
        <5>1. pacer.turn = turn.id
          BY <4>1 DEF Active
        <5>2. CASE fwd' = At("top")
          BY <5>2 DEF At, Carries, Carrying
        <5>3. CASE Sending(Control("response.audio_start"), turn.id)
          BY <2>0, <4>3, <5>1, <5>3 DEF Sending, Control, Carries, Carrying
        <5> QED
          BY <4>1, <5>2, <5>3
      <4> QED
        BY <1>0, <1>1, <4>2, <4>3, <4>4, ForwarderMoves
    <3> QED
      BY <3>1, <3>2
  <2>4. CASE event.item.kind = "done" /\ Done
    <3>1. CASE UNCHANGED <<turn, stopped, pacer, fwd>>
      BY <1>3, <3>1
    <3>2. CASE ~UNCHANGED <<turn, stopped, pacer, fwd>>
      <4>1. /\ fwd' = At("top") /\ UNCHANGED <<turn, stopped>>
            /\ pacer' = [pacer EXCEPT !.providerDone = TRUE]
        BY <2>4, <3>2, EventEffects
      <4>2. pacer'.turn = pacer.turn /\ Over
        BY <1>2, <2>0, <2>4, <4>1 DEF PacerTypes, Pacers
      <4>3. Carries' /\ fwd'.turn = 0
        BY <4>1 DEF At, Carries, Carrying
      <4> QED
        BY <1>0, <1>1, <4>1, <4>2, <4>3, ForwarderMoves
    <3> QED
      BY <3>1, <3>2
  <2>5. CASE event.item.kind = "error" /\ ProviderError
    <3>1. Fence /\ pacer' = NoPacer /\ Sending(Control("error"), turn.id)
      BY <2>5 DEF ProviderError
    <3>2. /\ turn'.active = FALSE /\ turn'.id = turn.id
          /\ turn'.inputCommitted = turn.inputCommitted /\ turn'.inputStarted = turn.inputStarted
          /\ stopped' = stopped \cup {turn.id} /\ turn'.pendingPCM = 0
      BY <1>2, <2>0, <3>1, Fenced
    <3>3. pacer'.turn = 0 /\ pacer'.providerDone = FALSE
      BY <3>1 DEF NoPacer
    <3>4. /\ fwd'.turn = turn.id /\ fwd'.at = "push" /\ fwd'.packet.type = "error"
      BY <3>1 DEF Sending, Control
    <3>5. Over /\ (Silent => closed = TRUE /\ out' = <<>>)
      BY <2>0, <2>5
    <3> USE OrderTypes DEF OrderInv
    <3>6. Numbers' /\ Carries' /\ LoopPlaces'
      BY <1>0, <1>1, <2>0, <3>2, <3>3, <3>4 DEF Numbers, Carries, Carrying, LoopPlaces
    <3>7. SilentTurn' /\ Revived' /\ Ends'
      BY <1>0, <2>0, <3>2, <3>3, <3>5 DEF SilentTurn, Revived, Ends, Silent, Over, LoopPlaces
    <3>8. Listens' /\ HasInput'
      BY <1>0, <2>0, <3>2, <3>5 DEF Listens, HasInput, Silent, LoopPlaces
    <3> QED
      BY <3>6, <3>7, <3>8
  <2>6. event.item.kind \in {"started", "text", "audio", "done", "error"}
    BY TakenEvent DEF TakeEvent, Items, IInv
  <2> QED
    BY <1>5, <2>1, <2>2, <2>3, <2>4, <2>5, <2>6 DEF TakeEvent
<1>6. CASE ~Active(event.epoch)
  BY <1>4, <1>6 DEF TakeEvent
<1> QED
  BY <1>5, <1>6

\* The provider answers only a turn that was committed.
LEMMA AnswerOrder ==
  ASSUME IInv, OrderInv, NEW item \in Items, ProviderAnswers(item)
  PROVE  OrderInv'
<1> USE OrderTypes, Sizes
<1> DEFINE event == [epoch |-> epoch, item |-> item]
<1>1. /\ phase = "answering" /\ closed = FALSE /\ out' = Append(out, event)
      /\ phase' = IF item \in LastItems THEN "idle" ELSE phase
      /\ UNCHANGED <<latest, epoch, hasFrames, closed, turn, stopped, loop, pacer, fwd>>
  BY DEF ProviderAnswers, Actor!Answer
<1>2. epoch = turn.id /\ turn.id # 0 /\ latest = turn.id
  BY <1>1 DEF OrderInv, Numbers
<1>3. event \in OutItem /\ event.epoch = turn.id /\ event.item = item
  BY <1>1, <1>2 DEF OutItem
<1>4. item.kind \in {"done", "error"} => item \in LastItems
  BY DEF LastItems
<1> HIDE DEF event
<1>5. /\ DOMAIN out' = 1..(Len(out) + 1) /\ out'[Len(out) + 1] = event
      /\ \A i \in DOMAIN out : out'[i] = out[i]
  BY <1>1, <1>3, AppendProperties
<1>6. ~Silent /\ ~Silent'
  BY <1>1, <1>2 DEF OrderInv, SilentTurn, Silent
<1> USE DEF OrderInv
<1>7. Numbers' /\ Carries' /\ LoopPlaces'
  BY <1>1, <1>2, <1>3, <1>5 DEF Numbers, Carries, Carrying, LoopPlaces
<1>8. SilentTurn' /\ Revived'
  BY <1>1, <1>6 DEF SilentTurn, Revived
<1>9. Listens' /\ HasInput'
  BY <1>1, <1>6 DEF Listens, HasInput, LoopPlaces, Silent
<1>10. Ends'
  BY <1>1, <1>3, <1>4, <1>5 DEF Ends, Over
<1> QED
  BY <1>7, <1>8, <1>9, <1>10

\* Losing the session loses the newest event, or adds the turn's error as the
\* newest.
LEMMA CloseOrder ==
  ASSUME IInv, OrderInv, ActorCloses
  PROVE  OrderInv'
<1> USE OrderTypes, Sizes
<1> DEFINE loss == [epoch |-> epoch, item |-> [kind |-> "error", n |-> 0]]
<1>1. /\ closed = FALSE /\ closed' = TRUE
      /\ UNCHANGED <<phase, latest, epoch, hasFrames, turn, stopped, loop, pacer, fwd>>
  BY DEF ActorCloses, Actor!Close, history
<1>2. \/ out' = out
      \/ out # <<>> /\ out' = SubSeq(out, 1, Len(out) - 1)
      \/ phase # "idle" /\ out' = Append(out, loss)
  BY Zenon DEF ActorCloses, Actor!Close
<1>3. \/ \A i \in DOMAIN out' : i \in DOMAIN out /\ out'[i] = out[i]
      \/ /\ phase # "idle" /\ DOMAIN out' = 1..(Len(out) + 1) /\ Len(out') = Len(out) + 1
         /\ out'[Len(out) + 1] = loss
         /\ \A i \in DOMAIN out : out'[i] = out[i]
  <2>1. CASE phase # "idle" /\ out' = Append(out, loss)
    <3>1. loss \in OutItem
      BY <2>1 DEF OutItem, Items
    <3> HIDE DEF loss
    <3>2. /\ Append(out, loss) \in Seq(OutItem) /\ Len(Append(out, loss)) = Len(out) + 1
          /\ \A i \in 1..Len(out) : Append(out, loss)[i] = out[i]
          /\ Append(out, loss)[Len(out) + 1] = loss
      BY <3>1, AppendProperties
    <3>3. DOMAIN Append(out, loss) = 1..(Len(out) + 1)
      BY <3>2
    <3> QED
      BY <2>1, <3>2, <3>3
  <2>2. CASE out # <<>> /\ out' = SubSeq(out, 1, Len(out) - 1)
    BY <2>2, Shortened
  <2> QED
    BY <1>2, <2>1, <2>2
<1>4. loss.epoch = epoch /\ loss.item.kind = "error"
  OBVIOUS
<1> HIDE DEF loss
<1> USE DEF OrderInv
<1>5. Numbers' /\ Carries' /\ LoopPlaces'
  BY <1>1, <1>3, <1>4 DEF Numbers, Carries, Carrying, LoopPlaces
<1>6. SilentTurn'
  <2>1. Silent' => Silent
    BY <1>1 DEF Silent
  <2>2. turn.id # 0 /\ Silent => \A i \in DOMAIN out : out[i].epoch # turn.id
    BY <1>1 DEF SilentTurn
  <2> QED
    BY <1>1, <1>3, <1>4, <2>1, <2>2 DEF SilentTurn
<1>7. Revived' /\ Listens' /\ HasInput' /\ Ends'
  BY <1>1 DEF Revived, Listens, HasInput, Ends, Over
<1> QED
  BY <1>5, <1>6, <1>7

LEMMA InitOrder == Init => OrderInv
<1> SUFFICES ASSUME Init PROVE OrderInv
  OBVIOUS
<1>1. /\ phase = "idle" /\ latest = 0 /\ out = <<>> /\ turn.id = 0 /\ stopped = {}
      /\ turn.active = FALSE /\ loop.at = "recv" /\ pacer.turn = 0 /\ pacer.providerDone = FALSE
      /\ fwd.at = "top" /\ fwd.turn = 0
  BY DEF Init, Actor!Init, NoTurn, AtRecv, NoPacer, At
<1> QED
  BY <1>1 DEF OrderInv, Numbers, Carries, Carrying, LoopPlaces, SilentTurn, Revived, Listens,
              HasInput, Ends, Over

LEMMA NextOrder == IInv /\ OrderInv /\ [Next]_vars => OrderInv'
<1> SUFFICES ASSUME IInv, OrderInv, [Next]_vars PROVE OrderInv'
  OBVIOUS
<1>1. CASE (\E m \in Messages : TakeMessage(m)) \/ PeerGone \/ ReceiveLoop
  BY <1>1, LoopOrder
<1>2. CASE ForwardEvents \/ Due
  BY <1>2, TopOrder, TakeOrder, PushOrder, FinishOrder, WaitOrder DEF ForwardEvents
<1>3. CASE \E item \in Items : ProviderAnswers(item)
  BY <1>3, AnswerOrder
<1>4. CASE ActorCloses
  BY <1>4, CloseOrder
<1>5. CASE UNCHANGED vars
  BY <1>5, LoopMoves DEF vars
<1> QED
  BY <1>1, <1>2, <1>3, <1>4, <1>5 DEF Next

LEMMA SpecOrder == Spec => [](IInv /\ OrderInv)
<1>1. Init => IInv /\ OrderInv
  BY InitIInv, InitOrder
<1>2. IInv /\ OrderInv /\ [Next]_vars => (IInv /\ OrderInv)'
  BY NextIInv, NextOrder
<1> QED
  BY <1>1, <1>2, PTL DEF Spec

\* Whenever the receive loop can take a turn.start, the actor can too: the
\* end of the last turn reached the actor before it reached the handler
\* (handleTurnStart after finishPacedResponse, retireActiveTurn or a cancel).
THEOREM ActorFollows == Spec => []ActorFollowsHandler
<1>1. IInv /\ OrderInv => ActorFollowsHandler
  BY OrderTypes DEF OrderInv, Ends, Over, ActorFollowsHandler
<1> QED
  BY <1>1, SpecOrder, PTL

\* validateUplinkCommit and flushFinalInput leave the actor with audio and in
\* the listening phase when CommitTurn is called.
THEOREM CommitHasAudio == Spec => []CommitFindsAudio
<1>1. IInv /\ OrderInv => CommitFindsAudio
  BY OrderTypes DEF OrderInv, Listens, HasInput, CommitFindsAudio, Actor!CanCommit,
                    Actor!CanAppend
<1> QED
  BY <1>1, SpecOrder, PTL

-----------------------------------------------------------------------------
(* After the fence.                                                        *)

\* What reached the wire of a turn after its fence was under way before it.
Untouched == \A t \in Turns : t > latest => heard[t] = <<>> /\ late[t] = 0
LateInv ==
  /\ Untouched
  /\ \A t \in Turns : late[t] <= 1
       /\ (late[t] = 1 => t \in stopped /\ (Carrying => fwd.turn # t))

\* A packet is begun only for a turn that is active and not fenced.
LEMMA NewPacket ==
  ASSUME IInv, OrderInv, [Next]_vars, Carrying'
  PROVE  \/ UNCHANGED fwd
         \/ /\ Top \/ TakeEvent \/ Push
            /\ fwd'.turn \notin stopped /\ stopped' = stopped /\ Active(fwd'.turn)
<1> USE OrderTypes, Sizes
<1>0. Carries /\ Revived
  BY DEF OrderInv
<1>1. CASE Top
  <2>1. Padded \in Pacers /\ Empty(Padded)
    BY PaddedType DEF IInv, PacingInv
  <2>2. fwd'.turn = Padded.turn /\ Padded.turn # 0
    <3>1. CASE Padded.providerDone /\ Sending(Control("response.done"), Padded.turn)
      BY <2>1, <3>1 DEF Empty, Pacers, Sending
    <3>2. CASE FrameReady(Padded) /\ SendFrame(Padded)
      BY <2>1, <3>2 DEF Empty, FrameReady, Pacers, SendFrame, Sending
    <3>3. CASE fwd' = At("select")
      BY <3>3 DEF At, Carrying
    <3> QED
      BY <1>1, <3>1, <3>2, <3>3 DEF Top
  <2>3. Padded.turn = pacer.turn /\ Active(pacer.turn)
    BY <2>2 DEF Padded, Fresh, NoPacer, PacerTypes, Pacers
  <2>4. turn.active = TRUE /\ turn.id = pacer.turn
    BY <2>3 DEF Active, TurnTypes
  <2> QED
    BY <1>0, <1>1, <2>2, <2>3, <2>4 DEF Revived, Top
<1>2. CASE TakeEvent
  <2>1. CASE ~Active(Head(out).epoch)
    BY <1>2, <2>1 DEF TakeEvent, At, Carrying
  <2>2. CASE Active(Head(out).epoch)
    <3>1. turn.active = TRUE /\ turn.id \notin stopped /\ Active(turn.id)
      BY <1>2, <2>2, Current DEF TakeEvent, Active
    <3>2. Head(out).item.kind \in {"started", "text", "audio", "done", "error"}
      BY <1>2, TakenEvent DEF TakeEvent, Items, IInv
    <3>3. CASE ProviderError
      BY <3>3 DEF ProviderError, Sending, Control, Carrying
    <3>4. CASE Started \/ TextDelta \/ Done \/ \E n \in {Head(out).item.n} : AudioDelta(n)
      <4>1. \/ UNCHANGED <<stopped, fwd>> \/ fwd' = At("top")
            \/ UNCHANGED stopped /\ \E type \in {"response.start", "response.text_delta",
                                                 "response.audio_start"} :
                                      Sending(Control(type), turn.id)
        BY <3>4, EventEffects
      <4> QED
        BY <1>2, <3>1, <4>1 DEF At, Carrying, Sending
    <3> QED
      BY <1>2, <2>2, <3>2, <3>3, <3>4 DEF TakeEvent
  <2> QED
    BY <2>1, <2>2
<1>3. CASE Push
  <2>1. fwd.packet.end \in BOOLEAN /\ fwd.at = "push" /\ stopped' = stopped
    BY <1>3 DEF Push, FwdTypes, Packet
  <2>2. CASE fwd' = At("top") \/ fwd' = [fwd EXCEPT !.at = "clear"]
    BY <2>1, <2>2 DEF At, Carrying, FwdTypes
  <2>3. CASE /\ fwd.packet.type = "pcm" /\ Active(fwd.turn)
             /\ Sending(Control("response.done"), fwd.turn)
    <3>1. fwd.turn = pacer.turn /\ fwd'.turn = fwd.turn
      BY <1>0, <2>1, <2>3 DEF Carries, Carrying, Sending
    <3>2. turn.active = TRUE /\ turn.id = fwd.turn
      BY <2>3 DEF Active, TurnTypes
    <3> QED
      BY <1>0, <1>3, <2>1, <2>3, <3>1, <3>2 DEF Revived
  <2> QED
    BY <1>3, <2>2, <2>3 DEF Push, AfterPush
<1>4. CASE Drop \/ FinishPacedResponse \/ TimerFires
  BY <1>4 DEF Drop, FinishPacedResponse, TimerFires, At, Carrying
<1>5. CASE UNCHANGED fwd
  BY <1>5
<1>6. StreamClosed \/ Due \/ PeerGone \/ ActorCloses => UNCHANGED fwd
  BY DEF StreamClosed, Due, PeerGone, ActorCloses, ForwarderVars
<1>7. (\E m \in Messages : TakeMessage(m)) \/ ReceiveLoop => UNCHANGED fwd
  BY DEF TakeMessage, Receive, TurnStart, TurnStartClosed, TurnCancel, Unsupported,
    TurnCongestion, ReceiveLoop, TurnCommit, FlushFinalInput, CommitActor, HandlePCM,
    AppendInput, BelongsToActiveTurn, RetireActiveTurn, CancelActor, ForwarderVars
<1>8. (\E item \in Items : ProviderAnswers(item)) \/ UNCHANGED vars => UNCHANGED fwd
  BY DEF ProviderAnswers, vars
<1> QED
  BY <1>1, <1>2, <1>3, <1>4, <1>5, <1>6, <1>7, <1>8 DEF Next, ForwardEvents

\* Fences are not taken back, and turns are numbered upwards.
LEMMA Forward ==
  ASSUME IInv, OrderInv, [Next]_vars
  PROVE  stopped \subseteq stopped' /\ latest' >= latest
<1>0. latest \in Nat
  BY OrderTypes
<1>1. CASE \E m \in Messages : TakeMessage(m)
  <2> PICK m \in Messages : TakeMessage(m)
    BY <1>1
  <2>0. m.id \in 0..MaxTurn
    BY Sizes DEF Messages
  <2>1. m.id \in Nat
    BY <2>0, Sizes
  <2>2. CASE TurnStart(m)
    BY <1>0, <2>1, <2>2 DEF TurnStart, Actor!Start, Actor!CanStart
  <2>3. CASE TurnCancel(m)
    BY <1>0, <2>3 DEF TurnCancel, Fence, actorVars
  <2>4. CASE Receive(m) \/ TurnStartClosed(m) \/ Unsupported(m) \/ TurnCongestion(m)
    BY <1>0, <2>4 DEF Receive, TurnStartClosed, Unsupported, TurnCongestion, actorVars
  <2> QED
    BY <2>2, <2>3, <2>4 DEF TakeMessage
<1>2. CASE ReceiveLoop
  BY <1>0, <1>2 DEF ReceiveLoop, TurnCommit, FlushFinalInput, CommitActor, HandlePCM, AppendInput,
    BelongsToActiveTurn, RetireActiveTurn, CancelActor, Fence, Actor!Append1, Actor!Commit,
    Actor!Cancel, actorVars
<1>3. CASE ForwardEvents
  <2>1. TakeEvent => stopped \subseteq stopped' /\ UNCHANGED latest
    <3>1. Head(out).item.kind \in {"started", "text", "audio", "done", "error"} \/ ~TakeEvent
      BY TakenEvent DEF TakeEvent, Items, IInv
    <3>2. ProviderError => stopped \subseteq stopped'
      BY DEF ProviderError, Fence
    <3>3. TakeEvent => UNCHANGED latest
      BY DEF TakeEvent, LoopVars
    <3>4. TakeEvent /\ ~Active(Head(out).epoch) => UNCHANGED stopped
      BY DEF TakeEvent
    <3>5. Started \/ TextDelta \/ Done \/ AudioDelta(Head(out).item.n) => UNCHANGED stopped
      BY EventEffects
    <3>6. TakeEvent => \/ ~Active(Head(out).epoch) \/ ProviderError
                       \/ Started \/ TextDelta \/ Done \/ AudioDelta(Head(out).item.n)
      BY <3>1 DEF TakeEvent
    <3> QED
      BY <3>2, <3>3, <3>4, <3>5, <3>6
  <2> QED
    BY <1>0, <1>3, <2>1 DEF ForwardEvents, Top, TimerFires, StreamClosed, Push, Drop,
      FinishPacedResponse, LoopVars
<1>4. CASE (\E item \in Items : ProviderAnswers(item)) \/ ActorCloses
  <2>1. UNCHANGED <<stopped, latest>>
    BY <1>4, Zenon DEF ProviderAnswers, ActorCloses, Actor!Answer, Actor!Close
  <2> QED
    BY <1>0, <2>1
<1>5. CASE PeerGone \/ Due \/ UNCHANGED vars
  <2>1. UNCHANGED <<stopped, latest>>
    BY <1>5 DEF PeerGone, Due, actorVars, vars
  <2> QED
    BY <1>0, <2>1
<1> QED
  BY <1>1, <1>2, <1>3, <1>4, <1>5 DEF Next

\* Only what the send queue takes is heard.
LEMMA HeardByPush ==
  ASSUME [Next]_vars
  PROVE  UNCHANGED <<heard, late>> \/ Push
  BY DEF Next, TakeMessage, Receive, TurnStart, TurnStartClosed, TurnCancel, Unsupported,
    TurnCongestion, ReceiveLoop, TurnCommit, FlushFinalInput, CommitActor, HandlePCM,
    AppendInput, BelongsToActiveTurn, RetireActiveTurn, CancelActor, ForwarderVars, history,
    ForwardEvents, Top, TimerFires, TakeEvent, StreamClosed, Drop, FinishPacedResponse,
    PeerGone, Due, ProviderAnswers, ActorCloses, vars

LEMMA LateStep ==
  ASSUME IInv, OrderInv, LateInv, [Next]_vars
  PROVE  LateInv'
<1>a. latest \in Nat /\ latest' \in Nat
  <2>1. IInv'
    BY NextIInv
  <2> QED
    BY <2>1, OrderTypes, Sizes DEF IInv, ActorInv, ActorTypes
<1>0. stopped \subseteq stopped' /\ latest' >= latest
  BY Forward
<1>1. heard \in [Turns -> Seq(Packet)] /\ late \in [Turns -> Nat]
  BY DEF IInv, HistoryInv, HeardTypes
<1>2. \A t \in Turns : t \in Nat
  BY Sizes DEF Turns
<1>3. CASE UNCHANGED <<heard, late>>
  <2>1. Untouched'
    BY <1>a, <1>0, <1>2, <1>3 DEF LateInv, Untouched
  <2>2. \A t \in Turns : late[t] = 1 => (Carrying' => fwd'.turn # t)
    <3> SUFFICES ASSUME NEW t \in Turns, late[t] = 1, Carrying', fwd'.turn = t PROVE FALSE
      OBVIOUS
    <3>1. CASE UNCHANGED fwd
      BY <3>1 DEF LateInv, Carrying
    <3> QED
      BY <3>1, NewPacket DEF LateInv
  <2> QED
    BY <1>0, <1>3, <2>1, <2>2 DEF LateInv
<1>4. CASE Push
  <2>0. fwd.at = "push" /\ UNCHANGED <<latest, stopped>>
    BY <1>4 DEF Push, LoopVars
  <2>1. \A t \in Turns : t # fwd.turn => heard'[t] = heard[t] /\ late'[t] = late[t]
    BY <1>1, <1>4 DEF Push
  <2>2. fwd.turn <= latest /\ fwd.turn \in Nat
    BY OrderTypes DEF OrderInv, Numbers
  <2>3. Untouched'
    BY <1>a, <1>2, <2>0, <2>1, <2>2 DEF LateInv, Untouched
  <2>4. ASSUME NEW t \in Turns
        PROVE  late'[t] <= 1 /\ (late'[t] = 1 => t \in stopped')
    <3>0. late[t] \in Nat
      BY <1>1
    <3>1. late[t] \in {0, 1} /\ (late[t] = 1 => t \in stopped /\ (Carrying => fwd.turn # t))
      BY <3>0 DEF LateInv
    <3>2. late'[t] # late[t] => /\ t = fwd.turn /\ t \in stopped /\ Carrying
                                /\ late'[t] = late[t] + 1
      BY <1>1, <1>4, <2>0 DEF Push, Carrying
    <3> QED
      BY <2>0, <3>1, <3>2
  <2>5. ASSUME NEW t \in Turns, late'[t] = 1, Carrying', fwd'.turn = t
        PROVE  FALSE
    <3>1. ~UNCHANGED fwd
      <4>1. FwdTypes
        BY OrderTypes
      <4>2. fwd.packet.type = "pcm" => fwd' # fwd
        BY <1>4, <2>0 DEF Push, AfterPush, Sending, At, Control
      <4>3. fwd.packet.type # "pcm" => fwd' # fwd
        BY <1>4, <2>0, <4>1 DEF Push, AfterPush, At, FwdTypes
      <4> QED
        BY <4>2, <4>3
    <3> QED
      BY <2>0, <2>4, <2>5, <3>1, NewPacket
  <2> QED
    BY <2>3, <2>4, <2>5 DEF LateInv
<1> QED
  BY <1>3, <1>4, HeardByPush

LEMMA SpecLate == Spec => [](IInv /\ OrderInv /\ LateInv)
<1>1. Init => LateInv
  BY DEF Init, LateInv, Untouched
<1>2. LateInv /\ IInv /\ OrderInv /\ [Next]_vars => LateInv'
  BY LateStep
<1> QED
  BY <1>1, <1>2, SpecOrder, PTL DEF Spec

\* Fencing a turn stops its wire but for the packet whose enqueue had begun:
\* cancelTurn, retireActiveTurn and ProviderError cancel downlinkCtx under the
\* lock forwardEvents reserves each packet with.
THEOREM OneLatePacket == Spec => []AtMostOneLate
<1>1. LateInv => AtMostOneLate
  BY DEF LateInv, AtMostOneLate
<1> QED
  BY <1>1, SpecLate, PTL

-----------------------------------------------------------------------------
(* The wire of a turn.                                                     *)

Has(h, type) == \E i \in DOMAIN h : h[i].type = type
Pcm(h) == {i \in DOMAIN h : h[i].type = "pcm"}
NoEnd(h) == \A i \in Pcm(h) : h[i].end = FALSE
NumberedTo(h, n) ==
  /\ \A i \in Pcm(h) : h[i].seq < n
  /\ \A s \in 0..(n - 1) : \E i \in Pcm(h) : h[i].seq = s
Precedes(h, a, b) ==
  \A j \in DOMAIN h : h[j].type = b => \E i \in 1..(j - 1) : h[i].type = a

\* WireWellFormed, of the packets of one turn.
Announced(h) ==
  /\ Precedes(h, "response.start", "response.text_delta")
  /\ Precedes(h, "response.start", "response.audio_start")
  /\ Precedes(h, "response.start", "response.done")
  /\ Precedes(h, "response.audio_start", "pcm")
Counted(h) ==
  /\ \A i, j \in Pcm(h) : i < j => h[i].seq < h[j].seq /\ ~h[i].end
  /\ \A i \in Pcm(h) : \A s \in 0..(h[i].seq - 1) : \E j \in Pcm(h) : h[j].seq = s
DoneLast(h) ==
  \A i \in DOMAIN h : h[i].type = "response.done" =>
     /\ \A j \in DOMAIN h : j > i => h[j].type \notin {"pcm", "response.done"}
     /\ Pcm(h) # {} => \E j \in Pcm(h) : h[j].end
WellFormed(h) == Announced(h) /\ Counted(h) /\ DoneLast(h)

\* What a turn's wire must have come to before a packet is put on it.
Fits(h, p) ==
  /\ ~Has(h, "response.done")
  /\ p.type # "response.start" => Has(h, "response.start")
  /\ p.type = "pcm" => Has(h, "response.audio_start") /\ NoEnd(h) /\ NumberedTo(h, p.seq)
  /\ p.type = "response.done" => Pcm(h) = {} \/ ~NoEnd(h)
InFlight == Carrying => Fits(heard[fwd.turn], fwd.packet)

\* While an answer is paced, its pacer and its turn agree with its wire.
Pacing ==
  /\ pacer.turn # 0 /\ Active(pacer.turn)
  /\ fwd.at # "clear" /\ ~(fwd.at = "push" /\ fwd.packet.type = "response.done")
CarryingA(type) == Carrying /\ fwd.packet.type = type
Paced(h) ==
  /\ ~Has(h, "response.done") /\ NoEnd(h) /\ NumberedTo(h, pacer.wireFrames)
  /\ Has(h, "response.start") \/ CarryingA("response.start")
  /\ turn.outputStarted = TRUE => Has(h, "response.audio_start") \/ CarryingA("response.audio_start")
PacedTurn ==
  /\ turn.outputSequence = pacer.wireFrames + IF CarryingA("pcm") THEN 1 ELSE 0
  /\ CarryingA("pcm") => fwd.packet.seq = pacer.wireFrames
  /\ pacer.pending > 0 \/ pacer.wireFrames > 0 => turn.outputStarted = TRUE
Linked == Pacing => Paced(heard[pacer.turn]) /\ PacedTurn

\* A turn that is over is fenced, and one that is not has said nothing until
\* the pacer is begun for it.
Retired == turn.id # 0 /\ turn.active = FALSE => turn.id \in stopped
Unspoken ==
  turn.id # 0 /\ turn.id \notin stopped /\ turn.id # pacer.turn =>
    heard[turn.id] = <<>> /\ turn.outputSequence = 0 /\ turn.outputStarted = FALSE

WireInv ==
  /\ \A t \in Turns : WellFormed(heard[t])
  /\ InFlight /\ Linked /\ Retired /\ Unspoken

LEMMA PacketFields == \A p \in Packet : p.seq \in Nat /\ p.end \in BOOLEAN
<1> SUFFICES ASSUME NEW p \in Packet PROVE p.seq \in Nat /\ p.end \in BOOLEAN
  OBVIOUS
<1>1. CASE p \in [type : {"response.start", "response.text_delta", "response.audio_start",
                         "response.done", "error"}, seq : {0}, end : {FALSE}, n : {0}]
  <2>1. p.seq \in {0} /\ p.end \in {FALSE}
    BY <1>1
  <2>2. p.seq \in Nat
    BY <2>1
  <2>3. p.end \in BOOLEAN
    BY <2>1, Zenon
  <2> QED
    BY <2>2, <2>3
<1>2. CASE p \in [type : {"pcm"}, seq : Nat, end : BOOLEAN, n : 1..OutFrame]
  BY <1>2
<1> QED
  BY <1>1, <1>2 DEF Packet

\* A queue with one packet more.
LEMMA OneMore ==
  ASSUME NEW h \in Seq(Packet), NEW p \in Packet
  PROVE  /\ DOMAIN h = 1..Len(h) /\ Len(h) \in Nat
         /\ DOMAIN Append(h, p) = 1..(Len(h) + 1) /\ Append(h, p)[Len(h) + 1] = p
         /\ \A i \in 1..Len(h) : Append(h, p)[i] = h[i] /\ h[i] \in Packet
<1>1. /\ Append(h, p) \in Seq(Packet) /\ Len(Append(h, p)) = Len(h) + 1
      /\ \A i \in 1..Len(h) : Append(h, p)[i] = h[i]
      /\ Append(h, p)[Len(h) + 1] = p
  BY AppendProperties
<1>2. DOMAIN Append(h, p) = 1..(Len(h) + 1)
  BY <1>1, LenProperties
<1> QED
  BY <1>1, <1>2, LenProperties

\* What a packet adds to a queue.
LEMMA Added ==
  ASSUME NEW h \in Seq(Packet), NEW p \in Packet
  PROVE  /\ \A type : Has(Append(h, p), type) <=> Has(h, type) \/ p.type = type
         /\ Pcm(Append(h, p)) = Pcm(h) \cup {i \in {Len(h) + 1} : p.type = "pcm"}
         /\ Len(h) + 1 \notin Pcm(h) /\ Pcm(h) \subseteq 1..Len(h)
         /\ NoEnd(Append(h, p)) <=> NoEnd(h) /\ (p.type = "pcm" => p.end = FALSE)
<1> DEFINE g == Append(h, p)
           n == Len(h) + 1
<1>1. /\ DOMAIN h = 1..Len(h) /\ Len(h) \in Nat /\ DOMAIN g = 1..n /\ g[n] = p
      /\ \A i \in 1..Len(h) : g[i] = h[i]
  BY OneMore
<1>2. 1..n = 1..Len(h) \cup {n} /\ n \notin 1..Len(h)
  BY <1>1
<1> HIDE DEF g, n
<1>3. \A type : Has(g, type) <=> Has(h, type) \/ p.type = type
  BY <1>1, <1>2 DEF Has
<1>4. Pcm(g) = Pcm(h) \cup {i \in {n} : p.type = "pcm"} /\ Pcm(h) \subseteq 1..Len(h)
  BY <1>1, <1>2 DEF Pcm
<1>5. NoEnd(g) <=> NoEnd(h) /\ (p.type = "pcm" => p.end = FALSE)
  BY <1>1, <1>2, <1>4 DEF NoEnd
<1> QED
  BY <1>2, <1>3, <1>4, <1>5 DEF g, n

\* The frames count up by one.
LEMMA CountedOn ==
  ASSUME NEW h \in Seq(Packet), NEW p \in Packet, NEW n \in Nat, NumberedTo(h, n)
  PROVE  /\ p.type # "pcm" => NumberedTo(Append(h, p), n)
         /\ p.type = "pcm" /\ p.seq = n => NumberedTo(Append(h, p), n + 1)
<1> DEFINE g == Append(h, p)
           m == Len(h) + 1
<1>1. /\ Pcm(g) = Pcm(h) \cup {i \in {m} : p.type = "pcm"} /\ g[m] = p
      /\ \A i \in Pcm(h) : g[i] = h[i] /\ h[i].seq \in Nat
  <2>1. /\ Pcm(g) = Pcm(h) \cup {i \in {m} : p.type = "pcm"} /\ g[m] = p
        /\ \A i \in 1..Len(h) : g[i] = h[i] /\ h[i] \in Packet
        /\ Pcm(h) \subseteq 1..Len(h)
    BY OneMore, Added
  <2>2. \A i \in Pcm(h) : h[i].seq \in Nat
    BY <2>1, PacketFields
  <2> QED
    BY <2>1, <2>2
<1> HIDE DEF g, m
<1>2. p.type # "pcm" => NumberedTo(g, n)
  BY <1>1 DEF NumberedTo
<1>3. ASSUME p.type = "pcm", p.seq = n
      PROVE  NumberedTo(g, n + 1)
  <2>1. \A i \in Pcm(g) : g[i].seq < n + 1
    BY <1>1, <1>3 DEF NumberedTo
  <2>2. ASSUME NEW s \in 0..n
        PROVE  \E i \in Pcm(g) : g[i].seq = s
    <3>1. CASE s = n
      BY <1>1, <1>3, <3>1
    <3>2. CASE s # n
      <4>1. s \in 0..(n - 1)
        BY <3>2
      <4> QED
        BY <1>1, <4>1 DEF NumberedTo
    <3> QED
      BY <3>1, <3>2
  <2> QED
    BY <2>1, <2>2 DEF NumberedTo
<1> QED
  BY <1>2, <1>3 DEF g

\* A packet that fits leaves the wire well formed; so does an error anywhere.
LEMMA FittingPacket ==
  ASSUME NEW h \in Seq(Packet), NEW p \in Packet, WellFormed(h),
         Fits(h, p) \/ p.type = "error"
  PROVE  WellFormed(Append(h, p))
<1> DEFINE g == Append(h, p)
           n == Len(h) + 1
<1>1. /\ DOMAIN h = 1..Len(h) /\ Len(h) \in Nat /\ DOMAIN g = 1..n /\ g[n] = p
      /\ \A i \in 1..Len(h) : g[i] = h[i] /\ h[i] \in Packet
  BY OneMore
<1>2. 1..n = 1..Len(h) \cup {n} /\ n \notin 1..Len(h) /\ n \in Nat /\ n - 1 = Len(h)
  BY <1>1
<1>3. Pcm(g) = Pcm(h) \cup {i \in {n} : p.type = "pcm"} /\ Pcm(h) \subseteq 1..Len(h)
  BY Added
<1>4. \A i \in Pcm(h) : h[i].seq \in Nat /\ g[i] = h[i]
  <2>1. \A i \in Pcm(h) : i \in 1..Len(h)
    BY <1>3
  <2> QED
    BY <1>1, <2>1, PacketFields
<1>9. p.type = "pcm" => p.seq \in Nat /\ NumberedTo(h, p.seq) /\ NoEnd(h)
  BY DEF Packet, Fits
<1> HIDE DEF g, n
<1>5. ASSUME NEW a, NEW b, Precedes(h, a, b), p.type = b => Has(h, a)
      PROVE  Precedes(g, a, b)
  <2> SUFFICES ASSUME NEW j \in DOMAIN g, g[j].type = b
               PROVE  \E i \in 1..(j - 1) : g[i].type = a
    BY DEF Precedes
  <2>1. CASE j \in 1..Len(h)
    <3>1. PICK i \in 1..(j - 1) : h[i].type = a
      BY <1>1, <1>5, <2>1 DEF Precedes
    <3>2. i \in 1..Len(h)
      BY <1>1, <2>1, <3>1
    <3> QED
      BY <1>1, <3>1, <3>2
  <2>2. CASE j = n
    BY <1>1, <1>2, <1>5, <2>2 DEF Has
  <2> QED
    BY <1>1, <1>2, <2>1, <2>2
<1>6. Announced(g)
  <2>1. /\ p.type \in {"response.text_delta", "response.audio_start", "response.done"} =>
             Has(h, "response.start")
        /\ p.type = "pcm" => Has(h, "response.audio_start")
    BY DEF Fits
  <2> QED
    BY <1>5, <2>1 DEF WellFormed, Announced
<1>7. Counted(g)
  <2>1. Counted(h)
    BY DEF WellFormed
  <2>2. CASE p.type # "pcm"
    BY <1>3, <1>4, <2>1, <2>2 DEF Counted
  <2>3. CASE p.type = "pcm"
    <3>1. \A i \in Pcm(h) : i < n /\ h[i].seq < p.seq /\ h[i].end = FALSE
      BY <1>1, <1>2, <1>3, <1>9, <2>3 DEF NumberedTo, NoEnd
    <3>2. \A i, j \in Pcm(g) : i < j => g[i].seq < g[j].seq /\ ~g[i].end
      <4> TAKE i, j \in Pcm(g)
      <4> HAVE i < j
      <4>1. i \in Pcm(h)
        BY <1>1, <1>2, <1>3
      <4>2. CASE j = n
        BY <1>1, <1>4, <3>1, <4>1, <4>2
      <4>3. CASE j \in Pcm(h)
        BY <1>4, <2>1, <4>1, <4>3 DEF Counted
      <4> QED
        BY <1>3, <4>2, <4>3
    <3>3. \A s \in 0..(p.seq - 1) : \E j \in Pcm(g) : g[j].seq = s
      BY <1>3, <1>4, <1>9, <2>3 DEF NumberedTo
    <3>4. \A i \in Pcm(h) : \A s \in 0..(h[i].seq - 1) : \E j \in Pcm(g) : g[j].seq = s
      BY <1>3, <1>4, <2>1 DEF Counted
    <3> QED
      BY <1>1, <1>3, <1>4, <3>2, <3>3, <3>4 DEF Counted
  <2> QED
    BY <2>2, <2>3
<1>8. DoneLast(g)
  <2> SUFFICES ASSUME NEW i \in DOMAIN g, g[i].type = "response.done"
               PROVE  /\ \A j \in DOMAIN g : j > i => g[j].type \notin {"pcm", "response.done"}
                      /\ Pcm(g) # {} => \E j \in Pcm(g) : g[j].end
    BY DEF DoneLast
  <2>1. CASE i = n
    <3>1. p.type = "response.done" /\ (Pcm(h) = {} \/ ~NoEnd(h)) /\ Pcm(g) = Pcm(h)
      BY <1>1, <1>3, <2>1 DEF Fits
    <3>2. \A j \in Pcm(h) : h[j].end \in BOOLEAN
      BY <1>1, <1>3 DEF Packet
    <3> QED
      BY <1>1, <1>2, <1>4, <2>1, <3>1, <3>2 DEF NoEnd
  <2>2. CASE i \in 1..Len(h)
    <3>1. h[i].type = "response.done" /\ Has(h, "response.done")
      BY <1>1, <2>2 DEF Has
    <3>2. p.type = "error"
      BY <3>1 DEF Fits
    <3>3. Pcm(g) = Pcm(h)
      BY <1>3, <3>2
    <3> QED
      BY <1>1, <1>2, <1>4, <2>2, <3>1, <3>2, <3>3 DEF WellFormed, DoneLast
  <2> QED
    BY <1>1, <1>2, <2>1, <2>2
<1> QED
  BY <1>6, <1>7, <1>8 DEF WellFormed, g

\* Steps that put nothing on the wire: the receive loop's, the actor's, and
\* those of forwardEvents that wait.
LEMMA WireStill ==
  ASSUME IInv, OrderInv, LateInv, WireInv,
         UNCHANGED heard, stopped \subseteq stopped',
         fwd' = fwd \/ (fwd.at \in {"select", "top"} /\ fwd'.at = "top"),
         pacer'.turn = pacer.turn, pacer'.pending = pacer.pending,
         pacer'.wireFrames = pacer.wireFrames,
         \/ UNCHANGED turn
         \/ Fence
         \/ \E m \in Messages : TurnStart(m)
         \/ /\ turn'.id = turn.id /\ turn'.outputSequence = turn.outputSequence
            /\ turn'.outputStarted = turn.outputStarted
            /\ turn'.active = turn.active \/ (loop.at = "flush" /\ turn'.active = TRUE)
  PROVE  WireInv'
<1>0. TurnTypes /\ latest \in Nat /\ pacer.turn \in Nat
  BY OrderTypes
<1>1. \A t \in Turns : WellFormed(heard'[t])
  BY DEF WireInv
<1>2. Carrying' \/ Carrying => fwd' = fwd
  BY DEF Carrying
<1>3. InFlight'
  BY <1>2 DEF WireInv, InFlight, Carrying
<1>4. /\ CarryingA("pcm")' <=> CarryingA("pcm")
      /\ CarryingA("response.start")' <=> CarryingA("response.start")
      /\ CarryingA("response.audio_start")' <=> CarryingA("response.audio_start")
  BY <1>2 DEF CarryingA, Carrying
<1>5. CASE \E m \in Messages : TurnStart(m)
  <2> PICK m \in Messages : TurnStart(m)
    BY <1>5
  <2>1. m.id \in 0..MaxTurn
    BY Sizes DEF Messages
  <2>2. m.id \in Turns /\ m.id > latest
    BY <2>1, Sizes DEF TurnStart, StartValid, Actor!Start, Actor!CanStart
  <2>3. turn' = NewTurn(m.id)
    BY DEF TurnStart
  <2>4. /\ turn'.id = m.id /\ turn'.active = TRUE /\ turn'.outputSequence = 0
        /\ turn'.outputStarted = FALSE
    BY <2>3 DEF NewTurn, NoTurn
  <2>5. heard[m.id] = <<>> /\ pacer.turn # m.id
    BY <1>0, <2>2 DEF LateInv, Untouched, OrderInv, Numbers, Turns
  <2>6. ~Pacing'
    BY <2>4, <2>5 DEF Pacing, Active
  <2> QED
    BY <1>1, <1>3, <2>4, <2>5, <2>6 DEF WireInv, Linked, Retired, Unspoken
<1>6. CASE ~\E m \in Messages : TurnStart(m)
  <2>1. /\ turn'.id = turn.id /\ turn'.outputSequence = turn.outputSequence
        /\ turn'.outputStarted = turn.outputStarted
        /\ \/ turn'.active = turn.active
           \/ turn'.active = TRUE /\ loop.at = "flush"
           \/ turn'.active = FALSE /\ (turn.id # 0 => turn.id \in stopped')
    BY <1>0, <1>6, Fenced DEF TurnTypes
  <2>2. loop.at = "flush" => pacer.turn # turn.id
    BY DEF OrderInv, SilentTurn, LoopPlaces, Silent
  <2>3. Pacing' => Pacing
    BY <1>0, <2>1, <2>2 DEF Pacing, Active, TurnTypes
  <2>4. Linked'
    <3> SUFFICES ASSUME Pacing' PROVE Paced(heard[pacer.turn])' /\ PacedTurn'
      BY DEF Linked
    <3>1. Paced(heard[pacer.turn]) /\ PacedTurn
      BY <2>3 DEF WireInv, Linked
    <3>2. Paced(heard[pacer.turn])'
      BY <1>4, <2>1, <3>1 DEF Paced
    <3>3. PacedTurn'
      BY <1>2, <1>4, <2>1, <3>1 DEF PacedTurn, CarryingA
    <3> QED
      BY <3>2, <3>3
  <2>5. Retired'
    BY <2>1 DEF WireInv, Retired
  <2>6. Unspoken'
    BY <2>1 DEF WireInv, Unspoken
  <2> QED
    BY <1>1, <1>3, <2>4, <2>5, <2>6 DEF WireInv
<1> QED
  BY <1>5, <1>6

\* The pacer at the top of the loop is that of a turn whose wire it agrees
\* with, or empty.
LEMMA AtTop ==
  ASSUME IInv, OrderInv, WireInv, fwd.at = "top"
  PROVE  /\ Padded \in Pacers
         /\ Padded.turn # 0 =>
              /\ Padded.turn = pacer.turn /\ pacer.turn = turn.id /\ turn.active = TRUE
              /\ Padded.wireFrames = pacer.wireFrames
              /\ Paced(heard[Padded.turn]) /\ PacedTurn /\ \A type : ~CarryingA(type)
              /\ Padded.pending > 0 => turn.outputStarted = TRUE
              /\ Padded.providerDone = TRUE /\ Padded.pending = 0 => pacer.wireFrames = 0
         /\ Padded.turn = 0 => pacer.turn = 0 \/ ~Active(pacer.turn)
<1> USE OrderTypes, Sizes
<1>1. Padded \in Pacers
  BY PaddedType DEF IInv, PacingInv
<1>2. Padded.turn # 0 =>
        /\ Padded.turn = pacer.turn /\ Active(pacer.turn) /\ Fresh = pacer
        /\ Padded.wireFrames = pacer.wireFrames
        /\ Padded.pending = pacer.pending \/ (pacer.wireFrames # 0 /\ Padded.pending = 1)
  BY DEF Padded, Fresh, NoPacer, PacerTypes, Pacers
<1>3. Padded.turn # 0 =>
        (Padded.providerDone = TRUE /\ Padded.pending = 0 => pacer.wireFrames = 0)
  BY <1>2 DEF Padded, PacerTypes, Pacers
<1>4. Padded.turn = 0 => pacer.turn = 0 \/ ~Active(pacer.turn)
  BY DEF Padded, Fresh, NoPacer, PacerTypes, Pacers
<1>5. ASSUME Padded.turn # 0
      PROVE  /\ pacer.turn = turn.id /\ turn.active = TRUE
             /\ Paced(heard[Padded.turn]) /\ PacedTurn /\ \A type : ~CarryingA(type)
             /\ Padded.pending > 0 => turn.outputStarted = TRUE
  <2>1. pacer.turn = turn.id /\ turn.active = TRUE /\ Pacing
    BY <1>2, <1>5 DEF Active, TurnTypes, Pacing
  <2>2. Paced(heard[Padded.turn]) /\ PacedTurn
    BY <1>2, <1>5, <2>1 DEF WireInv, Linked
  <2>3. \A type : ~CarryingA(type)
    BY DEF CarryingA, Carrying
  <2>4. Padded.pending > 0 => turn.outputStarted = TRUE
    <3>1. pacer.pending \in Nat /\ pacer.wireFrames \in Nat
      BY DEF PacerTypes, Pacers
    <3> QED
      BY <1>2, <1>5, <2>2, <3>1 DEF PacedTurn
  <2> QED
    BY <2>1, <2>2, <2>3, <2>4
<1> QED
  BY <1>1, <1>2, <1>3, <1>4, <1>5

LEMMA TopWire ==
  ASSUME IInv, OrderInv, LateInv, WireInv, Top
  PROVE  WireInv'
<1>0. /\ fwd.at = "top" /\ UNCHANGED <<stopped, heard>> /\ pacer' = Padded
  BY DEF Top
<1>1. /\ Padded \in Pacers
      /\ Padded.turn # 0 =>
           /\ Padded.turn = pacer.turn /\ pacer.turn = turn.id /\ turn.active = TRUE
           /\ Padded.wireFrames = pacer.wireFrames
           /\ Paced(heard[Padded.turn]) /\ PacedTurn /\ \A type : ~CarryingA(type)
           /\ Padded.pending > 0 => turn.outputStarted = TRUE
           /\ Padded.providerDone = TRUE /\ Padded.pending = 0 => pacer.wireFrames = 0
      /\ Padded.turn = 0 => pacer.turn = 0 \/ ~Active(pacer.turn)
  BY <1>0, AtTop
<1>2. TurnTypes /\ PacerTypes /\ Empty(Padded) /\ Retired /\ Unspoken
  BY OrderTypes, PaddedType DEF WireInv, IInv, PacingInv
<1>3. \A t \in Turns : WellFormed(heard'[t])
  BY <1>0 DEF WireInv
<1>4. /\ turn'.id = turn.id /\ turn'.active = turn.active
      /\ turn'.outputStarted = turn.outputStarted
      /\ turn'.outputSequence = turn.outputSequence \/ Padded.turn # 0
  <2>1. FrameReady(Padded) => Padded.turn # 0
    BY <1>1, <1>2, Sizes DEF Empty, FrameReady, Pacers
  <2> QED
    BY <1>2, <2>1 DEF Top, SendFrame, TurnTypes
<1>5. Retired'
  BY <1>0, <1>2, <1>4 DEF Retired
<1>6. Unspoken'
  <2>1. turn.id = pacer.turn /\ Padded.turn = 0 /\ turn.id # 0 => turn.id \in stopped
    BY <1>1, <1>2 DEF Active, Retired, TurnTypes
  <2> QED
    BY <1>0, <1>1, <1>2, <1>4, <2>1 DEF Unspoken
<1>7. CASE Padded.providerDone /\ Padded.pending = 0
             /\ Sending(Control("response.done"), Padded.turn)
  <2>1. Padded.turn # 0 /\ Padded.providerDone = TRUE
    BY <1>1, <1>2, <1>7 DEF Empty, Pacers
  <2>2. ~Pacing' /\ fwd'.turn = Padded.turn /\ fwd'.packet.type = "response.done"
    BY <1>7 DEF Pacing, Sending, Control
  <2>3. Fits(heard[Padded.turn], fwd'.packet)
    <3> DEFINE h == heard[Padded.turn]
    <3>1. /\ ~Has(h, "response.done") /\ Has(h, "response.start") /\ NumberedTo(h, 0)
      BY <1>1, <1>7, <2>1 DEF Paced
    <3>2. Pcm(h) = {}
      <4>1. Padded.turn \in Turns
        BY <1>1, <2>1, Sizes DEF Pacers
      <4>2. h \in Seq(Packet)
        BY <4>1 DEF IInv, HistoryInv, HeardTypes
      <4>3. \A i \in DOMAIN h : h[i].seq \in Nat
        BY <4>2, PacketFields
      <4> HIDE DEF h
      <4> QED
        BY <3>1, <4>3 DEF NumberedTo, Pcm
    <3> QED
      BY <2>2, <3>1, <3>2 DEF Fits
  <2> QED
    BY <1>0, <1>3, <1>5, <1>6, <2>2, <2>3 DEF WireInv, InFlight, Linked
<1>8. CASE FrameReady(Padded) /\ SendFrame(Padded)
  <2>1. Padded.turn # 0 /\ Padded.pending > 0
    BY <1>1, <1>2, <1>8, Sizes DEF Empty, FrameReady, Pacers
  <2>2. /\ turn.outputSequence = pacer.wireFrames /\ pacer.wireFrames \in Nat
        /\ turn.outputStarted = TRUE /\ Paced(heard[Padded.turn])
    BY <1>1, <1>2, <2>1 DEF PacedTurn, PacerTypes, Pacers
  <2>3. /\ fwd'.at = "push" /\ fwd'.turn = Padded.turn /\ fwd'.packet.type = "pcm"
        /\ fwd'.packet.seq = turn.outputSequence
        /\ turn'.outputSequence = turn.outputSequence + 1
    BY <1>2, <1>8 DEF SendFrame, Sending, TurnTypes
  <2>4. CarryingA("pcm")' /\ ~CarryingA("response.start")' /\ ~CarryingA("response.audio_start")'
    BY <2>3 DEF CarryingA, Carrying
  <2>5. Has(heard[Padded.turn], "response.start") /\ Has(heard[Padded.turn], "response.audio_start")
    BY <1>1, <2>1, <2>2 DEF Paced
  <2>6. InFlight'
    BY <1>0, <2>2, <2>3, <2>5 DEF InFlight, Fits, Paced
  <2>7. Paced(heard[pacer.turn])'
    BY <1>0, <1>1, <2>1, <2>2, <2>5 DEF Paced
  <2>8. PacedTurn'
    BY <1>0, <1>1, <1>4, <2>1, <2>2, <2>3, <2>4 DEF PacedTurn
  <2> QED
    BY <1>0, <1>3, <1>5, <1>6, <2>6, <2>7, <2>8 DEF WireInv, Linked
<1>9. CASE fwd' = At("select") /\ UNCHANGED turn
  <2>1. ~Carrying' /\ \A type : ~CarryingA(type)'
    BY <1>9 DEF At, Carrying, CarryingA
  <2>2. ASSUME pacer'.turn # 0
        PROVE  Paced(heard[pacer.turn])' /\ PacedTurn'
    <3>1. Paced(heard[pacer.turn])'
      BY <1>0, <1>1, <1>9, <2>1, <2>2 DEF Paced
    <3>2. PacedTurn'
      <4>1. pacer.wireFrames \in Nat /\ Padded.pending \in Nat
        BY <1>1, <1>2 DEF PacerTypes, Pacers
      <4> QED
        BY <1>0, <1>1, <1>9, <2>1, <2>2, <4>1 DEF PacedTurn
    <3> QED
      BY <3>1, <3>2
  <2> QED
    BY <1>0, <1>3, <1>5, <1>6, <2>1, <2>2 DEF WireInv, InFlight, Linked, Pacing
<1> QED
  BY <1>7, <1>8, <1>9 DEF Top

\* An empty wire, and the packets that are announced on it.
LEMMA EmptyWire ==
  /\ \A type : ~Has(<<>>, type)
  /\ Pcm(<<>>) = {} /\ NoEnd(<<>>) /\ NumberedTo(<<>>, 0)
<1>1. Pcm(<<>>) = {}
  BY DEF Pcm
<1> QED
  BY <1>1 DEF Has, NoEnd, NumberedTo

LEMMA TakeWire ==
  ASSUME IInv, OrderInv, LateInv, WireInv, TakeEvent
  PROVE  WireInv'
<1> DEFINE event == Head(out)
<1>0. /\ fwd.at = "select" /\ out # <<>> /\ UNCHANGED heard
      /\ \A type : ~CarryingA(type)
  BY DEF TakeEvent, CarryingA, Carrying
<1>1. /\ TurnTypes /\ PacerTypes /\ Retired /\ Unspoken /\ Linked
      /\ pacer.wireFrames \in Nat /\ turn.outputStarted \in BOOLEAN
  BY OrderTypes DEF WireInv, PacerTypes, Pacers, TurnTypes
<1>2. \A t \in Turns : WellFormed(heard'[t])
  BY <1>0 DEF WireInv
<1>3. ASSUME UNCHANGED <<turn, stopped, pacer>>, UNCHANGED fwd \/ fwd' = At("top")
      PROVE  WireInv'
  <2>1. fwd' = fwd \/ fwd'.at = "top"
    BY <1>3 DEF At
  <2> QED
    BY <1>0, <1>3, <2>1, WireStill
<1>4. CASE Active(event.epoch)
  <2>0. /\ turn.active = TRUE /\ turn.id \in Turns /\ turn.id # 0 /\ turn.id \notin stopped
    BY <1>0, <1>4, Current, Sizes
  <2>a. ASSUME Active(pacer.turn)
        PROVE  /\ pacer.turn = turn.id /\ Paced(heard[turn.id]) /\ PacedTurn
               /\ Has(heard[turn.id], "response.start") /\ ~Has(heard[turn.id], "response.done")
               /\ turn.outputStarted = TRUE => Has(heard[turn.id], "response.audio_start")
               /\ turn.outputSequence = pacer.wireFrames
               /\ pacer.wireFrames > 0 => turn.outputStarted = TRUE
    <3>1. pacer.turn = turn.id /\ Pacing
      BY <1>0, <2>0, <2>a DEF Active, Pacing
    <3>2. Paced(heard[turn.id]) /\ PacedTurn
      BY <1>1, <3>1 DEF Linked
    <3> QED
      BY <1>0, <1>1, <3>1, <3>2 DEF Paced, PacedTurn
  <2>1. CASE Started
    <3>1. CASE UNCHANGED <<turn, stopped, pacer, fwd>>
      BY <1>3, <3>1
    <3>2. CASE ~UNCHANGED <<turn, stopped, pacer, fwd>>
      <4>1. /\ pacer.turn = 0 /\ pacer' = BegunFor(turn.id) /\ turn' = turn /\ stopped' = stopped
            /\ Sending(Control("response.start"), turn.id)
        BY <2>1, <3>2, EventEffects
      <4>2. pacer'.turn = turn.id /\ pacer'.wireFrames = 0 /\ pacer'.pending = 0
        BY <4>1 DEF BegunFor, NoPacer
      <4>3. /\ fwd'.turn = turn.id /\ fwd'.at = "push" /\ fwd'.packet.type = "response.start"
        BY <4>1 DEF Sending, Control
      <4>4. /\ heard[turn.id] = <<>> /\ turn.outputSequence = 0 /\ turn.outputStarted = FALSE
        BY <1>1, <2>0, <4>1 DEF Unspoken
      <4>5. CarryingA("response.start")' /\ ~CarryingA("pcm")'
        BY <4>3 DEF CarryingA, Carrying
      <4>6. InFlight'
        BY <1>0, <4>3, <4>4, EmptyWire DEF InFlight, Fits
      <4>7. Linked'
        BY <1>0, <4>1, <4>2, <4>4, <4>5, EmptyWire DEF Linked, Paced, PacedTurn
      <4>8. Retired' /\ Unspoken'
        BY <1>1, <4>1, <4>2 DEF Retired, Unspoken
      <4> QED
        BY <1>2, <4>6, <4>7, <4>8 DEF WireInv
    <3> QED
      BY <3>1, <3>2
  <2>2. CASE TextDelta
    <3>1. CASE UNCHANGED <<turn, stopped, pacer, fwd>>
      BY <1>3, <3>1
    <3>2. CASE ~UNCHANGED <<turn, stopped, pacer, fwd>>
      <4>1. /\ Active(pacer.turn) /\ UNCHANGED <<turn, stopped, pacer>>
            /\ Sending(Control("response.text_delta"), turn.id)
        BY <2>2, <3>2, EventEffects
      <4>2. /\ fwd'.turn = turn.id /\ fwd'.at = "push" /\ fwd'.packet.type = "response.text_delta"
        BY <4>1 DEF Sending, Control
      <4>3. ~CarryingA("pcm")'
        BY <4>2 DEF CarryingA, Carrying
      <4>4. InFlight'
        BY <1>0, <2>a, <4>1, <4>2 DEF InFlight, Fits
      <4>5. Paced(heard[pacer.turn])'
        BY <1>0, <2>a, <4>1 DEF Paced
      <4>6. PacedTurn'
        BY <1>0, <2>a, <4>1, <4>3 DEF PacedTurn
      <4>7. Retired' /\ Unspoken'
        BY <1>0, <1>1, <4>1 DEF Retired, Unspoken
      <4> QED
        BY <1>2, <4>4, <4>5, <4>6, <4>7 DEF WireInv, Linked
    <3> QED
      BY <3>1, <3>2
  <2>3. CASE \E n \in {event.item.n} : AudioDelta(n)
    <3>1. CASE UNCHANGED <<turn, stopped, pacer, fwd>>
      BY <1>3, <3>1
    <3>2. CASE ~UNCHANGED <<turn, stopped, pacer, fwd>>
      <4>1. /\ Active(pacer.turn) /\ stopped' = stopped
            /\ pacer' = [pacer EXCEPT !.pending = pacer.pending + event.item.n]
            /\ turn' = [turn EXCEPT !.outputStarted = TRUE]
            /\ IF turn.outputStarted THEN fwd' = At("top")
               ELSE Sending(Control("response.audio_start"), turn.id)
        BY <2>3, <3>2, EventEffects
      <4>2. /\ turn'.id = turn.id /\ turn'.active = turn.active /\ turn'.outputStarted = TRUE
            /\ turn'.outputSequence = turn.outputSequence
        BY <1>1, <4>1 DEF TurnTypes
      <4>3. pacer'.turn = pacer.turn /\ pacer'.wireFrames = pacer.wireFrames
        BY <1>1, <4>1 DEF PacerTypes, Pacers
      <4>4. /\ turn.outputStarted = TRUE => fwd'.at = "top"
            /\ turn.outputStarted = FALSE =>
                 /\ fwd'.turn = turn.id /\ fwd'.at = "push"
                 /\ fwd'.packet.type = "response.audio_start"
        BY <4>1 DEF Sending, Control, At
      <4>5. /\ ~CarryingA("pcm")'
            /\ turn.outputStarted = FALSE => CarryingA("response.audio_start")'
        BY <1>1, <4>4 DEF CarryingA, Carrying
      <4>6. InFlight'
        BY <1>0, <1>1, <2>a, <4>1, <4>4 DEF InFlight, Fits, Carrying
      <4>7. Paced(heard[pacer.turn])'
        BY <1>0, <1>1, <2>a, <4>1, <4>3, <4>5 DEF Paced
      <4>8. PacedTurn'
        BY <1>0, <2>a, <4>1, <4>2, <4>3, <4>5 DEF PacedTurn
      <4>9. Retired' /\ Unspoken'
        BY <1>0, <1>1, <2>a, <4>1, <4>2, <4>3 DEF Retired, Unspoken
      <4> QED
        BY <1>2, <4>6, <4>7, <4>8, <4>9 DEF WireInv, Linked
    <3> QED
      BY <3>1, <3>2
  <2>4. CASE Done
    <3>1. CASE UNCHANGED <<turn, stopped, pacer, fwd>>
      BY <1>3, <3>1
    <3>2. CASE ~UNCHANGED <<turn, stopped, pacer, fwd>>
      <4>1. /\ fwd' = At("top") /\ UNCHANGED <<turn, stopped>>
            /\ pacer' = [pacer EXCEPT !.providerDone = TRUE]
        BY <2>4, <3>2, EventEffects
      <4>2. /\ pacer'.turn = pacer.turn /\ pacer'.pending = pacer.pending
            /\ pacer'.wireFrames = pacer.wireFrames /\ fwd'.at = "top"
        BY <1>1, <4>1 DEF PacerTypes, Pacers, At
      <4> QED
        BY <1>0, <4>1, <4>2, WireStill
    <3> QED
      BY <3>1, <3>2
  <2>5. CASE ProviderError
    <3>1. Fence /\ pacer' = NoPacer /\ Sending(Control("error"), turn.id)
      BY <2>5 DEF ProviderError
    <3>2. /\ turn'.active = FALSE /\ turn'.id = turn.id /\ stopped' = stopped \cup {turn.id}
      BY <1>1, <2>0, <3>1, Fenced
    <3>3. pacer'.turn = 0 /\ ~Carrying'
      BY <3>1 DEF NoPacer, Sending, Control, Carrying
    <3> QED
      BY <1>2, <3>2, <3>3 DEF WireInv, InFlight, Linked, Pacing, Retired, Unspoken
  <2>6. event.item.kind \in {"started", "text", "audio", "done", "error"}
    BY TakenEvent DEF TakeEvent, Items, IInv
  <2> QED
    BY <1>4, <2>1, <2>2, <2>3, <2>4, <2>5, <2>6 DEF TakeEvent
<1>5. CASE ~Active(event.epoch)
  BY <1>3, <1>5 DEF TakeEvent
<1> QED
  BY <1>4, <1>5

LEMMA PushWire ==
  ASSUME IInv, OrderInv, LateInv, WireInv, Push
  PROVE  WireInv'
<1> DEFINE t == fwd.turn
           p == fwd.packet
           h == heard[t]
<1>0. /\ fwd.at = "push" /\ UNCHANGED <<turn, stopped>> /\ AfterPush(p)
      /\ heard' = [heard EXCEPT ![t] = Append(h, p)]
  BY DEF Push
<1>1. /\ TurnTypes /\ PacerTypes /\ FwdTypes /\ Retired /\ Unspoken /\ Linked /\ InFlight
      /\ FrameCounted /\ Revived /\ Carries
      /\ heard \in [Turns -> Seq(Packet)] /\ pacer.wireFrames \in Nat /\ p \in Packet
  BY OrderTypes DEF WireInv, IInv, PacingInv, HistoryInv, HeardTypes, OrderInv, PacerTypes,
                    Pacers, FwdTypes
<1>2. t \in Turns
  <2>1. t \in 0..MaxTurn /\ (t \in stopped \/ t # 0)
    BY <1>0, <1>1 DEF Carries, FwdTypes
  <2> QED
    BY <2>1, Sizes, OrderTypes
<1>3. /\ h \in Seq(Packet) /\ heard'[t] = Append(h, p)
      /\ \A u \in Turns \ {t} : heard'[u] = heard[u]
  BY <1>0, <1>1, <1>2
<1>4. Carrying => Fits(h, p) /\ t = pacer.turn
  BY <1>0, <1>1 DEF InFlight, Carries
<1>5. ~Carrying <=> p.type = "error"
  BY <1>0 DEF Carrying
<1>6. \A u \in Turns : WellFormed(heard'[u])
  <2>1. WellFormed(Append(h, p))
    BY <1>1, <1>2, <1>3, <1>4, <1>5, FittingPacket DEF WireInv
  <2> QED
    BY <1>3, <2>1 DEF WireInv
<1>7. Retired'
  BY <1>0, <1>1 DEF Retired
<1>8. /\ \A type : Has(Append(h, p), type) <=> Has(h, type) \/ p.type = type
      /\ NoEnd(Append(h, p)) <=> NoEnd(h) /\ (p.type = "pcm" => p.end = FALSE)
      /\ p.type = "pcm" => Pcm(Append(h, p)) # {}
  <2> HIDE DEF t, p, h
  <2>1. /\ \A type : Has(Append(h, p), type) <=> Has(h, type) \/ p.type = type
        /\ Pcm(Append(h, p)) = Pcm(h) \cup {i \in {Len(h) + 1} : p.type = "pcm"}
        /\ NoEnd(Append(h, p)) <=> NoEnd(h) /\ (p.type = "pcm" => p.end = FALSE)
    BY <1>1, <1>3, Added
  <2>2. p.type = "pcm" => Len(h) + 1 \in Pcm(Append(h, p))
    BY <2>1
  <2> QED
    BY <2>1, <2>2
<1>9. turn.id \in Turns \/ turn.id = 0
  BY <1>1, Sizes DEF TurnTypes
<1> HIDE DEF t, p, h
<1>10. Unspoken'
  <2> SUFFICES ASSUME turn.id # 0, turn.id \notin stopped, turn.id # pacer'.turn
               PROVE  turn.id # t /\ turn.id # pacer.turn
    BY <1>0, <1>1, <1>3, <1>9 DEF Unspoken
  <2>1. turn.active = TRUE
    BY <1>1 DEF Retired, TurnTypes
  <2>2. pacer'.turn = pacer.turn \/ (Carrying /\ ~Active(t))
    <3>1. CASE p.type = "pcm"
      <4> DEFINE rest == [pacer EXCEPT !.pending = @ - p.n, !.wireFrames = @ + 1,
                                       !.due = FALSE]
      <4>1. pacer' = rest \/ (pacer' = NoPacer /\ ~Active(t))
        BY <1>0, <3>1 DEF AfterPush, t
      <4>2. rest.turn = pacer.turn
        BY <1>1 DEF PacerTypes, Pacers
      <4> HIDE DEF rest
      <4> QED
        BY <1>5, <3>1, <4>1, <4>2
    <3>2. CASE p.type # "pcm"
      BY <1>0, <3>2 DEF AfterPush
    <3> QED
      BY <3>1, <3>2
  <2>3. Carrying => turn.id # pacer.turn
    BY <1>4, <2>1, <2>2 DEF Active
  <2>4. ~Carrying => turn.id # t
    BY <1>0, <1>1 DEF Carries, t
  <2> QED
    BY <1>4, <2>2, <2>3, <2>4
<1>11. CASE p.type = "error"
  <2>1. fwd'.at = "top" /\ pacer' = pacer /\ t \in stopped
    BY <1>0, <1>1, <1>5, <1>11 DEF AfterPush, At, Carries, t
  <2>2. ~Carrying' /\ (Pacing' => Pacing)
    BY <1>0, <1>11, <2>1 DEF Pacing, Carrying, Active, p
  <2>3. Pacing => pacer.turn \in Turns \ {t} /\ Paced(heard[pacer.turn]) /\ PacedTurn
    <3> SUFFICES ASSUME Pacing
                 PROVE  pacer.turn \in Turns \ {t} /\ Paced(heard[pacer.turn]) /\ PacedTurn
      OBVIOUS
    <3>1. pacer.turn = turn.id /\ turn.active = TRUE /\ turn.id # 0
      BY <1>1 DEF Pacing, Active, TurnTypes
    <3> QED
      BY <1>1, <1>9, <2>1, <3>1 DEF Linked, Revived
  <2>4. \A type : ~CarryingA(type) /\ ~CarryingA(type)'
    BY <1>5, <1>11, <2>2 DEF CarryingA
  <2>5. Pacing' => Paced(heard[pacer.turn])'
    BY <1>0, <1>3, <2>1, <2>2, <2>3, <2>4 DEF Paced
  <2>6. Pacing' => PacedTurn'
    BY <1>0, <2>1, <2>2, <2>3, <2>4 DEF PacedTurn
  <2> QED
    BY <1>6, <1>7, <1>10, <2>2, <2>5, <2>6 DEF WireInv, InFlight, Linked
<1>12. CASE p.type = "pcm" /\ p.end /\ Active(t)
  <2>1. Sending(Control("response.done"), t)
    BY <1>0, <1>12 DEF AfterPush, p, t
  <2>2. /\ fwd'.turn = t /\ fwd'.at = "push" /\ fwd'.packet.type = "response.done"
    BY <2>1 DEF Sending, Control
  <2>3. Fits(h, p) /\ p.end = TRUE
    BY <1>1, <1>4, <1>5, <1>12, PacketFields
  <2>4. Fits(Append(h, p), fwd'.packet)
    BY <1>8, <1>12, <2>2, <2>3 DEF Fits
  <2>5. InFlight'
    BY <1>3, <2>2, <2>4 DEF InFlight
  <2> QED
    BY <1>6, <1>7, <1>10, <2>2, <2>5 DEF WireInv, Linked, Pacing
<1>13. CASE p.type = "pcm" /\ ~(p.end /\ Active(t))
  <2> DEFINE rest == [pacer EXCEPT !.pending = @ - p.n, !.wireFrames = @ + 1, !.due = FALSE]
  <2>1. /\ fwd'.at = "top"
        /\ p.end => pacer' = NoPacer
        /\ ~p.end => pacer' = rest
    BY <1>0, <1>13 DEF AfterPush, At, t, p
  <2>2. rest.turn = pacer.turn /\ rest.wireFrames = pacer.wireFrames + 1
    BY <1>1 DEF PacerTypes, Pacers
  <2>3. p.n \in Nat \ {0} /\ p.n <= pacer.pending
    BY <1>0, <1>1, <1>13, FrameOnWire DEF FrameCounted, p
  <2>4. pacer.pending \in Nat
    BY <1>1 DEF PacerTypes, Pacers
  <2> HIDE DEF rest
  <2>5. ~Carrying' /\ \A type : ~CarryingA(type)'
    BY <2>1 DEF Carrying, CarryingA
  <2>6. ASSUME Pacing'
        PROVE  Paced(heard[pacer.turn])' /\ PacedTurn'
    <3>1. pacer' = rest /\ p.end = FALSE /\ pacer'.turn = t
      BY <1>1, <1>4, <1>5, <1>13, <2>1, <2>2, <2>6, PacketFields DEF Pacing, NoPacer
    <3>2. Pacing
      BY <1>0, <1>13, <2>2, <2>6, <3>1 DEF Pacing, Active, p
    <3>3. Paced(h) /\ PacedTurn /\ CarryingA("pcm") /\ p.seq = pacer.wireFrames
      BY <1>0, <1>1, <1>4, <1>5, <1>13, <3>2 DEF Linked, PacedTurn, CarryingA, h, t, p
    <3>4. NumberedTo(Append(h, p), pacer.wireFrames + 1)
      BY <1>1, <1>3, <1>13, <3>3, CountedOn DEF Paced
    <3>5. Fits(h, p)
      BY <1>4, <1>5, <1>13
    <3>6. Paced(heard[pacer.turn])'
      BY <1>3, <1>8, <1>13, <2>2, <3>1, <3>3, <3>4, <3>5 DEF Paced, Fits
    <3>7. turn.outputStarted = TRUE /\ turn.outputSequence = pacer.wireFrames + 1
      BY <2>3, <2>4, <3>3 DEF PacedTurn
    <3>8. PacedTurn'
      BY <1>0, <1>1, <2>2, <2>5, <3>1, <3>7 DEF PacedTurn
    <3> QED
      BY <3>6, <3>8
  <2> QED
    BY <1>6, <1>7, <1>10, <2>5, <2>6 DEF WireInv, InFlight, Linked
<1>14. CASE p.type = "response.done"
  <2>1. fwd' = [fwd EXCEPT !.at = "clear"]
    BY <1>0, <1>14 DEF AfterPush
  <2>2. fwd'.at = "clear"
    BY <1>1, <2>1 DEF FwdTypes
  <2> QED
    BY <1>6, <1>7, <1>10, <2>2 DEF WireInv, InFlight, Carrying, Linked, Pacing
<1>15. CASE p.type \notin {"error", "pcm", "response.done"}
  <2>1. fwd'.at = "top" /\ pacer' = pacer
    BY <1>0, <1>15 DEF AfterPush, At
  <2>2. ~Carrying' /\ \A type : ~CarryingA(type)'
    BY <2>1 DEF Carrying, CarryingA
  <2>3. ASSUME Pacing'
        PROVE  Paced(heard[pacer.turn])' /\ PacedTurn'
    <3>1. Pacing /\ pacer.turn = t
      BY <1>0, <1>4, <1>5, <1>15, <2>1, <2>3 DEF Pacing, Active, p
    <3>2. Paced(h) /\ PacedTurn /\ ~CarryingA("pcm")
      BY <1>1, <1>15, <3>1 DEF Linked, CarryingA, h, p
    <3>3. NumberedTo(Append(h, p), pacer.wireFrames)
      BY <1>1, <1>3, <1>15, <3>2, CountedOn DEF Paced
    <3>4. /\ CarryingA("response.start") => p.type = "response.start"
          /\ CarryingA("response.audio_start") => p.type = "response.audio_start"
      BY DEF CarryingA, p
    <3>5. Paced(heard[pacer.turn])'
      BY <1>0, <1>3, <1>8, <1>15, <2>1, <3>1, <3>2, <3>3, <3>4 DEF Paced
    <3>6. PacedTurn'
      BY <1>0, <2>1, <2>2, <3>2 DEF PacedTurn
    <3> QED
      BY <3>5, <3>6
  <2> QED
    BY <1>6, <1>7, <1>10, <2>2, <2>3 DEF WireInv, InFlight, Linked
<1> QED
  BY <1>11, <1>12, <1>13, <1>14, <1>15

\* A packet that is not sent, and the end of a paced answer.
LEMMA DropWire ==
  ASSUME IInv, OrderInv, LateInv, WireInv, Drop \/ FinishPacedResponse
  PROVE  WireInv'
<1>0. UNCHANGED heard /\ ~Carrying' /\ fwd'.at = "top"
  BY DEF Drop, FinishPacedResponse, At, Carrying
<1>1. /\ TurnTypes /\ PacerTypes /\ Retired /\ Unspoken /\ Linked /\ Revived /\ Carries
  BY OrderTypes DEF WireInv, OrderInv
<1>2. (\A t \in Turns : WellFormed(heard'[t])) /\ InFlight'
  BY <1>0 DEF WireInv, InFlight
<1>3. CASE Drop
  <2>1. /\ UNCHANGED <<turn, stopped>> /\ pacer.turn \in stopped
        /\ pacer' = NoPacer \/ pacer' = pacer
    BY <1>1, <1>3 DEF Drop, Carrying, Carries
  <2>2. ~Pacing'
    BY <1>1, <2>1 DEF Pacing, Active, Revived, NoPacer, TurnTypes
  <2>3. Retired' /\ Unspoken'
    BY <1>0, <1>1, <2>1 DEF Retired, Unspoken, NoPacer
  <2> QED
    BY <1>2, <2>2, <2>3 DEF WireInv, Linked
<1>4. CASE FinishPacedResponse
  <2>1. pacer'.turn = 0 /\ fwd.turn = pacer.turn
    BY <1>1, <1>4 DEF FinishPacedResponse, NoPacer, Carries
  <2>2. CASE Active(fwd.turn)
    <3>1. turn'.id = turn.id /\ turn'.active = FALSE /\ stopped' = stopped \cup {turn.id}
      BY <1>1, <1>4, <2>2 DEF FinishPacedResponse, TurnTypes
    <3> QED
      BY <1>2, <2>1, <3>1 DEF WireInv, Linked, Pacing, Retired, Unspoken
  <2>3. CASE ~Active(fwd.turn)
    <3>1. UNCHANGED <<turn, stopped>>
      BY <1>4, <2>3 DEF FinishPacedResponse
    <3>2. turn.id = pacer.turn /\ turn.id # 0 => turn.id \in stopped
      BY <1>1, <2>1, <2>3 DEF Active, Retired, TurnTypes
    <3> QED
      BY <1>0, <1>1, <1>2, <2>1, <3>1, <3>2 DEF WireInv, Linked, Pacing, Retired, Unspoken
  <2> QED
    BY <2>2, <2>3
<1> QED
  BY <1>3, <1>4

\* What the receive loop does to the turn.
LEMMA LoopTurn ==
  ASSUME TurnTypes, (\E m \in Messages : TakeMessage(m)) \/ ReceiveLoop
  PROVE  \/ UNCHANGED turn
         \/ Fence
         \/ \E m \in Messages : TurnStart(m)
         \/ /\ turn'.id = turn.id /\ turn'.outputSequence = turn.outputSequence
            /\ turn'.outputStarted = turn.outputStarted
            /\ turn'.active = turn.active \/ (loop.at = "flush" /\ turn'.active = TRUE)
<1>1. CASE \E m \in Messages : TakeMessage(m)
  BY <1>1 DEF TakeMessage, Receive, TurnStartClosed, TurnCancel, Unsupported, TurnCongestion
<1>2. CASE FlushFinalInput
  BY <1>2 DEF FlushFinalInput, TurnTypes
<1>3. CASE HandlePCM
  BY <1>3 DEF HandlePCM, TurnTypes
<1>4. CASE TurnCommit \/ CommitActor \/ AppendInput \/ BelongsToActiveTurn \/ RetireActiveTurn
             \/ CancelActor
  BY <1>4 DEF TurnCommit, CommitActor, AppendInput, BelongsToActiveTurn, RetireActiveTurn,
              CancelActor
<1> QED
  BY <1>1, <1>2, <1>3, <1>4 DEF ReceiveLoop

LEMMA WireStep ==
  ASSUME IInv, OrderInv, LateInv, WireInv, [Next]_vars
  PROVE  WireInv'
<1>0. stopped \subseteq stopped'
  BY Forward
<1>1. CASE (\E m \in Messages : TakeMessage(m)) \/ ReceiveLoop
  <2>1. UNCHANGED ForwarderVars
    BY <1>1 DEF TakeMessage, Receive, TurnStart, TurnStartClosed, TurnCancel, Unsupported,
      TurnCongestion, ReceiveLoop, TurnCommit, FlushFinalInput, CommitActor, HandlePCM,
      AppendInput, BelongsToActiveTurn, RetireActiveTurn, CancelActor
  <2> QED
    BY <1>0, <1>1, <2>1, LoopTurn, WireStill, OrderTypes DEF ForwarderVars, history
<1>2. CASE (\E item \in Items : ProviderAnswers(item)) \/ ActorCloses \/ PeerGone \/ UNCHANGED vars
  <2>1. UNCHANGED <<turn, pacer, fwd, heard>>
    BY <1>2, Zenon DEF ProviderAnswers, ActorCloses, PeerGone, vars, ForwarderVars, history
  <2> QED
    BY <1>0, <2>1, WireStill
<1>3. CASE Due \/ TimerFires \/ StreamClosed
  <2>1. UNCHANGED <<turn, heard>>
    BY <1>3 DEF Due, TimerFires, StreamClosed, history
  <2>2. PacerTypes
    BY OrderTypes
  <2>3. /\ pacer'.turn = pacer.turn /\ pacer'.pending = pacer.pending
        /\ pacer'.wireFrames = pacer.wireFrames
    BY <1>3, <2>2 DEF Due, TimerFires, StreamClosed, PacerTypes, Pacers
  <2>4. fwd' = fwd \/ (fwd.at = "select" /\ fwd'.at = "top")
    BY <1>3 DEF Due, TimerFires, StreamClosed, At
  <2> QED
    BY <1>0, <2>1, <2>3, <2>4, WireStill
<1>4. CASE Top \/ TakeEvent \/ Push \/ Drop \/ FinishPacedResponse
  BY <1>4, TopWire, TakeWire, PushWire, DropWire
<1> QED
  BY <1>1, <1>2, <1>3, <1>4 DEF Next, ForwardEvents

LEMMA InitWire == Init => WireInv
<1> SUFFICES ASSUME Init PROVE WireInv
  OBVIOUS
<1>1. /\ turn.id = 0 /\ pacer.turn = 0 /\ fwd.at = "top" /\ heard = [t \in Turns |-> <<>>]
  BY DEF Init, NoTurn, NoPacer, At
<1>2. WellFormed(<<>>)
  BY EmptyWire DEF WellFormed, Announced, Precedes, Counted, DoneLast
<1> QED
  BY <1>1, <1>2 DEF WireInv, InFlight, Carrying, Linked, Pacing, Retired, Unspoken

\* The wire of every turn is what the client's strict receiver expects,
\* however cancels and retirements interleave with the pacing:
\* sendNextPacedFrame numbers the frames under the lock that fences the turn,
\* and finishPacedResponse sends response.done behind the END frame.
THEOREM WellFormedWire == Spec => []WireWellFormed
<1>1. Init => WireInv
  BY InitWire
<1>2. WireInv /\ IInv /\ OrderInv /\ LateInv /\ [Next]_vars => WireInv'
  BY WireStep
<1>3. IInv /\ WireInv => WireWellFormed
  BY DEF WireInv, WellFormed, Announced, Precedes, Counted, DoneLast, Pcm, WireWellFormed,
         Before, Frames
<1> QED
  BY <1>1, <1>2, <1>3, SpecLate, PTL DEF Spec

\* Both sides of a turn, together.
THEOREM TurnsSound == Spec => []TurnSound
<1>1. CommitFindsAudio /\ NoOverflow /\ WireWellFormed => TurnSound
  BY DEF TurnSound
<1> QED
  BY <1>1, BufferBounded, CommitHasAudio, WellFormedWire, PTL

-----------------------------------------------------------------------------
(* The samples of a turn's packets. Units is a fold; that a packet adds    *)
(* its own samples to it is shown by induction over the length.            *)

\* The least number of a set, and induction with a set in the place of the
\* property.
LEMMA NatLeast ==
  ASSUME NEW T \in SUBSET Nat, T # {}
  PROVE  \E n \in T : \A m \in T : n <= m
<1> DEFINE R == OpToRel(<, Nat)
<1>1. IsWellFoundedOn(R, Nat)
  BY NatLessThanWellFounded, Zenon
<1>2. \A x, y \in Nat : <<x, y>> \in R <=> x < y
  BY DEF OpToRel
<1> HIDE DEF R
<1>3. PICK n \in T : \A m \in T : ~ (<<m, n>> \in R)
  BY <1>1, WFMin
<1>4. ASSUME NEW m \in T PROVE n <= m
  <2>1. m \in Nat /\ n \in Nat /\ ~ (m < n)
    BY <1>2, <1>3
  <2> QED
    BY <2>1
<1> QED
  BY <1>4

LEMMA NatInduct ==
  ASSUME NEW T, 0 \in T, \A n \in Nat : n \in T => n + 1 \in T
  PROVE  \A n \in Nat : n \in T
<1> DEFINE S == Nat \ T
<1> SUFFICES ASSUME S # {} PROVE FALSE
  OBVIOUS
<1>1. PICK n \in S : \A m \in S : n <= m
  BY NatLeast
<1>2. n # 0 /\ n - 1 \in Nat
  OBVIOUS
<1>3. n - 1 \in T
  BY <1>1, <1>2
<1>4. (n - 1) + 1 \in T
  BY <1>2, <1>3
<1> QED
  BY <1>2, <1>4

UnitsOf(h) == FoldLeft(LAMBDA sum, p : sum + p.n, 0, h)

\* What the fold computes on its way: g at 1..j are the samples of the first j.
Sums(g, h, k) ==
  g = [s \in SUBSET (1..k) |-> IF s = {} THEN 0 ELSE g[s \ {Max(s)}] + h[Max(s)].n]

LEMMA MaxIs ==
  ASSUME NEW k \in Nat, NEW s \in SUBSET (1..k), k \in s
  PROVE  Max(s) = k
<1>1. \A y \in s : k >= y
  OBVIOUS
<1>2. Max(s) \in s /\ \A y \in s : Max(s) >= y
  BY <1>1 DEF Max
<1>3. Max(s) >= k /\ Max(s) \in 1..k
  BY <1>2
<1> QED
  BY <1>3

\* There is such a function.
LEMMA SumsExist ==
  ASSUME NEW h, NEW k \in Nat
  PROVE  \E g : Sums(g, h, k)
<1> DEFINE T == {n \in Nat : \E g : Sums(g, h, n)}
<1>1. 0 \in T
  <2> DEFINE g == [s \in SUBSET (1..0) |-> 0]
  <2>1. \A s \in SUBSET (1..0) : s = {}
    OBVIOUS
  <2>2. Sums(g, h, 0)
    BY <2>1 DEF Sums
  <2> QED
    BY <2>2
<1>2. ASSUME NEW n \in Nat, n \in T PROVE n + 1 \in T
  <2>1. PICK g : Sums(g, h, n)
    BY <1>2
  <2> DEFINE f == [s \in SUBSET (1..(n + 1)) |->
                     IF n + 1 \in s THEN g[s \ {n + 1}] + h[n + 1].n ELSE g[s]]
             r(s) == IF s = {} THEN 0 ELSE f[s \ {Max(s)}] + h[Max(s)].n
  <2>2. ASSUME NEW s \in SUBSET (1..(n + 1)) PROVE f[s] = r(s)
    <3>1. CASE n + 1 \in s
      <4>1. Max(s) = n + 1 /\ s # {}
        BY <3>1, MaxIs
      <4>2. s \ {n + 1} \in SUBSET (1..(n + 1)) /\ n + 1 \notin s \ {n + 1}
        OBVIOUS
      <4>3. f[s \ {n + 1}] = g[s \ {n + 1}]
        BY <4>2
      <4>4. f[s] = g[s \ {n + 1}] + h[n + 1].n
        BY <3>1
      <4> HIDE DEF f
      <4> QED
        BY <4>1, <4>3, <4>4
    <3>2. CASE n + 1 \notin s
      <4>1. s \in SUBSET (1..n)
        <5>1. ASSUME NEW x \in s PROVE x \in 1..n
          <6>1. x \in 1..(n + 1) /\ x # n + 1
            BY <3>2
          <6> QED
            BY <6>1
        <5> QED
          BY <5>1
      <4>2. f[s] = g[s]
        BY <3>2
      <4>3. g[s] = IF s = {} THEN 0 ELSE g[s \ {Max(s)}] + h[Max(s)].n
        BY <2>1, <4>1 DEF Sums
      <4>4. s \ {Max(s)} \in SUBSET (1..(n + 1)) /\ n + 1 \notin s \ {Max(s)}
        BY <3>2
      <4>5. f[s \ {Max(s)}] = g[s \ {Max(s)}]
        BY <4>4
      <4> HIDE DEF f
      <4> QED
        BY <4>2, <4>3, <4>5
    <3> QED
      BY <3>1, <3>2
  <2>3. f = [s \in SUBSET (1..(n + 1)) |-> f[s]]
    OBVIOUS
  <2> HIDE DEF f
  <2>4. Sums(f, h, n + 1)
    BY <2>2, <2>3 DEF Sums
  <2> QED
    BY <2>4
<1> HIDE DEF T
<1>3. k \in T
  BY <1>1, <1>2, NatInduct
<1> QED
  BY <1>3 DEF T

\* It has what the fold has, and adds one packet at a time.
LEMMA SumsGive ==
  ASSUME NEW h, NEW k \in Nat, DOMAIN h = 1..k
  PROVE  \E r : /\ UnitsOf(h) = r[k] /\ r[0] = 0
                /\ \A j \in 0..k : j # k => r[j + 1] = r[j] + h[j + 1].n
<1> DEFINE g == CHOOSE f : Sums(f, h, k)
           r == [j \in 0..k |-> g[1..j]]
<1>1. UnitsOf(h) = g[1..k]
  <2>1. UnitsOf(h) = (CHOOSE f : f = [s \in SUBSET DOMAIN h |->
           IF s = {} THEN 0 ELSE f[s \ {Max(s)}] + h[Max(s)].n])[DOMAIN h]
    BY DEF UnitsOf, FoldLeft, MapThenFoldSet
  <2> QED
    BY <2>1 DEF Sums
<1>2. Sums(g, h, k)
  BY SumsExist
<1> HIDE DEF g
<1>3. r[0] = 0
  <2>1. 1..0 = {} /\ 1..0 \in SUBSET (1..k)
    OBVIOUS
  <2>2. g[1..0] = 0
    BY <1>2, <2>1 DEF Sums
  <2> QED
    BY <2>2
<1>4. ASSUME NEW j \in 0..k, j # k PROVE r[j + 1] = r[j] + h[j + 1].n
  <2>1. j + 1 \in 0..k /\ j + 1 \in Nat /\ 1..(j + 1) \in SUBSET (1..k) /\ j + 1 \in 1..(j + 1)
    BY <1>4
  <2>2. Max(1..(j + 1)) = j + 1
    BY <2>1, MaxIs
  <2>3. (1..(j + 1)) \ {j + 1} = 1..j /\ 1..(j + 1) # {}
    BY <2>1
  <2>4. g[1..(j + 1)] = g[1..j] + h[j + 1].n
    BY <1>2, <2>1, <2>2, <2>3 DEF Sums
  <2> QED
    BY <2>1, <2>4
<1>5. r[k] = g[1..k]
  OBVIOUS
<1> HIDE DEF r
<1> QED
  BY <1>1, <1>3, <1>4, <1>5

LEMMA NoUnits == UnitsOf(<<>>) = 0
<1>1. DOMAIN <<>> = 1..0
  OBVIOUS
<1>2. PICK r : UnitsOf(<<>>) = r[0] /\ r[0] = 0
  BY <1>1, SumsGive
<1> QED
  BY <1>2

LEMMA UnitsGrow ==
  ASSUME NEW h \in Seq(Packet), NEW p \in Packet
  PROVE  UnitsOf(Append(h, p)) = UnitsOf(h) + p.n
<1> DEFINE q == Append(h, p)
           k == Len(h)
<1>1. /\ DOMAIN h = 1..k /\ k \in Nat /\ k + 1 \in Nat
      /\ DOMAIN q = 1..(k + 1) /\ q[k + 1] = p /\ \A i \in 1..k : q[i] = h[i]
  BY OneMore
<1> HIDE DEF q, k
<1>2. PICK r : /\ UnitsOf(h) = r[k] /\ r[0] = 0
               /\ \A j \in 0..k : j # k => r[j + 1] = r[j] + h[j + 1].n
  BY <1>1, SumsGive
<1>3. PICK s : /\ UnitsOf(q) = s[k + 1] /\ s[0] = 0
               /\ \A j \in 0..(k + 1) : j # k + 1 => s[j + 1] = s[j] + q[j + 1].n
  BY <1>1, SumsGive
<1> DEFINE T == {j \in Nat : j <= k => s[j] = r[j]}
<1>4. 0 \in T
  BY <1>2, <1>3
<1>5. ASSUME NEW j \in Nat, j \in T PROVE j + 1 \in T
  <2> SUFFICES ASSUME j + 1 <= k PROVE s[j + 1] = r[j + 1]
    OBVIOUS
  <2>1. j \in 0..k /\ j # k /\ j \in 0..(k + 1) /\ j # k + 1 /\ j + 1 \in 1..k /\ j <= k
    BY <1>1
  <2>2. s[j] = r[j] /\ q[j + 1] = h[j + 1]
    BY <1>1, <1>5, <2>1
  <2>3. s[j + 1] = s[j] + q[j + 1].n /\ r[j + 1] = r[j] + h[j + 1].n
    BY <1>2, <1>3, <2>1
  <2> QED
    BY <2>2, <2>3
<1>6. k \in T
  <2> HIDE DEF T
  <2> QED
    BY <1>1, <1>4, <1>5, NatInduct
<1>7. s[k] = r[k]
  BY <1>1, <1>6
<1>8. s[k + 1] = s[k] + q[k + 1].n
  <2>1. k \in 0..(k + 1) /\ k # k + 1
    BY <1>1
  <2> QED
    BY <1>3, <2>1
<1> QED
  BY <1>1, <1>2, <1>3, <1>7, <1>8 DEF q

-----------------------------------------------------------------------------
(* An answer that ends was sent whole.                                     *)

Weight(event, t) == IF event.epoch = t THEN event.item.n ELSE 0

\* f is how much of turn t's audio has left the actor once an event is taken:
\* base so far, total when the queue q is empty.
Ledger(q, t, base, total) ==
  \E f \in [0..Len(q) -> Nat] :
    /\ f[0] = base /\ f[Len(q)] = total
    /\ \A i \in 1..Len(q) : f[i] = f[i - 1] + Weight(q[i], t)

LEMMA WeightIs == ASSUME NEW event \in OutItem, NEW t PROVE Weight(event, t) \in Nat
<1>1. event.item \in Items
  BY DEF OutItem
<1>2. event.item.n \in Nat
  BY <1>1, Sizes DEF Items
<1> QED
  BY <1>2 DEF Weight

LEMMA LedgerAppend ==
  ASSUME NEW q \in Seq(OutItem), NEW event \in OutItem, NEW t, NEW base, NEW total,
         Ledger(q, t, base, total)
  PROVE  Ledger(Append(q, event), t, base, total + Weight(event, t))
<1> DEFINE r == Append(q, event)
           k == Len(q)
<1>1. PICK f \in [0..k -> Nat] : /\ f[0] = base /\ f[k] = total
                                 /\ \A i \in 1..k : f[i] = f[i - 1] + Weight(q[i], t)
  BY DEF Ledger
<1>2. k \in Nat /\ Len(r) = k + 1 /\ r[k + 1] = event /\ \A i \in 1..k : r[i] = q[i]
  BY AppendProperties
<1>3. Weight(event, t) \in Nat
  BY WeightIs
<1> DEFINE g == [i \in 0..(k + 1) |-> IF i = k + 1 THEN total + Weight(event, t) ELSE f[i]]
<1> HIDE DEF r, k
<1>4. total \in Nat /\ base \in Nat
  BY <1>1, <1>2
<1>5. g \in [0..(k + 1) -> Nat]
  BY <1>1, <1>2, <1>3, <1>4
<1>6. g[0] = base /\ g[k + 1] = total + Weight(event, t)
  BY <1>1, <1>2
<1>7. ASSUME NEW i \in 1..(k + 1) PROVE g[i] = g[i - 1] + Weight(r[i], t)
  <2>1. CASE i = k + 1
    <3>1. i - 1 = k /\ i - 1 \in 0..(k + 1) /\ i - 1 # k + 1
      BY <1>2, <2>1
    <3>2. g[i - 1] = total
      BY <1>1, <3>1
    <3> QED
      BY <1>2, <1>6, <2>1, <3>2
  <2>2. CASE i # k + 1
    <3>1. i \in 1..k /\ i - 1 \in 0..(k + 1) /\ i - 1 # k + 1 /\ i \in 0..(k + 1)
      BY <1>2, <2>2
    <3>2. g[i] = f[i] /\ g[i - 1] = f[i - 1]
      BY <2>2, <3>1
    <3> QED
      BY <1>1, <1>2, <3>1, <3>2
  <2> QED
    BY <2>1, <2>2
<1> HIDE DEF g
<1> QED
  BY <1>2, <1>5, <1>6, <1>7 DEF Ledger, r

LEMMA LedgerTail ==
  ASSUME NEW q \in Seq(OutItem), q # <<>>, NEW t, NEW base, NEW total,
         Ledger(q, t, base, total)
  PROVE  Ledger(Tail(q), t, base + Weight(Head(q), t), total)
<1> DEFINE r == Tail(q)
           k == Len(q)
<1>1. PICK f \in [0..k -> Nat] : /\ f[0] = base /\ f[k] = total
                                 /\ \A i \in 1..k : f[i] = f[i - 1] + Weight(q[i], t)
  BY DEF Ledger
<1>2. /\ k \in Nat \ {0} /\ Len(r) = k - 1 /\ Head(q) = q[1]
      /\ \A i \in 1..(k - 1) : r[i] = q[i + 1]
  BY EmptySeq, LenProperties, HeadTailProperties
<1> HIDE DEF r, k
<1> DEFINE g == [i \in 0..(k - 1) |-> f[i + 1]]
<1>3. g \in [0..(k - 1) -> Nat]
  BY <1>2
<1>4. g[0] = base + Weight(Head(q), t)
  BY <1>1, <1>2
<1>5. g[k - 1] = total
  BY <1>1, <1>2
<1>6. ASSUME NEW i \in 1..(k - 1) PROVE g[i] = g[i - 1] + Weight(r[i], t)
  <2>1. i \in 0..(k - 1) /\ i - 1 \in 0..(k - 1) /\ i + 1 \in 1..k /\ (i - 1) + 1 = i
        /\ (i + 1) - 1 = i
    BY <1>2
  <2>2. g[i] = f[i + 1] /\ g[i - 1] = f[i]
    BY <2>1
  <2>3. f[i + 1] = f[i] + Weight(q[i + 1], t)
    BY <1>1, <2>1
  <2> QED
    BY <1>2, <2>2, <2>3
<1> HIDE DEF g
<1> QED
  BY <1>2, <1>3, <1>4, <1>5, <1>6 DEF Ledger, r

\* A turn of which nothing waits, and a queue of one event.
LEMMA LedgerNone ==
  ASSUME NEW q \in Seq(OutItem), NEW t, \A i \in DOMAIN q : q[i].epoch # t
  PROVE  Ledger(q, t, 0, 0)
<1> DEFINE f == [i \in 0..Len(q) |-> 0]
<1>1. Len(q) \in Nat /\ DOMAIN q = 1..Len(q)
  OBVIOUS
<1>2. f \in [0..Len(q) -> Nat] /\ f[0] = 0 /\ f[Len(q)] = 0
  BY <1>1
<1>3. \A i \in 1..Len(q) : f[i] = f[i - 1] + Weight(q[i], t)
  BY <1>1 DEF Weight
<1> HIDE DEF f
<1> QED
  BY <1>2, <1>3 DEF Ledger

LEMMA LedgerOne ==
  ASSUME NEW q \in Seq(OutItem), Len(q) = 1, NEW t, NEW base, NEW total,
         Ledger(q, t, base, total)
  PROVE  total = base + Weight(q[1], t)
<1>1. PICK f \in [0..1 -> Nat] : /\ f[0] = base /\ f[1] = total
                                 /\ \A i \in 1..1 : f[i] = f[i - 1] + Weight(q[i], t)
  BY DEF Ledger
<1>2. f[1] = f[1 - 1] + Weight(q[1], t)
  BY <1>1
<1> QED
  BY <1>1, <1>2

\* Nothing of the turn that is answered was lost with the session, or its end
\* would be lost too.
Sure(t) ==
  closed = FALSE \/ \E i \in DOMAIN out : out[i].epoch = t /\ out[i].item.kind = "done"

\* A frame in flight is what the pacer has for it.
InHand ==
  CarryingA("pcm") =>
    fwd.packet.n = FrameSize(pacer) /\ (fwd.packet.end = TRUE <=> Final(pacer))

\* What the provider has said is on the wire, in the pacer or on its way there:
\* of a turn that is not begun, of one that is paced, and of one whose end the
\* pacer knows, whose last sample may be the padding.
Unbegun ==
  Alive /\ turn.id # 0 /\ turn.id \notin stopped /\ turn.id # pacer.turn /\ Sure(turn.id) =>
    Ledger(out, turn.id, 0, said[turn.id].audio)
Begun ==
  Alive /\ Pacing /\ pacer.providerDone = FALSE /\ Sure(pacer.turn) =>
    Ledger(out, pacer.turn, UnitsOf(heard[pacer.turn]) + pacer.pending, said[pacer.turn].audio)
Ending ==
  Pacing /\ pacer.providerDone = TRUE =>
    \/ UnitsOf(heard[pacer.turn]) + pacer.pending = said[pacer.turn].audio
    \/ pacer.pending = 1 /\ UnitsOf(heard[pacer.turn]) = said[pacer.turn].audio
PacedInv == InHand /\ Unbegun /\ Begun /\ Ending

\* When response.done is sent, and from then on, the answer is on the wire.
Covers(t) == UnitsOf(heard[t]) - said[t].audio \in {0, 1}
DoneSent == CarryingA("response.done") => Covers(fwd.turn)
AllHeard ==
  \A t \in Turns : Has(heard[t], "response.done") => Covers(t) /\ (Over \/ epoch # t)

\* The actor's queue ends with what its newest turn is about, and a last event
\* is the last. Nothing follows one that the pacer has.
Queued ==
  \A i, j \in DOMAIN out : i < j /\ out[i].epoch = latest =>
    out[j].epoch = latest /\ out[i].item.kind \notin {"done", "error"}
Drained ==
  pacer.providerDone = TRUE /\ pacer.turn = turn.id =>
    \A i \in DOMAIN out : out[i].epoch # turn.id
SaidInv ==
  /\ \A t \in Turns : UnitsOf(heard[t]) \in Nat
  /\ \A t \in Turns : t > latest => said[t].audio = 0

AccountInv == PacedInv /\ DoneSent /\ AllHeard /\ Queued /\ Drained /\ SaidInv

LEMMA InitAccount == Init => AccountInv
<1> SUFFICES ASSUME Init PROVE AccountInv
  OBVIOUS
<1>1. /\ turn.id = 0 /\ pacer.turn = 0 /\ fwd.at = "top" /\ heard = [t \in Turns |-> <<>>]
      /\ out = <<>> /\ \A t \in Turns : said[t].audio = 0
  BY DEF Init, Actor!Init, NoTurn, NoPacer, At
<1>2. ~Pacing /\ \A type : ~CarryingA(type)
  BY <1>1 DEF Pacing, CarryingA, Carrying
<1>3. \A t \in Turns : ~Has(heard[t], "response.done") /\ UnitsOf(heard[t]) = 0
  BY <1>1, NoUnits, EmptyWire
<1>4. PacedInv /\ DoneSent
  BY <1>1, <1>2 DEF PacedInv, InHand, Unbegun, Begun, Ending, DoneSent
<1>5. AllHeard /\ Queued /\ Drained /\ SaidInv
  BY <1>1, <1>3 DEF AllHeard, Queued, Drained, SaidInv
<1> QED
  BY <1>4, <1>5 DEF AccountInv

\* The turn goes on, or a new one starts that nothing has been heard of.
LEMMA TurnGoesOn ==
  ASSUME IInv, OrderInv, LateInv, WireInv, stopped \subseteq stopped',
         fwd' = fwd \/ (fwd.at \in {"select", "top"} /\ fwd'.at = "top"),
         pacer'.turn = pacer.turn,
         \/ UNCHANGED turn
         \/ Fence
         \/ \E m \in Messages : TurnStart(m)
         \/ /\ turn'.id = turn.id /\ turn'.outputSequence = turn.outputSequence
            /\ turn'.outputStarted = turn.outputStarted
            /\ turn'.active = turn.active \/ (loop.at = "flush" /\ turn'.active = TRUE)
  PROVE  \/ turn'.id = turn.id /\ (Pacing' => Pacing)
         \/ turn'.id \in Turns /\ turn'.id > latest /\ ~Pacing'
<1>0. TurnTypes /\ latest \in Nat /\ pacer.turn \in Nat
  BY OrderTypes
<1>1. CASE \E m \in Messages : TurnStart(m)
  <2> PICK m \in Messages : TurnStart(m)
    BY <1>1
  <2>1. m.id \in 0..MaxTurn
    BY Sizes DEF Messages
  <2>2. m.id \in Turns /\ m.id > latest
    BY <2>1, Sizes DEF TurnStart, StartValid, Actor!Start, Actor!CanStart
  <2>3. turn' = NewTurn(m.id)
    BY DEF TurnStart
  <2>4. turn'.id = m.id
    BY <2>3 DEF NewTurn, NoTurn
  <2>5. pacer.turn # m.id
    BY <1>0, <2>2 DEF OrderInv, Numbers, Turns
  <2>6. ~Pacing'
    BY <2>4, <2>5 DEF Pacing, Active
  <2> QED
    BY <2>2, <2>4, <2>6
<1>2. CASE ~\E m \in Messages : TurnStart(m)
  <2>1. /\ turn'.id = turn.id
        /\ \/ turn'.active = turn.active
           \/ turn'.active = TRUE /\ loop.at = "flush"
           \/ turn'.active = FALSE
    BY <1>0, <1>2, Fenced DEF TurnTypes
  <2>2. loop.at = "flush" => pacer.turn # turn.id
    BY DEF OrderInv, SilentTurn, LoopPlaces, Silent
  <2>3. Pacing' => Pacing
    BY <1>0, <2>1, <2>2 DEF Pacing, Active, TurnTypes
  <2> QED
    BY <2>1, <2>3
<1> QED
  BY <1>1, <1>2

\* What InHand says rests on two members of the pacer.
LEMMA InHandStill ==
  ASSUME AccountInv, fwd' = fwd \/ ~CarryingA("pcm")',
         pacer'.pending = pacer.pending, pacer'.providerDone = pacer.providerDone
  PROVE  InHand'
<1>1. FrameSize(pacer)' = FrameSize(pacer) /\ (Final(pacer)' <=> Final(pacer))
  BY DEF FrameSize, Final
<1>2. fwd' = fwd => (CarryingA("pcm")' <=> CarryingA("pcm"))
  BY DEF CarryingA, Carrying
<1> QED
  BY <1>1, <1>2 DEF AccountInv, PacedInv, InHand

\* Steps that take nothing from the actor and put nothing on the wire.
LEMMA AccountStill ==
  ASSUME IInv, OrderInv, LateInv, WireInv, AccountInv,
         UNCHANGED <<heard, said, out, closed>>, stopped \subseteq stopped', Alive' => Alive,
         fwd' = fwd \/ (fwd.at \in {"select", "top"} /\ fwd'.at = "top"),
         pacer'.turn = pacer.turn, pacer'.pending = pacer.pending,
         pacer'.providerDone = pacer.providerDone,
         \/ UNCHANGED turn
         \/ Fence
         \/ \E m \in Messages : TurnStart(m)
         \/ /\ turn'.id = turn.id /\ turn'.outputSequence = turn.outputSequence
            /\ turn'.outputStarted = turn.outputStarted
            /\ turn'.active = turn.active \/ (loop.at = "flush" /\ turn'.active = TRUE)
  PROVE  PacedInv'
<1>1. \/ turn'.id = turn.id /\ (Pacing' => Pacing)
      \/ turn'.id \in Turns /\ turn'.id > latest /\ ~Pacing'
  BY TurnGoesOn
<1>2. InHand'
  <2>1. fwd' = fwd \/ ~CarryingA("pcm")'
    BY DEF CarryingA, Carrying
  <2> QED
    BY <2>1, InHandStill
<1>3. \A t : Sure(t)' => Sure(t)
  BY DEF Sure
<1>4. CASE turn'.id = turn.id /\ (Pacing' => Pacing)
  <2>1. Unbegun' /\ Begun' /\ Ending'
    BY <1>3, <1>4 DEF AccountInv, PacedInv, Unbegun, Begun, Ending
  <2> QED
    BY <1>2, <2>1 DEF PacedInv
<1>5. CASE turn'.id \in Turns /\ turn'.id > latest /\ ~Pacing'
  <2>1. said[turn'.id].audio = 0
    BY <1>5 DEF AccountInv, SaidInv
  <2>2. \A i \in DOMAIN out : out[i].epoch # turn'.id
    <3>1. \A i \in DOMAIN out : out[i].epoch \in Nat /\ out[i].epoch <= latest
      BY OrderTypes DEF OrderInv, Numbers
    <3>2. turn'.id \in Nat /\ latest \in Nat
      BY <1>5, OrderTypes DEF Turns
    <3> QED
      BY <1>5, <3>1, <3>2
  <2>3. out \in Seq(OutItem)
    BY OrderTypes
  <2>4. Ledger(out, turn'.id, 0, 0)
    BY <2>2, <2>3, LedgerNone
  <2>5. Unbegun'
    BY <2>1, <2>4 DEF Unbegun
  <2>6. Begun' /\ Ending'
    BY <1>5 DEF Begun, Ending
  <2> QED
    BY <1>2, <2>5, <2>6 DEF PacedInv
<1> QED
  BY <1>1, <1>4, <1>5

\* A cancel is of a turn that is fenced already.
LEMMA CancelAccount ==
  ASSUME IInv, OrderInv, LateInv, WireInv, AccountInv, CancelActor
  PROVE  PacedInv'
<1>1. turn.active = FALSE /\ UNCHANGED <<turn, stopped, pacer, fwd>>
  BY DEF CancelActor, ForwarderVars, OrderInv, LoopPlaces
<1>2. turn.id # 0 => turn.id \in stopped
  BY <1>1 DEF WireInv, Retired
<1>3. ~Pacing'
  BY <1>1 DEF Pacing, Active
<1>4. InHand'
  BY <1>1, InHandStill
<1> QED
  BY <1>1, <1>2, <1>3, <1>4 DEF PacedInv, Unbegun, Begun, Ending

\* A turn whose end the pacer knows has no more to hear from the actor.
LEMMA PacerOver ==
  ASSUME IInv, OrderInv, pacer.providerDone = TRUE
  PROVE  Over \/ epoch # pacer.turn
<1>1. CASE pacer.turn = turn.id
  BY <1>1 DEF OrderInv, Ends
<1>2. CASE pacer.turn # turn.id
  BY <1>2 DEF OrderInv, Numbers, Over
<1> QED
  BY <1>1, <1>2

LEMMA AnswerAccount ==
  ASSUME IInv, OrderInv, WireInv, AccountInv, NEW item \in Items, ProviderAnswers(item)
  PROVE  PacedInv'
<1> DEFINE event == [epoch |-> epoch, item |-> item]
<1>1. /\ phase = "answering" /\ closed = FALSE /\ out' = Append(out, event)
      /\ UNCHANGED <<turn, stopped, loop, pacer, fwd, ended, heard, closed>>
      /\ said' = [said EXCEPT ![epoch] = [started |-> @.started \/ item.kind = "started",
                                          text |-> @.text \/ item.kind = "text",
                                          audio |-> @.audio + item.n]]
  BY DEF ProviderAnswers, Actor!Answer
<1>2. epoch = turn.id /\ epoch \in Turns /\ out \in Seq(OutItem)
  BY <1>1, OrderTypes DEF OrderInv, Numbers
<1>3. event \in OutItem /\ event.epoch = turn.id /\ event.item = item
  BY <1>2 DEF OutItem
<1>4. said'[turn.id].audio = said[turn.id].audio + item.n
  BY <1>1, <1>2 DEF IInv, HistoryInv, SaidTypes
<1>5. Weight(event, turn.id) = item.n
  BY <1>3 DEF Weight
<1>6. \A t : Sure(t)
  BY <1>1 DEF Sure
<1>7. ~Over
  BY <1>1 DEF Over
<1> HIDE DEF event
<1>8. Unbegun'
  <2> SUFFICES ASSUME Alive, turn.id # 0, turn.id \notin stopped, turn.id # pacer.turn
               PROVE  Ledger(out', turn.id, 0, said'[turn.id].audio)
    BY <1>1 DEF Unbegun, Alive
  <2>1. Ledger(out, turn.id, 0, said[turn.id].audio)
    BY <1>6 DEF AccountInv, PacedInv, Unbegun
  <2> QED
    BY <1>1, <1>2, <1>3, <1>4, <1>5, <2>1, LedgerAppend
<1>9. Pacing => pacer.turn = turn.id /\ pacer.providerDone = FALSE
  <2> SUFFICES ASSUME Pacing PROVE pacer.turn = turn.id /\ pacer.providerDone = FALSE
    OBVIOUS
  <2>1. pacer.turn = turn.id
    BY DEF Pacing, Active
  <2>2. pacer.providerDone \in BOOLEAN
    BY OrderTypes DEF PacerTypes, Pacers
  <2> QED
    BY <1>2, <1>7, <2>1, <2>2, PacerOver
<1>10. Pacing' <=> Pacing
  BY <1>1 DEF Pacing, Active
<1>11. Begun'
  <2> SUFFICES ASSUME Alive, Pacing
               PROVE  Ledger(out', turn.id, UnitsOf(heard[turn.id]) + pacer.pending,
                             said'[turn.id].audio)
    BY <1>1, <1>9, <1>10 DEF Begun, Alive
  <2>1. Ledger(out, turn.id, UnitsOf(heard[turn.id]) + pacer.pending, said[turn.id].audio)
    BY <1>6, <1>9 DEF AccountInv, PacedInv, Begun
  <2> QED
    BY <1>1, <1>2, <1>3, <1>4, <1>5, <2>1, LedgerAppend
<1>12. Ending'
  BY <1>1, <1>9, <1>10 DEF Ending
<1>13. InHand'
  BY <1>1, InHandStill
<1> QED
  BY <1>8, <1>11, <1>12, <1>13 DEF PacedInv

\* What a session that ends loses is the end of a turn, or is replaced by its
\* error: the turn's answer does not end.
LEMMA CloseAccount ==
  ASSUME IInv, OrderInv, WireInv, AccountInv, ActorCloses
  PROVE  PacedInv'
<1> DEFINE loss == [epoch |-> epoch, item |-> [kind |-> "error", n |-> 0]]
<1>1. /\ closed = FALSE /\ closed' = TRUE
      /\ UNCHANGED <<turn, stopped, loop, pacer, fwd, ended, heard, said>>
  BY DEF ActorCloses, Actor!Close, history
<1>2. \/ out' = out
      \/ out # <<>> /\ out' = SubSeq(out, 1, Len(out) - 1)
      \/ phase # "idle" /\ out' = Append(out, loss)
  BY Zenon DEF ActorCloses, Actor!Close
<1>3. out \in Seq(OutItem) /\ DOMAIN out = 1..Len(out) /\ Len(out) \in Nat /\ turn.id = latest
  BY OrderTypes DEF OrderInv, Numbers
<1>4. ASSUME out' # out PROVE ~Sure(turn.id)'
  <2> SUFFICES ASSUME NEW i \in DOMAIN out', out'[i].epoch = turn.id, out'[i].item.kind = "done"
               PROVE  FALSE
    BY <1>1 DEF Sure
  <2>1. CASE out # <<>> /\ out' = SubSeq(out, 1, Len(out) - 1)
    <3>1. i \in DOMAIN out /\ out'[i] = out[i] /\ i \in 1..(Len(out) - 1)
      BY <1>3, <2>1, Shortened
    <3>2. Len(out) \in DOMAIN out /\ i < Len(out)
      BY <1>3, <3>1
    <3> QED
      BY <1>3, <3>1, <3>2 DEF AccountInv, Queued
  <2>2. CASE phase # "idle" /\ out' = Append(out, loss)
    <3>1. loss \in OutItem /\ loss.item.kind = "error"
      BY <2>2, OrderTypes DEF OutItem, Items
    <3> HIDE DEF loss
    <3>2. /\ DOMAIN out' = 1..(Len(out) + 1) /\ out'[Len(out) + 1] = loss
          /\ \A j \in 1..Len(out) : out'[j] = out[j]
      <4>1. /\ Append(out, loss) \in Seq(OutItem) /\ Len(Append(out, loss)) = Len(out) + 1
            /\ \A j \in 1..Len(out) : Append(out, loss)[j] = out[j]
            /\ Append(out, loss)[Len(out) + 1] = loss
        BY <1>3, <3>1, AppendProperties
      <4>2. DOMAIN Append(out, loss) = 1..(Len(out) + 1)
        BY <4>1
      <4> QED
        BY <2>2, <4>1, <4>2
    <3>3. i # Len(out) + 1
      BY <3>1, <3>2
    <3>4. i \in DOMAIN out /\ out'[i] = out[i]
      BY <1>3, <3>2, <3>3
    <3>5. Over
      BY <3>4 DEF OrderInv, Ends
    <3> QED
      BY <1>1, <2>2, <3>5 DEF Over
  <2> QED
    BY <1>2, <1>4, <2>1, <2>2
<1>5. Sure(turn.id)
  BY <1>1 DEF Sure
<1>6. Pacing' <=> Pacing
  BY <1>1 DEF Pacing, Active
<1>7. Pacing => pacer.turn = turn.id
  BY DEF Pacing, Active
<1>8. InHand'
  BY <1>1, InHandStill
<1> HIDE DEF loss
<1>9. Unbegun' /\ Ending'
  BY <1>1, <1>4, <1>5, <1>6 DEF AccountInv, PacedInv, Unbegun, Ending, Alive
<1>10. Begun'
  BY <1>1, <1>4, <1>5, <1>6, <1>7 DEF AccountInv, PacedInv, Begun, Alive
<1> QED
  BY <1>8, <1>9, <1>10 DEF PacedInv

\* A session that is over stays over.
LEMMA AliveBefore == [Next]_vars /\ Alive' => Alive
<1>1. TakeEvent => Alive
  BY DEF TakeEvent
<1> QED
  BY <1>1 DEF Next, TakeMessage, Receive, Ready, TurnStart, TurnStartClosed, TurnCancel, Unsupported,
    TurnCongestion, ReceiveLoop, TurnCommit, Handling, FlushFinalInput, CommitActor, HandlePCM,
    AppendInput, BelongsToActiveTurn, RetireActiveTurn, CancelActor,
    ForwardEvents, Top, TimerFires, StreamClosed, Push, Drop, FinishPacedResponse,
    PeerGone, Due, ProviderAnswers, ActorCloses, Alive, vars

\* The top of the loop pads an end whose frames are all out, sends a frame of
\* the pacer, or sends response.done when the pacer is empty.
LEMMA TopAccount ==
  ASSUME IInv, OrderInv, LateInv, WireInv, AccountInv, Top
  PROVE  PacedInv' /\ DoneSent'
<1>0. /\ fwd.at = "top" /\ UNCHANGED <<stopped, heard, said, out, closed, ended>>
      /\ pacer' = Padded
  BY DEF Top, LoopVars
<1>1. /\ Padded \in Pacers
      /\ Padded.turn # 0 =>
           /\ Padded.turn = pacer.turn /\ pacer.turn = turn.id /\ turn.active = TRUE
      /\ Padded.turn = 0 => pacer.turn = 0 \/ ~Active(pacer.turn)
  BY <1>0, AtTop
<1>2. TurnTypes /\ PacerTypes /\ Empty(Padded) /\ Retired
  BY OrderTypes, PaddedType DEF WireInv, IInv, PacingInv
<1>3. /\ turn'.id = turn.id /\ turn'.active = turn.active
  BY <1>2 DEF Top, SendFrame, TurnTypes
<1>4. \A t : Sure(t)' <=> Sure(t)
  BY <1>0 DEF Sure
<1>5. CASE Padded.turn = 0
  <2>1. Padded.pending = 0 /\ Padded.providerDone = FALSE
    BY <1>2, <1>5 DEF Empty
  <2>2. ~FrameReady(Padded)
    BY <2>1, Sizes DEF FrameReady
  <2>3. fwd' = At("select")
    BY <2>1, <2>2 DEF Top
  <2>4. ~CarryingA("pcm")' /\ ~CarryingA("response.done")'
    BY <2>3 DEF CarryingA, Carrying, At
  <2>5. ~Pacing'
    BY <1>0, <1>5 DEF Pacing
  <2>6. turn.id # 0 /\ turn.id \notin stopped => turn.id # pacer.turn
    BY <1>1, <1>2, <1>5 DEF Retired, Active, TurnTypes
  <2>7. Unbegun'
    BY <1>0, <1>3, <1>4, <2>6 DEF AccountInv, PacedInv, Unbegun, Alive
  <2> QED
    BY <2>4, <2>5, <2>7 DEF PacedInv, InHand, Begun, Ending, DoneSent
<1>6. CASE Padded.turn # 0
  <2>1. Pacing /\ pacer.turn \in Turns
    <3>1. pacer.turn \in 0..MaxTurn /\ pacer.turn # 0
      BY <1>1, <1>2, <1>6 DEF PacerTypes, Pacers
    <3> QED
      BY <1>0, <1>1, <1>6, <3>1, Sizes DEF Pacing, Active
  <2>2. Fresh = pacer
    BY <1>2, <2>1 DEF Fresh, Pacing
  <2>3. \/ Padded = pacer
        \/ pacer.providerDone = TRUE /\ pacer.pending = 0 /\ Padded = [pacer EXCEPT !.pending = 1]
    BY <1>2, <2>2 DEF Padded, PacerTypes, Pacers
  <2>4. /\ Padded.turn = pacer.turn /\ Padded.providerDone = pacer.providerDone
        /\ \/ Padded.pending = pacer.pending
           \/ pacer.providerDone = TRUE /\ pacer.pending = 0 /\ Padded.pending = 1
    BY <1>2, <2>3 DEF PacerTypes, Pacers
  <2>5. Unbegun'
    BY <1>0, <1>1, <1>3, <1>6, <2>4 DEF Unbegun
  <2>6. Begun'
    <3> SUFFICES ASSUME Alive', Pacing', Padded.providerDone = FALSE, Sure(pacer.turn)
                 PROVE  Ledger(out, pacer.turn, UnitsOf(heard[pacer.turn]) + Padded.pending,
                               said[pacer.turn].audio)
      BY <1>0, <1>4, <2>4 DEF Begun
    <3> QED
      BY <1>0, <2>1, <2>4 DEF AccountInv, PacedInv, Begun, Alive
  <2>7. UnitsOf(heard[pacer.turn]) \in Nat /\ pacer.pending \in Nat
        /\ said[pacer.turn].audio \in Nat
    BY <1>2, <2>1 DEF AccountInv, SaidInv, PacerTypes, Pacers, IInv, HistoryInv, SaidTypes
  <2>8. pacer.providerDone = TRUE =>
          \/ UnitsOf(heard[pacer.turn]) + Padded.pending = said[pacer.turn].audio
          \/ Padded.pending = 1 /\ UnitsOf(heard[pacer.turn]) = said[pacer.turn].audio
    BY <2>1, <2>4, <2>7 DEF AccountInv, PacedInv, Ending
  <2>9. Ending'
    BY <1>0, <2>4, <2>8 DEF Ending
  <2>10. InHand'
    <3> SUFFICES ASSUME CarryingA("pcm")'
                 PROVE  fwd'.packet.n = FrameSize(Padded)
                        /\ (fwd'.packet.end = TRUE <=> Final(Padded))
      BY <1>0 DEF InHand, FrameSize, Final
    <3>1. SendFrame(Padded)
      BY DEF Top, CarryingA, Carrying, Sending, Control, At
    <3>2. fwd'.packet = [type |-> "pcm", seq |-> turn.outputSequence, end |-> Final(Padded),
                         n |-> FrameSize(Padded)]
      BY <3>1 DEF SendFrame, Sending
    <3>3. Final(Padded) \in BOOLEAN
      BY FinalBoolean
    <3>4. fwd'.packet.n = FrameSize(Padded) /\ fwd'.packet.end = Final(Padded)
      BY <3>2
    <3> QED
      BY <3>3, <3>4
  <2>11. DoneSent'
    <3> SUFFICES ASSUME CarryingA("response.done")' PROVE Covers(fwd.turn)'
      BY DEF DoneSent
    <3>1. Padded.providerDone /\ Padded.pending = 0 /\ Sending(Control("response.done"), Padded.turn)
      BY DEF Top, CarryingA, Carrying, Sending, Control, At, SendFrame
    <3>2. fwd'.turn = pacer.turn /\ pacer.providerDone = TRUE
      BY <1>1, <2>4, <3>1 DEF Sending, Pacers
    <3>3. UnitsOf(heard[pacer.turn]) = said[pacer.turn].audio
      BY <2>7, <2>8, <3>1, <3>2
    <3> QED
      BY <1>0, <2>7, <3>2, <3>3 DEF Covers
  <2> QED
    BY <2>5, <2>6, <2>9, <2>10, <2>11 DEF PacedInv
<1> QED
  BY <1>5, <1>6

\* An event that has no effect is refused, and that ends the session.
LEMMA Refused ==
  ASSUME fwd.at = "select", fwd' = fwd, NEW n,
         Started \/ TextDelta \/ Done \/ AudioDelta(n)
  PROVE  ~Alive'
<1>2. CASE Started
  <2>1. ~Alive' \/ Sending(Control("response.start"), turn.id)
    BY <1>2, Zenon DEF Started, FailWith, End, Alive
  <2> QED
    BY <2>1 DEF Sending, At
<1>3. CASE TextDelta
  <2>1. ~Alive' \/ Sending(Control("response.text_delta"), turn.id)
    BY <1>3, Zenon DEF TextDelta, FailWith, End, Alive
  <2> QED
    BY <2>1 DEF Sending, At
<1>4. CASE Done
  <2>1. ~Alive' \/ fwd' = At("top")
    BY <1>4, Zenon DEF Done, FailWith, End, Alive
  <2> QED
    BY <2>1 DEF Sending, At
<1>5. CASE AudioDelta(n)
  <2>1. \/ ~Alive' \/ fwd' = At("top")
        \/ Sending(Control("response.audio_start"), turn.id)
    BY <1>5, Zenon DEF AudioDelta, FailWith, End, Alive
  <2> QED
    BY <2>1 DEF Sending, At
<1> QED
  BY <1>2, <1>3, <1>4, <1>5

\* The first event of the queue moves into the pacer, or its turn is over.
LEMMA TakeAccount ==
  ASSUME IInv, OrderInv, LateInv, WireInv, AccountInv, TakeEvent
  PROVE  PacedInv'
<1> DEFINE event == Head(out)
           wire == UnitsOf(heard[turn.id])
           audio == said[turn.id].audio
<1>0. /\ fwd.at = "select" /\ out # <<>> /\ out' = Tail(out) /\ Alive
      /\ UNCHANGED <<heard, said, closed>>
  BY DEF TakeEvent, LoopVars
<1>1. /\ TurnTypes /\ PacerTypes /\ Retired /\ Unspoken /\ Unbegun /\ Begun /\ Ending
      /\ out \in Seq(OutItem) /\ turn.id = latest /\ pacer.pending \in Nat
  BY OrderTypes DEF WireInv, AccountInv, PacedInv, OrderInv, Numbers, PacerTypes, Pacers
<1>2. event \in OutItem /\ event.epoch \in Turns /\ event.item \in Items /\ event.item.n \in Nat
  <2>1. 1 \in DOMAIN out /\ event = out[1]
    BY <1>0, <1>1, TailOf
  <2>2. event \in OutItem
    BY <1>1, <2>1
  <2>3. event.epoch \in Turns /\ event.item \in Items
    BY <2>2 DEF OutItem
  <2> QED
    BY <2>2, <2>3, Sizes DEF Items
<1>3. \A t : Sure(t)' => Sure(t)
  <2> SUFFICES ASSUME NEW t, closed = TRUE,
                      NEW i \in DOMAIN out', out'[i].epoch = t, out'[i].item.kind = "done"
               PROVE  Sure(t)
    BY <1>0, OrderTypes DEF Sure
  <2>1. i + 1 \in DOMAIN out /\ out'[i] = out[i + 1]
    BY <1>0, <1>1, TailOf
  <2> QED
    BY <2>1 DEF Sure
<1>4. ASSUME NEW t, NEW base, NEW total, Ledger(out, t, base, total)
      PROVE  Ledger(out', t, base + Weight(event, t), total)
  BY <1>0, <1>1, <1>4, LedgerTail
<1>5. \A type : ~CarryingA(type)
  BY <1>0 DEF CarryingA, Carrying
<1>6. turn.id # 0 /\ turn.id \notin stopped => turn.active = TRUE
  BY <1>1 DEF Retired, TurnTypes
<1>7. Pacing => turn.id # 0
  BY DEF Pacing, Active
<1>8. ASSUME turn.id # 0 PROVE wire \in Nat /\ audio \in Nat
  <2>1. turn.id \in Turns
    BY <1>1, <1>8, Sizes DEF TurnTypes
  <2> QED
    BY <2>1 DEF AccountInv, SaidInv, IInv, HistoryInv, SaidTypes
<1>9. InHand'
  <2>1. \/ fwd' = fwd \/ fwd' = At("top")
        \/ \E type \in {"response.start", "response.text_delta", "response.audio_start", "error"} :
             Sending(Control(type), turn.id)
    <3>1. CASE ~Active(event.epoch)
      BY <3>1 DEF TakeEvent
    <3>2. CASE Started \/ TextDelta \/ Done \/ AudioDelta(event.item.n)
      BY <3>2, EventEffects
    <3>3. CASE ProviderError
      BY <3>3 DEF ProviderError
    <3>4. event.item.kind \in {"started", "text", "audio", "done", "error"}
      BY <1>2 DEF Items
    <3> QED
      BY <3>1, <3>2, <3>3, <3>4 DEF TakeEvent
  <2>2. ~CarryingA("pcm")'
    BY <1>0, <2>1 DEF CarryingA, Carrying, At, Sending, Control
  <2> QED
    BY <2>2 DEF InHand
<1> HIDE DEF event, wire, audio
<1>10. CASE ~Active(event.epoch)
  <2>1. UNCHANGED <<turn, stopped, pacer, ended>> /\ fwd' = At("top")
    BY <1>10 DEF TakeEvent, event
  <2>2. turn.active = TRUE => Weight(event, turn.id) = 0
    BY <1>2, <1>10 DEF Active, Weight
  <2>3. Unbegun'
    <3> SUFFICES ASSUME turn.id # 0, turn.id \notin stopped, turn.id # pacer.turn, Sure(turn.id)
                 PROVE  Ledger(out', turn.id, 0, audio)
      BY <1>0, <1>3, <2>1 DEF Unbegun, audio
    <3>1. Ledger(out, turn.id, 0, audio)
      BY <1>0, <1>1 DEF Unbegun, audio
    <3>2. 0 + Weight(event, turn.id) = 0
      BY <1>6, <2>2
    <3> QED
      BY <1>4, <3>1, <3>2
  <2>4. Pacing' => Pacing /\ pacer.turn = turn.id /\ turn.active = TRUE
    BY <1>0, <1>1, <2>1 DEF Pacing, Active, At, TurnTypes
  <2>5. Begun'
    <3> SUFFICES ASSUME Pacing', pacer.providerDone = FALSE, Sure(turn.id)
                 PROVE  Ledger(out', turn.id, wire + pacer.pending, audio)
      BY <1>0, <1>3, <2>1, <2>4 DEF Begun, wire, audio
    <3>1. Ledger(out, turn.id, wire + pacer.pending, audio)
      BY <1>0, <1>1, <2>4 DEF Begun, wire, audio
    <3>2. (wire + pacer.pending) + Weight(event, turn.id) = wire + pacer.pending
      BY <1>1, <1>7, <1>8, <2>2, <2>4
    <3> QED
      BY <1>4, <3>1, <3>2
  <2>6. Ending'
    BY <1>0, <1>1, <2>1, <2>4 DEF Ending
  <2> QED
    BY <1>9, <2>3, <2>5, <2>6 DEF PacedInv
<1>11. CASE Active(event.epoch)
  <2>0. /\ turn.active = TRUE /\ turn.id \in Turns /\ turn.id # 0 /\ turn.id \notin stopped
        /\ event.epoch = turn.id
    BY <1>0, <1>11, Current, Sizes DEF event
  <2>1. Weight(event, turn.id) = event.item.n /\ wire \in Nat /\ audio \in Nat
    BY <1>8, <2>0 DEF Weight
  <2>2. Active(pacer.turn) => pacer.turn = turn.id /\ Pacing
    BY <1>0, <2>0 DEF Active, Pacing
  <2>3. ASSUME UNCHANGED <<turn, stopped, pacer, fwd>>, NEW n,
               Started \/ TextDelta \/ Done \/ AudioDelta(n)
        PROVE  PacedInv'
    <3>1. ~Alive'
      BY <1>0, <2>3, Refused
    <3>2. Pacing' <=> Pacing
      BY <2>3 DEF Pacing, Active
    <3>3. Unbegun' /\ Begun' /\ Ending'
      BY <1>0, <1>1, <2>3, <3>1, <3>2 DEF Unbegun, Begun, Ending
    <3> QED
      BY <1>9, <3>3 DEF PacedInv
  \* The pacer holds the turn before and after, and its end is not new.
  <2>4. ASSUME turn'.id = turn.id, pacer.turn = turn.id, pacer'.turn = turn.id, Pacing,
               pacer'.providerDone = pacer.providerDone, pacer'.pending = pacer.pending + event.item.n,
               pacer.providerDone = FALSE
        PROVE  PacedInv'
    <3>1. Unbegun' /\ Ending'
      BY <2>4 DEF Unbegun, Ending
    <3>2. Begun'
      <4> SUFFICES ASSUME Sure(turn.id)
                   PROVE  Ledger(out', turn.id, wire + (pacer.pending + event.item.n), audio)
        BY <1>0, <1>3, <2>4 DEF Begun, wire, audio
      <4>1. Ledger(out, turn.id, wire + pacer.pending, audio)
        BY <1>0, <1>1, <2>4 DEF Begun, wire, audio
      <4>2. (wire + pacer.pending) + Weight(event, turn.id) = wire + (pacer.pending + event.item.n)
        BY <1>1, <1>2, <2>1
      <4> QED
        BY <1>4, <4>1, <4>2
    <3> QED
      BY <1>9, <3>1, <3>2 DEF PacedInv
  <2>5. Active(pacer.turn) => pacer.providerDone = FALSE
    <3>1. 1 \in DOMAIN out /\ out[1].epoch = turn.id
      BY <1>0, <1>1, <2>0, TailOf DEF event
    <3> QED
      BY <1>1, <2>2, <3>1 DEF AccountInv, Drained, PacerTypes, Pacers
  <2>6. CASE event.item.kind = "started" /\ Started
    <3>1. CASE UNCHANGED <<turn, stopped, pacer, fwd>>
      BY <2>3, <2>6, <3>1
    <3>2. CASE ~UNCHANGED <<turn, stopped, pacer, fwd>>
      <4>1. pacer.turn = 0 /\ pacer' = BegunFor(turn.id) /\ turn' = turn /\ stopped' = stopped
        BY <2>6, <3>2, EventEffects
      <4>2. pacer'.turn = turn.id /\ pacer'.pending = 0 /\ pacer'.providerDone = FALSE
        BY <4>1 DEF BegunFor, NoPacer
      <4>3. heard[turn.id] = <<>>
        BY <1>1, <2>0, <4>1 DEF Unspoken
      <4>4. wire = 0
        BY <4>3, NoUnits DEF wire
      <4>5. event.item.n = 0
        BY <1>2, <2>6 DEF Items
      <4>6. Begun'
        <5> SUFFICES ASSUME Sure(turn.id) PROVE Ledger(out', turn.id, wire + 0, audio)
          BY <1>0, <1>3, <4>2 DEF Begun, wire, audio
        <5>1. Ledger(out, turn.id, 0, audio)
          BY <1>0, <1>1, <2>0, <4>1 DEF Unbegun, audio
        <5>2. 0 + Weight(event, turn.id) = wire + 0
          BY <2>1, <4>4, <4>5
        <5> QED
          BY <1>4, <5>1, <5>2
      <4>7. Unbegun' /\ Ending'
        BY <4>1, <4>2 DEF Unbegun, Ending
      <4> QED
        BY <1>9, <4>6, <4>7 DEF PacedInv
    <3> QED
      BY <3>1, <3>2
  <2>7. CASE event.item.kind = "text" /\ TextDelta
    <3>1. CASE UNCHANGED <<turn, stopped, pacer, fwd>>
      BY <2>3, <2>7, <3>1
    <3>2. CASE ~UNCHANGED <<turn, stopped, pacer, fwd>>
      <4>1. Active(pacer.turn) /\ UNCHANGED <<turn, stopped, pacer>>
        BY <2>7, <3>2, EventEffects
      <4>2. event.item.n = 0
        BY <1>2, <2>7 DEF Items
      <4>3. pacer'.pending = pacer.pending + event.item.n
        BY <1>1, <4>1, <4>2
      <4> QED
        BY <2>2, <2>4, <2>5, <4>1, <4>3
    <3> QED
      BY <3>1, <3>2
  <2>8. CASE event.item.kind = "audio" /\ AudioDelta(event.item.n)
    <3>1. CASE UNCHANGED <<turn, stopped, pacer, fwd>>
      BY <2>3, <2>8, <3>1
    <3>2. CASE ~UNCHANGED <<turn, stopped, pacer, fwd>>
      <4>1. /\ Active(pacer.turn)
            /\ pacer' = [pacer EXCEPT !.pending = pacer.pending + event.item.n]
            /\ turn' = [turn EXCEPT !.outputStarted = TRUE]
        BY <2>8, <3>2, EventEffects
      <4>2. /\ pacer'.turn = pacer.turn /\ pacer'.providerDone = pacer.providerDone
            /\ pacer'.pending = pacer.pending + event.item.n /\ turn'.id = turn.id
        BY <1>1, <4>1 DEF PacerTypes, Pacers, TurnTypes
      <4> QED
        BY <2>2, <2>4, <2>5, <4>1, <4>2
    <3> QED
      BY <3>1, <3>2
  <2>9. CASE event.item.kind = "done" /\ Done
    <3>1. CASE UNCHANGED <<turn, stopped, pacer, fwd>>
      BY <2>3, <2>9, <3>1
    <3>2. CASE ~UNCHANGED <<turn, stopped, pacer, fwd>>
      <4>1. Active(pacer.turn) /\ UNCHANGED turn /\ pacer' = [pacer EXCEPT !.providerDone = TRUE]
        BY <2>9, <3>2, EventEffects
      <4>2. /\ pacer'.turn = turn.id /\ pacer'.pending = pacer.pending
            /\ pacer'.providerDone = TRUE
        BY <1>1, <2>2, <4>1 DEF PacerTypes, Pacers
      <4>3. 1 \in DOMAIN out /\ out[1] = event
        BY <1>0, <1>1, TailOf DEF event
      <4>4. Len(out) = 1
        <5>1. \A j \in DOMAIN out : ~(1 < j)
          BY <1>1, <2>0, <2>9, <4>3 DEF AccountInv, Queued
        <5>2. Len(out) \in Nat /\ DOMAIN out = 1..Len(out)
          BY OrderTypes
        <5> QED
          BY <4>3, <5>1, <5>2
      <4>5. Sure(turn.id)
        BY <2>0, <2>9, <4>3 DEF Sure
      <4>6. Ledger(out, turn.id, wire + pacer.pending, audio)
        BY <1>0, <1>1, <2>2, <2>5, <4>1, <4>5 DEF Begun, wire, audio
      <4>7. audio = (wire + pacer.pending) + event.item.n
        BY <1>1, <2>1, <4>3, <4>4, <4>6, LedgerOne
      <4>8. event.item.n = 0
        BY <1>2, <2>9 DEF Items
      <4>9. wire + pacer.pending = audio
        BY <1>1, <2>1, <4>7, <4>8
      <4>10. Ending'
        BY <1>0, <4>2, <4>9 DEF Ending, wire, audio
      <4>11. Unbegun' /\ Begun'
        BY <4>1, <4>2 DEF Unbegun, Begun
      <4> QED
        BY <1>9, <4>10, <4>11 DEF PacedInv
    <3> QED
      BY <3>1, <3>2
  <2>10. CASE event.item.kind = "error" /\ ProviderError
    <3>1. Fence /\ pacer' = NoPacer
      BY <2>10 DEF ProviderError
    <3>2. turn'.id = turn.id /\ stopped' = stopped \cup {turn.id} /\ pacer'.turn = 0
      BY <1>1, <2>0, <3>1, Fenced DEF NoPacer
    <3>3. Unbegun' /\ Begun' /\ Ending'
      BY <3>2 DEF Unbegun, Begun, Ending, Pacing
    <3> QED
      BY <1>9, <3>3 DEF PacedInv
  <2>11. event.item.kind \in {"started", "text", "audio", "done", "error"}
    BY <1>2 DEF Items
  <2> QED
    BY <1>11, <2>6, <2>7, <2>8, <2>9, <2>10, <2>11 DEF TakeEvent, event
<1> QED
  BY <1>10, <1>11

\* A frame moves from the pacer to the wire; the last takes all that is left.
LEMMA PushAccount ==
  ASSUME IInv, OrderInv, LateInv, WireInv, AccountInv, Push
  PROVE  PacedInv' /\ DoneSent'
<1> DEFINE t == fwd.turn
           p == fwd.packet
           wire == UnitsOf(heard[t])
           audio == said[t].audio
<1>0. /\ fwd.at = "push" /\ UNCHANGED <<turn, stopped, out, said, closed, ended>> /\ AfterPush(p)
      /\ heard' = [heard EXCEPT ![t] = Append(heard[t], p)]
  BY DEF Push, LoopVars
<1>1. /\ TurnTypes /\ PacerTypes /\ FwdTypes /\ Retired /\ FrameCounted /\ Revived /\ Carries
      /\ heard \in [Turns -> Seq(Packet)] /\ pacer.pending \in Nat /\ p \in Packet
      /\ InHand /\ Unbegun /\ Begun /\ Ending
  <2>1. /\ TurnTypes /\ PacerTypes /\ FwdTypes /\ Retired /\ FrameCounted /\ Revived /\ Carries
        /\ heard \in [Turns -> Seq(Packet)]
    BY OrderTypes DEF WireInv, IInv, PacingInv, HistoryInv, HeardTypes, OrderInv
  <2>2. pacer.pending \in Nat /\ p \in Packet
    BY <2>1 DEF PacerTypes, Pacers, FwdTypes
  <2> QED
    BY <2>1, <2>2 DEF AccountInv, PacedInv
<1>2. t \in Turns
  <2>1. t \in 0..MaxTurn /\ (t \in stopped \/ t # 0)
    BY <1>0, <1>1 DEF Carries, FwdTypes
  <2> QED
    BY <2>1, Sizes, OrderTypes
<1>3. heard'[t] = Append(heard[t], p) /\ \A u \in Turns \ {t} : heard'[u] = heard[u]
  BY <1>0, <1>1, <1>2
<1>4. wire \in Nat /\ audio \in Nat /\ UnitsOf(heard'[t]) = wire + p.n
  <2>1. wire \in Nat /\ audio \in Nat
    BY <1>2 DEF AccountInv, SaidInv, IInv, HistoryInv, SaidTypes
  <2>2. heard[t] \in Seq(Packet)
    BY <1>1, <1>2
  <2>3. UnitsOf(heard'[t]) = wire + p.n
    BY <1>1, <1>3, <2>2, UnitsGrow
  <2> QED
    BY <2>1, <2>3
<1>5. Carrying => t = pacer.turn
  BY <1>0, <1>1 DEF Carries
<1>6. Carrying <=> p.type # "error"
  BY <1>0 DEF Carrying
<1>7. \A u : Sure(u)' <=> Sure(u)
  BY <1>0 DEF Sure
<1>8. p.end \in BOOLEAN /\ (p.type # "pcm" => p.n = 0)
  BY <1>1, PacketFields DEF Packet
<1> DEFINE rest == [pacer EXCEPT !.pending = @ - p.n, !.wireFrames = @ + 1, !.due = FALSE]
<1>9. rest.turn = pacer.turn /\ rest.providerDone = pacer.providerDone
      /\ rest.pending = pacer.pending - p.n
  BY <1>1 DEF PacerTypes, Pacers
<1>10. p.type = "pcm" => /\ p.n \in Nat \ {0} /\ p.n <= pacer.pending
                         /\ p.n = FrameSize(pacer) /\ (p.end = TRUE <=> Final(pacer))
  BY <1>0, <1>1, FrameOnWire DEF FrameCounted, InHand, CarryingA, Carrying
<1>11. /\ p.type = "pcm" => pacer' = rest \/ (pacer' = NoPacer /\ p.end = TRUE /\ ~Active(t))
       /\ p.type # "pcm" => pacer' = pacer
  BY <1>0, <1>8 DEF AfterPush
<1> HIDE DEF rest
<1>12. Unbegun'
  <2> SUFFICES ASSUME Alive, turn.id # 0, turn.id \notin stopped, turn.id # pacer'.turn, Sure(turn.id)
               PROVE  Ledger(out, turn.id, 0, said[turn.id].audio)
    BY <1>0, <1>7 DEF Unbegun, Alive
  <2>1. turn.active = TRUE
    BY <1>1 DEF Retired, TurnTypes
  <2>2. turn.id # pacer.turn
    BY <1>5, <1>6, <1>9, <1>11, <2>1 DEF Active
  <2> QED
    BY <1>1, <2>2 DEF Unbegun
<1>13. Pacing /\ Carrying => t = turn.id /\ pacer.turn = t
  BY <1>5 DEF Pacing, Active
<1> HIDE DEF t, p, wire, audio
<1>14. CASE p.type = "error"
  <2>1. fwd'.at = "top" /\ pacer' = pacer /\ t \in stopped
    BY <1>0, <1>1, <1>6, <1>14 DEF AfterPush, At, Carries, t
  <2>2. ~CarryingA("pcm")' /\ ~CarryingA("response.done")'
    BY <2>1 DEF CarryingA, Carrying
  <2>3. Pacing' => Pacing /\ pacer.turn \in Turns \ {t}
    <3> SUFFICES ASSUME Pacing' PROVE Pacing /\ pacer.turn \in Turns \ {t}
      OBVIOUS
    <3>1. Pacing
      BY <1>0, <1>14, <2>1 DEF Pacing, Active, p
    <3>2. pacer.turn = turn.id /\ turn.active = TRUE /\ turn.id # 0
      BY <1>1, <3>1 DEF Pacing, Active, TurnTypes
    <3>3. turn.id \in Turns
      BY <1>1, <3>2, Sizes DEF TurnTypes
    <3> QED
      BY <1>1, <2>1, <3>1, <3>2, <3>3 DEF Revived
  <2>4. Pacing' => heard'[pacer.turn] = heard[pacer.turn]
    BY <1>3, <2>3
  <2>5. Begun' /\ Ending'
    BY <1>0, <1>1, <1>7, <2>1, <2>3, <2>4 DEF Begun, Ending, Alive
  <2> QED
    BY <1>12, <2>2, <2>5 DEF PacedInv, InHand, DoneSent
<1>15. CASE p.type = "pcm" /\ p.end = TRUE /\ Active(t)
  <2>1. Sending(Control("response.done"), t)
    BY <1>0, <1>15 DEF AfterPush, p, t
  <2>2. fwd'.turn = t /\ fwd'.at = "push" /\ fwd'.packet.type = "response.done"
    BY <2>1 DEF Sending, Control
  <2>3. Pacing
    BY <1>0, <1>2, <1>5, <1>6, <1>15, Sizes DEF Pacing, p, Turns
  <2>4. p.n = pacer.pending /\ pacer.providerDone = TRUE
    <3>1. Final(pacer) /\ p.n = FrameSize(pacer)
      BY <1>10, <1>15
    <3> QED
      BY <1>1, <3>1, Sizes DEF Final, FrameSize, PacerTypes, Pacers
  <2>5. wire + pacer.pending = audio \/ (pacer.pending = 1 /\ wire = audio)
    BY <1>1, <1>5, <1>6, <1>15, <2>3, <2>4 DEF Ending, wire, audio
  <2>6. (wire + p.n) - audio \in {0, 1}
    BY <1>1, <1>4, <2>4, <2>5
  <2>7. UnitsOf(heard'[t]) - said'[t].audio \in {0, 1}
    BY <1>0, <1>4, <2>6 DEF audio
  <2>8. DoneSent'
    BY <2>2, <2>7 DEF DoneSent, Covers
  <2> QED
    BY <1>12, <2>2, <2>8 DEF PacedInv, InHand, CarryingA, Begun, Ending, Pacing
<1>16. CASE p.type = "pcm" /\ ~(p.end = TRUE /\ Active(t))
  <2>1. /\ fwd'.at = "top"
        /\ p.end = TRUE => pacer' = NoPacer
        /\ p.end = FALSE => pacer' = rest
    BY <1>0, <1>8, <1>16 DEF AfterPush, At, t, p, rest
  <2>2. ~CarryingA("pcm")' /\ ~CarryingA("response.done")'
    BY <2>1 DEF CarryingA, Carrying
  <2>3. ASSUME Pacing'
        PROVE  /\ Pacing /\ pacer'.turn = t /\ pacer.turn = t /\ p.end = FALSE
               /\ pacer'.providerDone = pacer.providerDone
               /\ pacer'.pending = pacer.pending - p.n
    <3>1. pacer' = rest /\ p.end = FALSE
      BY <1>8, <2>1, <2>3 DEF Pacing, NoPacer
    <3>2. pacer'.turn = t /\ pacer.turn = t
      BY <1>5, <1>6, <1>9, <1>16, <3>1
    <3>3. Pacing
      BY <1>0, <1>16, <2>3, <3>2 DEF Pacing, Active, p
    <3> QED
      BY <1>9, <3>1, <3>2, <3>3
  <2>4. (wire + p.n) + (pacer.pending - p.n) = wire + pacer.pending
    BY <1>1, <1>4, <1>10, <1>16
  <2>5. Begun'
    <3> SUFFICES ASSUME Alive, Pacing', pacer.providerDone = FALSE, Sure(t)
                 PROVE  Ledger(out, t, UnitsOf(heard'[t]) + (pacer.pending - p.n), audio)
      BY <1>0, <1>7, <2>3 DEF Begun, Alive, audio
    <3>1. Ledger(out, t, wire + pacer.pending, audio)
      BY <1>1, <2>3 DEF Begun, wire, audio
    <3> QED
      BY <1>4, <2>4, <3>1
  <2>6. Ending'
    <3> SUFFICES ASSUME Pacing', pacer.providerDone = TRUE
                 PROVE  UnitsOf(heard'[t]) + (pacer.pending - p.n) = audio
      BY <1>0, <2>3 DEF Ending, audio
    <3>1. ~Final(pacer)
      BY <1>10, <1>16, <2>3
    <3>2. pacer.pending # 1
      BY <3>1, Sizes DEF Final
    <3>3. wire + pacer.pending = audio
      BY <1>1, <2>3, <3>2 DEF Ending, wire, audio
    <3> QED
      BY <1>4, <2>4, <3>3
  <2> QED
    BY <1>12, <2>2, <2>5, <2>6 DEF PacedInv, InHand, DoneSent
<1>17. CASE p.type = "response.done"
  <2>1. fwd' = [fwd EXCEPT !.at = "clear"]
    BY <1>0, <1>17 DEF AfterPush
  <2>2. fwd'.at = "clear"
    BY <1>1, <2>1 DEF FwdTypes
  <2> QED
    BY <1>12, <2>2 DEF PacedInv, InHand, CarryingA, Carrying, Begun, Ending, Pacing, DoneSent
<1>18. CASE p.type \notin {"error", "pcm", "response.done"}
  <2>1. fwd'.at = "top" /\ pacer' = pacer
    BY <1>0, <1>18 DEF AfterPush, At
  <2>2. ~CarryingA("pcm")' /\ ~CarryingA("response.done")'
    BY <2>1 DEF CarryingA, Carrying
  <2>3. Pacing' => Pacing /\ pacer.turn = t
    BY <1>0, <1>5, <1>6, <1>18, <2>1 DEF Pacing, Active, p
  <2>4. UnitsOf(heard'[t]) = UnitsOf(heard[t])
    BY <1>4, <1>8, <1>18 DEF wire
  <2>5. Begun' /\ Ending'
    BY <1>0, <1>1, <1>7, <2>1, <2>3, <2>4 DEF Begun, Ending, Alive
  <2> QED
    BY <1>12, <2>2, <2>5 DEF PacedInv, InHand, DoneSent
<1> QED
  BY <1>14, <1>15, <1>16, <1>17, <1>18

\* A packet that is not sent, and the end of a paced answer.
LEMMA DropAccount ==
  ASSUME IInv, OrderInv, LateInv, WireInv, AccountInv, Drop \/ FinishPacedResponse
  PROVE  PacedInv'
<1>0. ~Carrying' /\ fwd'.at = "top" /\ UNCHANGED <<heard, said, out, closed, ended>>
  BY DEF Drop, FinishPacedResponse, At, Carrying, LoopVars
<1>1. TurnTypes /\ Retired /\ Revived /\ Carries /\ Unbegun
  BY OrderTypes DEF WireInv, OrderInv, AccountInv, PacedInv
<1>2. \A t : Sure(t)' <=> Sure(t)
  BY <1>0 DEF Sure
<1>3. CASE Drop
  <2>1. /\ UNCHANGED <<turn, stopped>> /\ pacer.turn \in stopped
        /\ pacer' = NoPacer \/ pacer' = pacer
    BY <1>1, <1>3 DEF Drop, Carrying, Carries
  <2>2. ~Pacing'
    BY <1>1, <2>1 DEF Pacing, Active, Revived, NoPacer, TurnTypes
  <2>3. Unbegun'
    BY <1>0, <1>1, <1>2, <2>1 DEF Unbegun, Alive
  <2> QED
    BY <1>0, <2>2, <2>3 DEF PacedInv, InHand, CarryingA, Begun, Ending
<1>4. CASE FinishPacedResponse
  <2>1. pacer'.turn = 0 /\ fwd.turn = pacer.turn
    BY <1>1, <1>4 DEF FinishPacedResponse, NoPacer, Carries
  <2>2. ~Pacing'
    BY <2>1 DEF Pacing
  <2>3. Unbegun'
    <3>1. CASE Active(fwd.turn)
      <4>1. turn'.id = turn.id /\ stopped' = stopped \cup {turn.id}
        BY <1>1, <1>4, <3>1 DEF FinishPacedResponse, TurnTypes
      <4> QED
        BY <4>1 DEF Unbegun
    <3>2. CASE ~Active(fwd.turn)
      <4>1. UNCHANGED <<turn, stopped>>
        BY <1>4, <3>2 DEF FinishPacedResponse
      <4>2. turn.id = pacer.turn /\ turn.id # 0 => turn.id \in stopped
        BY <1>1, <2>1, <3>2 DEF Active, Retired, TurnTypes
      <4> QED
        BY <1>0, <1>1, <1>2, <4>1, <4>2 DEF Unbegun, Alive
    <3> QED
      BY <3>1, <3>2
  <2> QED
    BY <1>0, <2>2, <2>3 DEF PacedInv, InHand, CarryingA, Begun, Ending
<1> QED
  BY <1>3, <1>4

\* What a step does to the actor's queue and to its standing.
LEMMA QueueStep ==
  ASSUME IInv, OrderInv, [Next]_vars
  PROVE  /\ \/ out' = out /\ (latest' = latest \/ latest' > latest)
            \/ /\ latest' = latest /\ out # <<>>
               /\ out' = Tail(out) \/ out' = SubSeq(out, 1, Len(out) - 1)
            \/ /\ latest' = latest /\ phase # "idle" /\ closed = FALSE
               /\ \E item \in Items : out' = Append(out, [epoch |-> epoch, item |-> item])
         /\ closed = TRUE => closed' = TRUE
         /\ \/ phase' = phase /\ epoch' = epoch
            \/ phase' = "idle"
            \/ phase # "idle" /\ closed = FALSE /\ epoch' = epoch
            \/ epoch' > latest
<1>0. closed \in BOOLEAN
  BY OrderTypes
<1>1. CASE \E m \in Messages : TakeMessage(m)
  <2> PICK m \in Messages : TakeMessage(m)
    BY <1>1
  <2>1. CASE TurnStart(m)
    BY <2>1 DEF TurnStart, Actor!Start, Actor!CanStart
  <2>2. CASE Receive(m) \/ TurnStartClosed(m) \/ TurnCancel(m) \/ Unsupported(m) \/ TurnCongestion(m)
    BY <2>2 DEF Receive, TurnStartClosed, TurnCancel, Unsupported, TurnCongestion, actorVars
  <2> QED
    BY <2>1, <2>2 DEF TakeMessage
<1>2. CASE CommitActor
  BY <1>0, <1>2 DEF CommitActor, Actor!Commit, Actor!CanCommit, Actor!CanAppend, actorVars
<1>3. CASE CancelActor
  BY <1>3 DEF CancelActor, Actor!Cancel, Actor!Withdrawn, actorVars
<1>4. CASE TurnCommit \/ FlushFinalInput \/ HandlePCM \/ AppendInput \/ BelongsToActiveTurn
             \/ RetireActiveTurn
  BY <1>4 DEF TurnCommit, FlushFinalInput, HandlePCM, AppendInput, BelongsToActiveTurn,
              RetireActiveTurn, Actor!Append1, actorVars
<1>5. CASE TakeEvent
  BY <1>5 DEF TakeEvent, LoopVars
<1>6. CASE Top \/ TimerFires \/ StreamClosed \/ Push \/ Drop \/ FinishPacedResponse
  BY <1>6 DEF Top, TimerFires, StreamClosed, Push, Drop, FinishPacedResponse, LoopVars
<1>7. CASE \E item \in Items : ProviderAnswers(item)
  <2> PICK item \in Items : ProviderAnswers(item)
    BY <1>7
  <2>1. /\ phase = "answering" /\ closed = FALSE /\ UNCHANGED <<latest, epoch, closed>>
        /\ out' = Append(out, [epoch |-> epoch, item |-> item])
    BY <1>0 DEF ProviderAnswers, Actor!Answer
  <2> QED
    BY <2>1
<1>8. CASE ActorCloses
  <2>1. /\ closed = FALSE /\ UNCHANGED <<phase, latest, epoch>>
        /\ \/ out' = out
           \/ out # <<>> /\ out' = SubSeq(out, 1, Len(out) - 1)
           \/ phase # "idle" /\ out' = Append(out, [epoch |-> epoch, item |-> [kind |-> "error", n |-> 0]])
    <3>1. closed = FALSE /\ UNCHANGED <<phase, latest, epoch>>
      BY <1>0, <1>8 DEF ActorCloses, Actor!Close
    <3>2. \/ out' = out
          \/ out # <<>> /\ out' = SubSeq(out, 1, Len(out) - 1)
          \/ phase # "idle" /\ out' = Append(out, [epoch |-> epoch, item |-> [kind |-> "error", n |-> 0]])
      BY <1>8, Zenon DEF ActorCloses, Actor!Close
    <3> QED
      BY <3>1, <3>2
  <2>2. [kind |-> "error", n |-> 0] \in Items
    BY DEF Items
  <2> QED
    BY <2>1, <2>2
<1>9. CASE PeerGone \/ Due \/ UNCHANGED vars
  BY <1>9 DEF PeerGone, Due, actorVars, vars
<1> QED
  BY <1>1, <1>2, <1>3, <1>4, <1>5, <1>6, <1>7, <1>8, <1>9 DEF Next, ReceiveLoop, ForwardEvents

\* Of a turn that the actor is through with nothing more is said.
LEMMA SaidStays ==
  ASSUME IInv, OrderInv, [Next]_vars, NEW t \in Turns, Over \/ epoch # t
  PROVE  said'[t] = said[t] /\ (t <= latest => (Over \/ epoch # t)')
<1>1. said'[t] = said[t]
  <2>1. CASE \E item \in Items : ProviderAnswers(item)
    <3> PICK item \in Items : ProviderAnswers(item)
      BY <2>1
    <3>1. /\ ~Over
          /\ said' = [said EXCEPT ![epoch] = [started |-> @.started \/ item.kind = "started",
                                              text |-> @.text \/ item.kind = "text",
                                              audio |-> @.audio + item.n]]
      BY OrderTypes DEF ProviderAnswers, Actor!Answer, Over
    <3>2. said \in [Turns -> [started : BOOLEAN, text : BOOLEAN, audio : 0..MaxAudio]]
      BY DEF IInv, HistoryInv, SaidTypes
    <3> QED
      BY <3>1, <3>2
  <2>2. CASE ~\E item \in Items : ProviderAnswers(item)
    <3>1. UNCHANGED said
      BY <2>2 DEF Next, TakeMessage, Receive, TurnStart, TurnStartClosed, TurnCancel, Unsupported,
        TurnCongestion, ReceiveLoop, TurnCommit, FlushFinalInput, CommitActor, HandlePCM,
        AppendInput, BelongsToActiveTurn, RetireActiveTurn, CancelActor, ForwarderVars, history,
        ForwardEvents, Top, TimerFires, TakeEvent, StreamClosed, Push, Drop, FinishPacedResponse,
        PeerGone, Due, ActorCloses, vars, LoopVars
    <3> QED
      BY <3>1
  <2> QED
    BY <2>1, <2>2
<1>2. t \in Nat /\ latest \in Nat /\ closed \in BOOLEAN /\ epoch \in Nat
  BY OrderTypes, Sizes DEF Turns
<1>3. IInv'
  BY NextIInv
<1>4. epoch' \in Nat
  BY <1>3, OrderTypes, Sizes DEF IInv, ActorInv, ActorTypes
<1>5. t <= latest => (Over \/ epoch # t)'
  <2>1. /\ closed = TRUE => closed' = TRUE
        /\ \/ phase' = phase /\ epoch' = epoch
           \/ phase' = "idle"
           \/ phase # "idle" /\ closed = FALSE /\ epoch' = epoch
           \/ epoch' > latest
    BY QueueStep, Zenon
  <2> QED
    BY <1>2, <1>4, <2>1 DEF Over
<1> QED
  BY <1>1, <1>5

\* The events of the next queue are events of this one, in their order, or it
\* has one more, of the turn the actor is about.
LEMMA QueueOrder ==
  ASSUME IInv, OrderInv, [Next]_vars
  PROVE  \/ \E d \in Nat : \A i \in DOMAIN out' : i + d \in DOMAIN out /\ out'[i] = out[i + d]
         \/ /\ latest' = latest /\ phase # "idle" /\ closed = FALSE
            /\ DOMAIN out' = 1..(Len(out) + 1) /\ out'[Len(out) + 1].epoch = latest
            /\ \A i \in DOMAIN out : out'[i] = out[i]
<1>1. out \in Seq(OutItem) /\ DOMAIN out = 1..Len(out) /\ Len(out) \in Nat
  BY OrderTypes
<1>2. \/ out' = out
      \/ out # <<>> /\ (out' = Tail(out) \/ out' = SubSeq(out, 1, Len(out) - 1))
      \/ /\ latest' = latest /\ phase # "idle" /\ closed = FALSE
         /\ \E item \in Items : out' = Append(out, [epoch |-> epoch, item |-> item])
  BY QueueStep, Zenon
<1>3. CASE out' = out
  <2>1. \A i \in DOMAIN out' : i + 0 \in DOMAIN out /\ out'[i] = out[i + 0]
    BY <1>1, <1>3
  <2> QED
    BY <2>1
<1>4. CASE out # <<>> /\ out' = Tail(out)
  <2>1. \A i \in DOMAIN out' : i + 1 \in DOMAIN out /\ out'[i] = out[i + 1]
    BY <1>1, <1>4, TailOf
  <2> QED
    BY <2>1
<1>5. CASE out # <<>> /\ out' = SubSeq(out, 1, Len(out) - 1)
  <2>1. \A i \in DOMAIN out' : i \in DOMAIN out /\ out'[i] = out[i]
    BY <1>1, <1>5, Shortened
  <2>2. \A i \in DOMAIN out' : i + 0 \in DOMAIN out /\ out'[i] = out[i + 0]
    BY <1>1, <2>1
  <2> QED
    BY <2>2
<1>6. CASE /\ latest' = latest /\ phase # "idle" /\ closed = FALSE
           /\ \E item \in Items : out' = Append(out, [epoch |-> epoch, item |-> item])
  <2> PICK item \in Items : out' = Append(out, [epoch |-> epoch, item |-> item])
    BY <1>6
  <2> DEFINE event == [epoch |-> epoch, item |-> item]
  <2>1. epoch = latest /\ event \in OutItem /\ event.epoch = epoch
    BY <1>6, OrderTypes DEF OrderInv, Numbers, OutItem
  <2> HIDE DEF event
  <2>2. out' = Append(out, event)
    BY DEF event
  <2>3. /\ Append(out, event) \in Seq(OutItem) /\ Len(Append(out, event)) = Len(out) + 1
        /\ \A i \in 1..Len(out) : Append(out, event)[i] = out[i]
        /\ Append(out, event)[Len(out) + 1] = event
    BY <1>1, <2>1, AppendProperties
  <2>4. DOMAIN Append(out, event) = 1..(Len(out) + 1)
    BY <2>3
  <2> QED
    BY <1>1, <1>6, <2>1, <2>2, <2>3, <2>4
<1> QED
  BY <1>2, <1>3, <1>4, <1>5, <1>6

LEMMA QueuedStep ==
  ASSUME IInv, OrderInv, AccountInv, [Next]_vars
  PROVE  Queued'
<1>1. DOMAIN out = 1..Len(out) /\ Len(out) \in Nat /\ latest \in Nat /\ turn.id = latest
      /\ \A i \in DOMAIN out : out[i].epoch \in Nat /\ out[i].epoch <= latest
  BY OrderTypes DEF OrderInv, Numbers
<1>2. Queued
  BY DEF AccountInv
<1>3. CASE \E d \in Nat : \A i \in DOMAIN out' : i + d \in DOMAIN out /\ out'[i] = out[i + d]
  <2> PICK d \in Nat : \A i \in DOMAIN out' : i + d \in DOMAIN out /\ out'[i] = out[i + d]
    BY <1>3
  <2> SUFFICES ASSUME NEW i \in DOMAIN out', NEW j \in DOMAIN out', i < j, out'[i].epoch = latest'
               PROVE  out'[j].epoch = latest' /\ out'[i].item.kind \notin {"done", "error"}
    BY DEF Queued
  <2>1. i + d \in DOMAIN out /\ j + d \in DOMAIN out /\ out'[i] = out[i + d] /\ out'[j] = out[j + d]
    OBVIOUS
  <2>2. i \in Nat /\ j \in Nat
    <3>1. IInv'
      BY NextIInv
    <3>2. DOMAIN out' = 1..Len(out') /\ Len(out') \in Nat
      BY <3>1 DEF IInv, ActorInv, ActorTypes
    <3> QED
      BY <3>2
  <2>3. i + d < j + d
    BY <2>2
  <2>4. latest' = latest
    <3>1. latest' = latest \/ latest' > latest
      BY QueueStep, Zenon
    <3> QED
      BY <1>1, <2>1, <3>1
  <2> QED
    BY <1>2, <2>1, <2>3, <2>4 DEF Queued
<1>4. CASE /\ latest' = latest /\ phase # "idle" /\ closed = FALSE
           /\ DOMAIN out' = 1..(Len(out) + 1) /\ out'[Len(out) + 1].epoch = latest
           /\ \A i \in DOMAIN out : out'[i] = out[i]
  <2> SUFFICES ASSUME NEW i \in DOMAIN out', NEW j \in DOMAIN out', i < j, out'[i].epoch = latest
               PROVE  out'[j].epoch = latest /\ out'[i].item.kind \notin {"done", "error"}
    BY <1>4 DEF Queued
  <2>1. i \in DOMAIN out /\ out'[i] = out[i]
    BY <1>1, <1>4
  <2>2. out[i].item.kind \notin {"done", "error"}
    BY <1>1, <1>4, <2>1 DEF OrderInv, Ends, Over
  <2>3. out'[j].epoch = latest
    <3>1. CASE j = Len(out) + 1
      BY <1>4, <3>1
    <3>2. CASE j # Len(out) + 1
      <4>1. j \in DOMAIN out /\ out'[j] = out[j]
        BY <1>1, <1>4, <3>2
      <4> QED
        BY <1>2, <2>1, <4>1 DEF Queued
    <3> QED
      BY <3>1, <3>2
  <2> QED
    BY <2>1, <2>2, <2>3
<1> QED
  BY <1>3, <1>4, QueueOrder

\* The pacer learns of an end by taking the last event.
LEMMA PacerEnds ==
  ASSUME IInv, OrderInv, WireInv, AccountInv, [Next]_vars, pacer'.providerDone = TRUE
  PROVE  \/ pacer.providerDone = TRUE /\ pacer'.turn = pacer.turn
         \/ turn' = turn /\ out' = <<>>
<1>0. PacerTypes /\ TurnTypes
  BY OrderTypes
<1>1. CASE TakeEvent
  <2>0. UNCHANGED pacer => pacer.providerDone = TRUE /\ pacer'.turn = pacer.turn
    OBVIOUS
  <2>1. CASE ~Active(Head(out).epoch)
    BY <1>1, <2>0, <2>1 DEF TakeEvent
  <2>2. CASE Head(out).item.kind = "started" /\ Started
    BY <2>0, <2>2, EventEffects DEF BegunFor, NoPacer
  <2>3. CASE TextDelta
    BY <2>0, <2>3, EventEffects
  <2>4. CASE Head(out).item.kind = "audio" /\ AudioDelta(Head(out).item.n)
    <3>1. \/ UNCHANGED pacer
          \/ pacer' = [pacer EXCEPT !.pending = pacer.pending + Head(out).item.n]
      BY <2>4, EventEffects
    <3> QED
      BY <1>0, <2>0, <3>1 DEF PacerTypes, Pacers
  <2>5. CASE Active(Head(out).epoch) /\ Head(out).item.kind = "done" /\ Done
    <3>1. CASE UNCHANGED pacer
      BY <2>0, <3>1
    <3>2. CASE ~UNCHANGED pacer
      <4>1. UNCHANGED turn
        BY <2>5, <3>2, EventEffects
      <4>2. /\ out # <<>> /\ out' = Tail(out) /\ Len(out) \in Nat /\ DOMAIN out = 1..Len(out)
            /\ out \in Seq(OutItem)
        BY <1>1, OrderTypes DEF TakeEvent
      <4>3. Head(out).epoch = turn.id /\ turn.id = latest
        BY <2>5, <4>2, Current DEF OrderInv, Numbers
      <4>4. 1 \in DOMAIN out /\ out[1] = Head(out)
        BY <4>2, TailOf
      <4>5. \A j \in DOMAIN out : ~(1 < j)
        BY <2>5, <4>3, <4>4 DEF AccountInv, Queued
      <4>6. Len(out) = 1
        BY <4>2, <4>4, <4>5
      <4>7. Tail(out) \in Seq(OutItem) /\ Len(Tail(out)) = Len(out) - 1
        BY <4>2, HeadTailProperties
      <4>8. Tail(out) = <<>>
        <5>1. Len(Tail(out)) = 0
          BY <4>6, <4>7
        <5> QED
          BY <4>7, <5>1, EmptySeq, Zenon
      <4> QED
        BY <4>1, <4>2, <4>8
    <3> QED
      BY <3>1, <3>2
  <2>6. CASE ProviderError
    BY <2>6 DEF ProviderError, NoPacer
  <2>7. Head(out).item.kind \in {"started", "text", "audio", "done", "error"}
    BY <1>1, TakenEvent DEF TakeEvent, Items, IInv
  <2> QED
    BY <1>1, <2>1, <2>2, <2>3, <2>4, <2>5, <2>6, <2>7 DEF TakeEvent
<1>2. CASE Top
  <2>1. pacer' = Padded
    BY <1>2 DEF Top
  <2>2. Fresh.providerDone = TRUE /\ Padded.turn = Fresh.turn
    BY <1>0, <2>1 DEF Padded, Fresh, NoPacer, PacerTypes, Pacers
  <2> QED
    BY <2>1, <2>2 DEF Fresh, NoPacer
<1>3. CASE Push
  <2> DEFINE rest == [pacer EXCEPT !.pending = @ - fwd.packet.n, !.wireFrames = @ + 1, !.due = FALSE]
  <2>1. pacer' = pacer \/ pacer' = NoPacer \/ pacer' = rest
    BY <1>3 DEF Push, AfterPush
  <2>2. rest.turn = pacer.turn /\ rest.providerDone = pacer.providerDone
    BY <1>0 DEF PacerTypes, Pacers
  <2> HIDE DEF rest
  <2> QED
    BY <2>1, <2>2 DEF NoPacer
<1>4. CASE Drop \/ FinishPacedResponse
  BY <1>4 DEF Drop, FinishPacedResponse, NoPacer
<1>5. CASE Due
  BY <1>0, <1>5 DEF Due, PacerTypes, Pacers
<1>6. CASE UNCHANGED pacer
  BY <1>6
<1>7. TimerFires \/ StreamClosed \/ PeerGone \/ ActorCloses \/ ReceiveLoop
        \/ (\E m \in Messages : TakeMessage(m)) \/ (\E item \in Items : ProviderAnswers(item))
        \/ UNCHANGED vars
      => UNCHANGED pacer
  BY DEF TakeMessage, Receive, TurnStart, TurnStartClosed, TurnCancel, Unsupported,
    TurnCongestion, ReceiveLoop, TurnCommit, FlushFinalInput, CommitActor, HandlePCM,
    AppendInput, BelongsToActiveTurn, RetireActiveTurn, CancelActor, ForwarderVars,
    TimerFires, StreamClosed, PeerGone, ProviderAnswers, ActorCloses, vars
<1> QED
  BY <1>1, <1>2, <1>3, <1>4, <1>5, <1>6, <1>7 DEF Next, ForwardEvents

LEMMA DrainedStep ==
  ASSUME IInv, OrderInv, WireInv, AccountInv, [Next]_vars
  PROVE  Drained'
<1> SUFFICES ASSUME pacer'.providerDone = TRUE, pacer'.turn = turn'.id,
                    NEW i \in DOMAIN out', out'[i].epoch = turn'.id
             PROVE  FALSE
  BY DEF Drained
<1>1. pacer.providerDone = TRUE /\ pacer'.turn = pacer.turn
  <2>1. out' # <<>>
    OBVIOUS
  <2> QED
    BY <2>1, PacerEnds, Zenon
<1>2. turn.id = latest /\ pacer.turn <= latest /\ pacer.turn \in Nat /\ latest \in Nat
  BY OrderTypes DEF OrderInv, Numbers
<1>3. turn'.id = latest'
  BY NextOrder DEF OrderInv, Numbers
<1>4. latest' = latest \/ latest' > latest
  BY QueueStep, Zenon
<1>5. pacer.turn = turn.id /\ turn'.id = turn.id
  <2>1. latest' = pacer.turn /\ latest' <= latest
    BY <1>1, <1>2, <1>3
  <2>2. latest' = latest
    BY <1>2, <1>4, <2>1
  <2> QED
    BY <1>1, <1>2, <1>3, <2>2
<1>6. Over /\ \A j \in DOMAIN out : out[j].epoch # turn.id
  BY <1>1, <1>5 DEF OrderInv, Ends, AccountInv, Drained
<1>7. CASE \E d \in Nat : \A j \in DOMAIN out' : j + d \in DOMAIN out /\ out'[j] = out[j + d]
  BY <1>5, <1>6, <1>7
<1>8. CASE phase # "idle" /\ closed = FALSE
  BY <1>6, <1>8 DEF Over
<1> QED
  BY <1>7, <1>8, QueueOrder

LEMMA SaidStep ==
  ASSUME IInv, OrderInv, AccountInv, [Next]_vars
  PROVE  SaidInv'
<1>1. ASSUME NEW t \in Turns PROVE UnitsOf(heard'[t]) \in Nat
  <2>1. UnitsOf(heard[t]) \in Nat /\ heard[t] \in Seq(Packet) /\ heard \in [Turns -> Seq(Packet)]
    BY DEF AccountInv, SaidInv, IInv, HistoryInv, HeardTypes
  <2>2. CASE heard'[t] = heard[t]
    BY <2>1, <2>2
  <2>3. CASE Push /\ heard'[t] # heard[t]
    <3>1. heard'[t] = Append(heard[t], fwd.packet)
      BY <2>1, <2>3 DEF Push
    <3>2. fwd.packet \in Packet
      BY OrderTypes DEF FwdTypes
    <3>3. fwd.packet.n \in Nat
      <4>1. CASE fwd.packet.type = "pcm"
        BY <3>2, <4>1, FrameOnWire
      <4>2. fwd.packet.type # "pcm" => fwd.packet.n = 0
        BY <3>2 DEF Packet
      <4> QED
        BY <4>1, <4>2
    <3> QED
      BY <2>1, <3>1, <3>2, <3>3, UnitsGrow
  <2> QED
    BY <2>2, <2>3, HeardByPush
<1>2. ASSUME NEW t \in Turns, t > latest' PROVE said'[t].audio = 0
  <2>1. t \in Nat /\ latest \in Nat /\ (latest' = latest \/ latest' > latest)
    <3>1. latest' = latest \/ latest' > latest
      BY QueueStep, Zenon
    <3> QED
      BY <3>1, OrderTypes DEF Turns
  <2>2. latest' \in Nat
    <3>1. IInv'
      BY NextIInv
    <3> QED
      BY <3>1, Sizes DEF IInv, ActorInv, ActorTypes
  <2>3. t > latest
    BY <1>2, <2>1, <2>2
  <2>4. Over \/ epoch # t
    BY <2>1, <2>3 DEF OrderInv, Numbers, Over
  <2>5. said'[t] = said[t]
    BY <2>4, SaidStays
  <2> QED
    BY <2>3, <2>5 DEF AccountInv, SaidInv
<1> QED
  BY <1>1, <1>2 DEF SaidInv

\* The end of an answer is begun to be sent by Top, or behind its last frame.
LEMMA DoneStep ==
  ASSUME IInv, OrderInv, LateInv, WireInv, AccountInv, [Next]_vars
  PROVE  DoneSent'
<1>1. CASE Top \/ Push
  BY <1>1, TopAccount, PushAccount
<1>2. CASE ~(Top \/ Push)
  <2> SUFFICES ASSUME CarryingA("response.done")' PROVE Covers(fwd.turn)'
    BY DEF DoneSent
  <2>1. UNCHANGED heard
    BY <1>2, HeardByPush
  <2>2. UNCHANGED fwd
    <3>1. UNCHANGED fwd \/ TakeEvent
      BY <1>2, NewPacket DEF CarryingA
    <3>2. ASSUME TakeEvent, fwd' # fwd PROVE FALSE
      <4>1. \/ fwd' = At("top")
            \/ \E type \in {"response.start", "response.text_delta", "response.audio_start",
                            "error"} : Sending(Control(type), turn.id)
        <5>1. CASE ~Active(Head(out).epoch)
          BY <3>2, <5>1 DEF TakeEvent
        <5>2. CASE Started \/ TextDelta \/ Done \/ AudioDelta(Head(out).item.n)
          BY <3>2, <5>2, EventEffects
        <5>3. CASE ProviderError
          BY <5>3 DEF ProviderError
        <5>4. Head(out).item.kind \in {"started", "text", "audio", "done", "error"}
          BY <3>2, TakenEvent DEF TakeEvent, Items, IInv
        <5> QED
          BY <3>2, <5>1, <5>2, <5>3, <5>4 DEF TakeEvent
      <4> QED
        BY <4>1 DEF CarryingA, Carrying, At, Sending, Control
    <3> QED
      BY <3>1, <3>2
  <2>3. CarryingA("response.done")
    BY <2>2 DEF CarryingA, Carrying
  <2>4. fwd.turn = pacer.turn /\ fwd.turn # 0 /\ pacer.providerDone = TRUE
    BY <2>3 DEF OrderInv, Carries, CarryingA
  <2>5. fwd.turn \in Turns
    BY <2>4, OrderTypes, Sizes DEF FwdTypes
  <2>6. said'[fwd.turn] = said[fwd.turn]
    BY <2>4, <2>5, PacerOver, SaidStays
  <2> QED
    BY <2>1, <2>2, <2>3, <2>6 DEF AccountInv, DoneSent, Covers
<1> QED
  BY <1>1, <1>2

LEMMA AllHeardStep ==
  ASSUME IInv, OrderInv, LateInv, WireInv, AccountInv, [Next]_vars
  PROVE  AllHeard'
<1> SUFFICES ASSUME NEW t \in Turns, Has(heard'[t], "response.done")
             PROVE  Covers(t)' /\ (Over \/ epoch # t)'
  BY DEF AllHeard
<1>0. /\ heard \in [Turns -> Seq(Packet)] /\ FwdTypes /\ t \in Nat /\ latest \in Nat
      /\ heard[t] \in Seq(Packet) /\ UnitsOf(heard[t]) \in Nat
  <2>1. heard \in [Turns -> Seq(Packet)] /\ FwdTypes /\ latest \in Nat
    BY OrderTypes DEF IInv, HistoryInv, HeardTypes
  <2>2. t \in Nat /\ heard[t] \in Seq(Packet) /\ UnitsOf(heard[t]) \in Nat
    BY <2>1 DEF Turns, AccountInv, SaidInv
  <2> QED
    BY <2>1, <2>2
<1>1. /\ Over \/ epoch # t
      /\ t <= latest
      /\ UnitsOf(heard'[t]) = UnitsOf(heard[t]) /\ Covers(t)
  <2>1. CASE heard'[t] = heard[t]
    <3>1. t <= latest
      <4>1. heard[t] # <<>>
        BY <2>1, EmptyWire
      <4> QED
        BY <1>0, <4>1 DEF LateInv, Untouched
    <3> QED
      BY <2>1, <3>1 DEF AccountInv, AllHeard
  <2>2. CASE Push /\ heard'[t] # heard[t]
    <3>1. t = fwd.turn /\ heard'[t] = Append(heard[t], fwd.packet) /\ fwd.at = "push"
      BY <1>0, <2>2 DEF Push
    <3>2. fwd.packet \in Packet
      BY <1>0 DEF FwdTypes
    <3>3. t <= latest
      BY <3>1 DEF OrderInv, Numbers
    <3>4. Has(heard[t], "response.done") \/ fwd.packet.type = "response.done"
      <4>1. \A type : Has(Append(heard[t], fwd.packet), type)
                       <=> Has(heard[t], type) \/ fwd.packet.type = type
        BY <1>0, <3>2, Added
      <4> QED
        BY <3>1, <4>1, Zenon
    <3>5. Carrying => ~Has(heard[t], "response.done")
      BY <3>1 DEF WireInv, InFlight, Fits
    <3>6. fwd.packet.type # "pcm"
      BY <3>1, <3>4, <3>5 DEF Carrying
    <3>7. fwd.packet.n = 0
      BY <3>2, <3>6 DEF Packet
    <3>8. UnitsOf(heard'[t]) = UnitsOf(heard[t])
      BY <1>0, <3>1, <3>2, <3>7, UnitsGrow
    <3>9. CASE fwd.packet.type = "response.done"
      <4>1. Covers(t)
        BY <3>1, <3>9 DEF AccountInv, DoneSent, CarryingA, Carrying
      <4>2. t = pacer.turn /\ pacer.providerDone = TRUE
        BY <3>1, <3>9 DEF OrderInv, Carries, Carrying
      <4> QED
        BY <3>3, <3>8, <4>1, <4>2, PacerOver
    <3>10. CASE Has(heard[t], "response.done")
      BY <3>3, <3>8, <3>10 DEF AccountInv, AllHeard
    <3> QED
      BY <3>4, <3>9, <3>10
  <2> QED
    BY <2>1, <2>2, HeardByPush
<1>2. said'[t] = said[t] /\ (Over \/ epoch # t)'
  BY <1>1, SaidStays
<1> QED
  BY <1>1, <1>2 DEF Covers

\* Every step of the model, as it bears on the pacer's account.
LEMMA AccountStep ==
  ASSUME IInv, OrderInv, LateInv, WireInv, AccountInv, [Next]_vars
  PROVE  AccountInv'
<1>0. stopped \subseteq stopped' /\ (Alive' => Alive)
  BY Forward, AliveBefore
<1>1. CASE (\E m \in Messages : TakeMessage(m)) \/ (ReceiveLoop /\ ~CancelActor)
  <2>1. UNCHANGED ForwarderVars
    BY <1>1 DEF TakeMessage, Receive, TurnStart, TurnStartClosed, TurnCancel, Unsupported,
      TurnCongestion, ReceiveLoop, TurnCommit, FlushFinalInput, CommitActor, HandlePCM,
      AppendInput, BelongsToActiveTurn, RetireActiveTurn
  <2>2. UNCHANGED <<out, closed>>
    BY <1>1 DEF TakeMessage, Receive, TurnStart, TurnStartClosed, TurnCancel, Unsupported,
      TurnCongestion, ReceiveLoop, TurnCommit, FlushFinalInput, CommitActor, HandlePCM,
      AppendInput, BelongsToActiveTurn, RetireActiveTurn, actorVars, Actor!Start, Actor!Append1,
      Actor!Commit
  <2>3. UNCHANGED <<heard, said, pacer, fwd>>
    BY <2>1 DEF ForwarderVars, history
  <2>4. \/ UNCHANGED turn
        \/ Fence
        \/ \E m \in Messages : TurnStart(m)
        \/ /\ turn'.id = turn.id /\ turn'.outputSequence = turn.outputSequence
           /\ turn'.outputStarted = turn.outputStarted
           /\ turn'.active = turn.active \/ (loop.at = "flush" /\ turn'.active = TRUE)
    BY <1>1, LoopTurn, OrderTypes
  <2>5. PacedInv'
    BY <1>0, <2>2, <2>3, <2>4, AccountStill
  <2> QED
    BY <2>5, DoneStep, AllHeardStep, QueuedStep, DrainedStep, SaidStep DEF AccountInv
<1>2. CASE PeerGone \/ UNCHANGED vars
  <2>1. UNCHANGED <<turn, pacer, fwd, heard, said, out, closed>>
    BY <1>2 DEF PeerGone, vars, ForwarderVars, history, actorVars
  <2>2. PacedInv'
    BY <1>0, <2>1, AccountStill
  <2> QED
    BY <2>2, DoneStep, AllHeardStep, QueuedStep, DrainedStep, SaidStep DEF AccountInv
<1>3. CASE Due \/ TimerFires \/ StreamClosed
  <2>1. UNCHANGED <<turn, heard, said, out, closed>>
    BY <1>3 DEF Due, TimerFires, StreamClosed, history, LoopVars, actorVars
  <2>2. PacerTypes
    BY OrderTypes
  <2>3. /\ pacer'.turn = pacer.turn /\ pacer'.pending = pacer.pending
        /\ pacer'.providerDone = pacer.providerDone
    BY <1>3, <2>2 DEF Due, TimerFires, StreamClosed, PacerTypes, Pacers
  <2>4. fwd' = fwd \/ (fwd.at = "select" /\ fwd'.at = "top")
    BY <1>3 DEF Due, TimerFires, StreamClosed, At
  <2>5. PacedInv'
    BY <1>0, <2>1, <2>3, <2>4, AccountStill
  <2> QED
    BY <2>5, DoneStep, AllHeardStep, QueuedStep, DrainedStep, SaidStep DEF AccountInv
<1>4. CASE Top \/ TakeEvent \/ Push \/ Drop \/ FinishPacedResponse \/ CancelActor \/ ActorCloses
             \/ \E item \in Items : ProviderAnswers(item)
  <2>1. PacedInv'
    BY <1>4, TopAccount, TakeAccount, PushAccount, DropAccount, CancelAccount, CloseAccount,
       AnswerAccount
  <2> QED
    BY <2>1, DoneStep, AllHeardStep, QueuedStep, DrainedStep, SaidStep DEF AccountInv
<1> QED
  BY <1>1, <1>2, <1>3, <1>4 DEF Next, ForwardEvents

\* An answer whose response.done was queued is on the wire whole: a frame
\* leaves the pacer for the wire, an event the actor's queue for the pacer,
\* sendNextPacedFrame pads an end that has no samples left by one, and a turn
\* that loses an event, to a cancel or to the end of the session, gets no
\* response.done.
THEOREM AnswersComplete == Spec => []AudioComplete
<1>1. IInv /\ OrderInv /\ LateInv /\ WireInv /\ AccountInv /\ [Next]_vars => WireInv' /\ AccountInv'
  BY WireStep, AccountStep
<1>2. Init => WireInv /\ AccountInv
  BY InitWire, InitAccount
<1>3. AccountInv => AudioComplete
  <2> SUFFICES ASSUME AccountInv, NEW t \in Turns, "response.done" \in Types(t)
               PROVE  Units(t) - said[t].audio \in {0, 1}
    BY DEF AudioComplete
  <2>1. Has(heard[t], "response.done")
    BY DEF Types, Has
  <2>2. Units(t) = UnitsOf(heard[t])
    BY Zenon DEF Units, UnitsOf
  <2> QED
    BY <2>1, <2>2 DEF AccountInv, AllHeard, Covers
<1> QED
  BY <1>1, <1>2, <1>3, SpecLate, PTL DEF Spec
===============================================================================
