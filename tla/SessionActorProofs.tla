------------------------- MODULE SessionActorProofs -------------------------
(***************************************************************************)
(* Proofs about SessionActor for every number of callers and epochs and    *)
(* every channel capacity.                                                 *)
(*                                                                         *)
(* TypeInv and, for a provider whose events validate, IsoInv: what is in   *)
(* the provider's channel is of the active turn. EndInv, for every         *)
(* provider: an epoch that has ended is behind the actor.                  *)
(*                                                                         *)
(* The refinement of TurnSession maps the channel of events, and the one   *)
(* event the actor holds, to the abstract stream of tagged items (Stream). *)
(* Most steps leave that state alone (Unseen); ApplyRefines is the step of *)
(* a command, and RefinementStep takes the others one by one.              *)
(***************************************************************************)
EXTENDS SessionActor, SequenceTheorems, TLAPS

\* Marking the commands of a caller that gave up keeps a command queue a
\* command queue of the same length (GiveUp).
LEMMA AbandonType ==
  ASSUME NEW q \in Seq(Command), NEW c
  PROVE  Abandon(q, c) \in Seq(Command) /\ Len(Abandon(q, c)) = Len(q)
<1> DEFINE a == Abandon(q, c)
<1>1. DOMAIN q = 1..Len(q) /\ Len(q) \in Nat
  OBVIOUS
<1>2. \A i \in 1..Len(q) : a[i] \in Command
  <2> TAKE i \in 1..Len(q)
  <2>1. q[i] \in Command
    OBVIOUS
  <2> QED
    BY <1>1, <2>1 DEF Abandon, Command
<1>3. a = [i \in 1..Len(q) |-> a[i]]
  BY <1>1 DEF Abandon
<1>4. a \in [1..Len(q) -> Command]
  BY <1>2, <1>3
<1>5. a \in Seq(Command)
  BY <1>1, <1>4, SeqDef
<1> QED
  BY <1>1, <1>3, <1>5

\* A channel's elements stay in their type when one is taken or appended.
LEMMA TailType ==
  ASSUME NEW S, NEW q \in Seq(S), q # <<>>
  PROVE  /\ Tail(q) \in Seq(S) /\ Len(Tail(q)) = Len(q) - 1
         /\ Head(q) \in S /\ Head(q) = q[1] /\ Len(q) \in Nat \ {0}
         /\ \A i \in DOMAIN Tail(q) : i + 1 \in DOMAIN q /\ Tail(q)[i] = q[i + 1]
  OBVIOUS

LEMMA AppendType ==
  ASSUME NEW S, NEW q \in Seq(S), NEW x \in S
  PROVE  /\ Append(q, x) \in Seq(S) /\ Len(Append(q, x)) = Len(q) + 1
         /\ Append(q, x)[Len(q) + 1] = x
         /\ \A i \in DOMAIN q : Append(q, x)[i] = q[i]
         /\ DOMAIN Append(q, x) = 1..(Len(q) + 1) /\ DOMAIN q = 1..Len(q)
  OBVIOUS

\* The actor has an epoch whenever it is in a turn; with it, TypeOK is
\* inductive: accept and reportClosedStream tag their events with that epoch.
ActiveEpoch == phase # "idle" => epoch # 0
TypeInv == TypeOK /\ ActiveEpoch

\* A send on a bounded channel that either happens or does not.
LEMMA MaybeAppendType ==
  ASSUME NEW S, NEW q \in Seq(S), NEW r, NEW x \in S, NEW cap \in Nat, Len(q) <= cap,
         r = q \/ (r = Append(q, x) /\ Len(q) < cap)
  PROVE  r \in Seq(S) /\ Len(r) <= cap
  OBVIOUS

\* Applying one command (Actor.apply) keeps the types of everything it
\* changes, whatever the provider answers.
LEMMA ApplyType ==
  ASSUME TypeInv, NEW cmd \in Command, Apply(cmd)
  PROVE  /\ phase' \in Phases /\ latest' \in 0..MaxEpoch /\ epoch' \in 0..MaxEpoch
         /\ responseID' \in 0..MaxEpoch /\ hasFrames' \in BOOLEAN
         /\ pending' \in Event \cup {NoEvent}
         /\ waiting' \in SUBSET Callers
         /\ job' \in 0..MaxEpoch
         /\ provider' \in Seq(RawEvent) /\ Len(provider') <= ProviderCap
         /\ providerClosed' \in BOOLEAN
         /\ closed' \in SUBSET Epochs /\ failed' \in SUBSET Epochs
         /\ ActiveEpoch'
<1> USE ActorAssumption DEF TypeInv, ActiveEpoch
<1>0. cmd.epoch \in Epochs /\ cmd.epoch \in 0..MaxEpoch /\ cmd.epoch # 0 /\ 0 \in 0..MaxEpoch
  BY DEF Command, Epochs
<1>1. waiting' \in SUBSET Callers
  BY DEF Apply, Reply, TypeOK
<1>R. CASE Rejected
  BY <1>1, <1>R DEF Rejected, TypeOK, actorState, providerVars, history
<1>2. CASE StartTurn(cmd.epoch)
  <2>1. CASE Rejected
    BY <1>R, <2>1
  <2>2. CASE ~Rejected
    <3>1. /\ phase' = "listening" /\ latest' = cmd.epoch /\ epoch' = cmd.epoch
          /\ responseID' = 0 /\ hasFrames' = FALSE
          /\ UNCHANGED <<pending, job, provider, providerClosed, closed, failed>>
      BY <1>2, <2>2 DEF StartTurn, providerVars, history
    <3> QED
      BY <1>0, <1>1, <3>1 DEF TypeOK, Phases
  <2> QED
    BY <2>1, <2>2
<1>3. CASE AppendPCM(cmd.epoch)
  BY <1>0, <1>1, <1>3, <1>R DEF AppendPCM, TypeOK, Phases, providerVars, history
<1>4. CASE Commit(cmd.epoch)
  BY <1>0, <1>1, <1>4, <1>R DEF Commit, CanCommit, TypeOK, Phases, history
<1>5. CASE Cancel(cmd.epoch)
  <2>1. CASE CancelActive(cmd.epoch)
    <3>1. provider' \in Seq(RawEvent) /\ Len(provider') <= ProviderCap
      BY <2>1 DEF CancelActive
    <3>2. closed' \in SUBSET Epochs /\ failed' \in SUBSET Epochs
      BY <1>0, <2>1 DEF CancelActive, TypeOK
    <3>3. pending' \in Event \cup {NoEvent}
      BY <2>1 DEF CancelActive, TypeOK
    <3>4. hasFrames' \in BOOLEAN /\ providerClosed' \in BOOLEAN
      BY <2>1 DEF CancelActive, TypeOK
    <3> QED
      BY <1>0, <1>1, <2>1, <3>1, <3>2, <3>3, <3>4 DEF CancelActive, TypeOK, Phases
  <2>2. CASE CancelFailed(cmd.epoch)
    BY <1>0, <1>1, <2>2 DEF CancelFailed, TypeOK, Phases, actorState
  <2> QED
    BY <1>5, <1>R, <2>1, <2>2 DEF Cancel
<1> QED
  BY <1>2, <1>3, <1>4, <1>5 DEF Apply, Command, Ops

\* The inductive step of type correctness.
LEMMA TypeStep == TypeInv /\ [Next]_vars => TypeInv'
<1> USE ActorAssumption DEF TypeInv, actorState, channels, providerVars, history
<1> SUFFICES ASSUME TypeInv, [Next]_vars PROVE TypeInv'
  OBVIOUS
<1>0. 0 \in 0..MaxEpoch
  OBVIOUS
<1>1. CASE LookUrgent
  BY <1>1 DEF LookUrgent, TypeOK, ActiveEpoch
<1>2. CASE TakeUrgent
  <2>1. Head(urgent) \in Command /\ urgent' \in Seq(Command) /\ Len(urgent') <= UrgentCap
    BY <1>2, TailType DEF TakeUrgent, TypeOK
  <2> QED
    BY <1>2, <2>1, ApplyType DEF TakeUrgent, TypeOK
<1>3. CASE TakeCommand
  <2>1. Head(commands) \in Command /\ commands' \in Seq(Command) /\ Len(commands') <= CommandCap
    BY <1>3, TailType DEF TakeCommand, TypeOK
  <2>2. CASE Apply(Head(commands))
    BY <1>3, <2>1, <2>2, ApplyType DEF TakeCommand, TypeOK
  <2>3. CASE Rejected /\ Reply(Head(commands))
    BY <1>3, <2>1, <2>3 DEF TakeCommand, Rejected, Reply, TypeOK, ActiveEpoch
  <2> QED
    BY <1>3, <2>2, <2>3 DEF TakeCommand
<1>4. CASE TakeProviderEvent
  <2>1. Head(provider) \in RawEvent /\ provider' \in Seq(RawEvent) /\ Len(provider') <= ProviderCap
    BY <1>4, TailType DEF TakeProviderEvent, TypeOK
  <2> DEFINE raw == Head(provider)
  <2>2. raw.id \in 0..MaxEpoch /\ raw.turn \in Epochs /\ raw.kind \in Kinds
    BY <2>1 DEF RawEvent
  <2>3. phase' \in Phases /\ responseID' \in 0..MaxEpoch /\ ActiveEpoch'
    BY <1>4, <2>2 DEF TakeProviderEvent, Accept, Accepting, LatchedID, Foreign, TypeOK, Phases,
                      ActiveEpoch
  <2>4. Accepting => epoch \in Epochs
    BY DEF Accepting, ActiveEpoch, TypeOK, Epochs
  <2>5. pending' \in Event \cup {NoEvent}
    BY <1>4, <2>2, <2>4 DEF TakeProviderEvent, Accept, Tagged, Event, Kinds, TypeOK
  <2> QED
    BY <1>4, <2>1, <2>3, <2>5 DEF TakeProviderEvent, TypeOK
<1>5. CASE Deliver
  <2>1. pending \in Event /\ pending.epoch \in Epochs
    BY <1>5 DEF Deliver, TypeOK, Event
  <2>2. events' \in Seq(Event) /\ Len(events') <= EventCap
    BY <1>5, <2>1, AppendType DEF Deliver, TypeOK
  <2>3. closed' \in SUBSET Epochs
    BY <1>5, <2>1 DEF Deliver, TypeOK
  <2> QED
    BY <1>5, <2>2, <2>3 DEF Deliver, TypeOK, ActiveEpoch
<1>6. CASE ContextDone
  <2>1. done' \in BOOLEAN /\ looked' \in BOOLEAN /\ providerClosed' \in BOOLEAN
    BY <1>6 DEF ContextDone, Shutdown
  <2> QED
    BY <1>0, <1>6, <2>1 DEF ContextDone, Shutdown, TypeOK, ActiveEpoch
<1>7. CASE StreamClosed
  <2>1. done' \in BOOLEAN /\ looked' \in BOOLEAN /\ providerClosed' \in BOOLEAN
    BY <1>7 DEF StreamClosed, Shutdown
  <2>2. /\ events' \in Seq(Event) /\ Len(events') <= EventCap
        /\ closed' \in SUBSET Epochs
    <3>1. CASE phase # "idle" /\ Len(events) < EventCap
      <4> DEFINE ev == [epoch |-> epoch, kind |-> "error", turn |-> epoch]
      <4>1. epoch \in Epochs
        BY <3>1 DEF ActiveEpoch, TypeOK, Epochs
      <4>2. ev \in Event
        BY <4>1 DEF Event, Kinds
      <4>3. events' = Append(events, ev) /\ closed' = closed \cup {epoch}
        BY <1>7, <3>1 DEF StreamClosed
      <4> QED
        BY <3>1, <4>1, <4>2, <4>3, AppendType DEF TypeOK
    <3>2. CASE ~(phase # "idle" /\ Len(events) < EventCap)
      BY <1>7, <3>2 DEF StreamClosed, TypeOK
    <3> QED
      BY <3>1, <3>2
  <2> QED
    BY <1>0, <1>7, <2>1, <2>2 DEF StreamClosed, Shutdown, TypeOK, ActiveEpoch
<1>8. ASSUME NEW c \in Callers, NEW op \in Ops, NEW e \in Epochs, Send(c, op, e)
      PROVE  TypeInv'
  <2> DEFINE cmd == [caller |-> c, op |-> op, epoch |-> e, live |-> TRUE]
  <2>1. cmd \in Command
    BY DEF Command
  <2>2. waiting' \in SUBSET Callers
    BY <1>8 DEF Send, TypeOK
  <2>3. PICK x \in Command :
          /\ urgent' = urgent \/ (urgent' = Append(urgent, x) /\ Len(urgent) < UrgentCap)
          /\ commands' = commands
             \/ (commands' = Append(commands, x) /\ Len(commands) < CommandCap)
    BY <1>8, <2>1 DEF Send
  <2>6. urgent' \in Seq(Command) /\ Len(urgent') <= UrgentCap
    BY <2>3, MaybeAppendType DEF TypeOK
  <2>7. commands' \in Seq(Command) /\ Len(commands') <= CommandCap
    BY <2>3, MaybeAppendType DEF TypeOK
  <2>5. UNCHANGED <<actorState, looked, events, stopped, done, providerVars, history>>
    BY <1>8 DEF Send
  <2> QED
    BY <2>2, <2>5, <2>6, <2>7 DEF TypeOK, ActiveEpoch
<1>9. ASSUME NEW c \in Callers, GiveUp(c)
      PROVE  TypeInv'
  BY <1>9, AbandonType DEF GiveUp, TypeOK, ActiveEpoch
<1>10. ASSUME NEW c \in Callers, SendClosed(c)
       PROVE  TypeInv'
  BY <1>10 DEF SendClosed, TypeOK, ActiveEpoch
<1>11. CASE Consume
  BY <1>11, TailType DEF Consume, TypeOK, ActiveEpoch
<1>12. CASE Stop
  BY <1>12 DEF Stop, TypeOK, ActiveEpoch
<1>13. ASSUME NEW kind \in Kinds, Emit(kind)
       PROVE  TypeInv'
  <2> DEFINE raw == [kind |-> kind, turn |-> job,
                     id |-> IF kind \in {"error", "invalid"} THEN 0 ELSE job]
  <2>1. raw \in RawEvent
    BY <1>13 DEF Emit, RawEvent, TypeOK, Epochs
  <2> QED
    BY <1>13, <2>1, AppendType DEF Emit, TypeOK, ActiveEpoch
<1>14. CASE ProviderFails
  BY <1>14 DEF ProviderFails, TypeOK, ActiveEpoch
<1>15. CASE UNCHANGED vars
  BY <1>15 DEF vars, TypeOK, ActiveEpoch
<1> QED
  BY <1>1, <1>2, <1>3, <1>4, <1>5, <1>6, <1>7, <1>8, <1>9, <1>10, <1>11, <1>12,
     <1>13, <1>14, <1>15 DEF Next, Run, Environment

LEMMA TypeInit == Init => TypeInv
<1> USE ActorAssumption
<1>1. Init => commands \in Seq(Command) /\ urgent \in Seq(Command)
              /\ events \in Seq(Event) /\ provider \in Seq(RawEvent)
  BY DEF Init
<1>2. Init => Len(commands) = 0 /\ Len(urgent) = 0 /\ Len(events) = 0 /\ Len(provider) = 0
  BY DEF Init
<1>3. Init => /\ hasFrames \in BOOLEAN /\ looked \in BOOLEAN /\ stopped \in BOOLEAN
              /\ done \in BOOLEAN /\ providerClosed \in BOOLEAN
  BY DEF Init
<1> QED
  BY <1>1, <1>2, <1>3 DEF Init, TypeInv, TypeOK, ActiveEpoch, Phases

\* Type correctness of the actor, its channels and the provider contract:
\* in particular no channel ever exceeds its capacity (session.go make(chan)).
THEOREM TypeCorrect == Spec => []TypeOK
<1>1. TypeInv => TypeOK
  BY DEF TypeInv
<1> QED
  BY <1>1, TypeInit, TypeStep, PTL DEF Spec

-----------------------------------------------------------------------------
(***************************************************************************)
(* Epoch isolation. Events carry no epoch while they are in the provider's *)
(* channel, so the tag that accept gives them is right only because of     *)
(* what is never in that channel: outside thinking and speaking nothing is *)
(* there and nothing runs, in them everything belongs to the current       *)
(* epoch, and a last event is the end of the channel and of the response.  *)
(***************************************************************************)
FenceInv ==
  /\ \A i \in DOMAIN provider :
        /\ provider[i].turn = epoch
        /\ provider[i].kind # "invalid"
        /\ provider[i].id \in {0, epoch}
        /\ provider[i].kind \in Terminal => i = Len(provider) /\ job = 0
  /\ ~Accepting => provider = <<>> /\ job = 0
  /\ job \in {0, epoch}
  /\ responseID \in {0, epoch}

IsoInv == TypeInv /\ FenceInv /\ EpochIsolation /\ AnswerToCome

\* Actor.apply keeps the fence: StartTurn and Commit find the channel empty,
\* Cancel empties it.
LEMMA ApplyIso ==
  ASSUME IsoInv, NEW cmd \in Command, Apply(cmd), UNCHANGED <<events, done>>
  PROVE  (FenceInv /\ EpochIsolation /\ AnswerToCome)'
<1> USE DEF IsoInv
<1>0. cmd.epoch \in Epochs /\ cmd.epoch # 0
  BY ActorAssumption DEF Command, Epochs
<1>R. CASE Rejected
  BY <1>R DEF Rejected, FenceInv, EpochIsolation, AnswerToCome, Accepting, actorState,
              providerVars, history
<1>2. CASE StartTurn(cmd.epoch)
  <2>1. CASE phase = "idle" /\ cmd.epoch > latest
    <3>1. provider = <<>> /\ job = 0 /\ provider' = <<>> /\ job' = 0 /\ responseID' = 0
      BY <1>2, <2>1 DEF StartTurn, FenceInv, Accepting, providerVars
    <3>2. ~Accepting'
      BY <1>2, <2>1 DEF StartTurn, Accepting
    <3>3. EpochIsolation'
      BY <1>2, <2>1 DEF StartTurn, EpochIsolation
    <3> QED
      BY <3>1, <3>2, <3>3 DEF FenceInv, AnswerToCome
  <2> QED
    BY <1>2, <1>R, <2>1 DEF StartTurn
<1>3. CASE AppendPCM(cmd.epoch)
  BY <1>3, <1>R DEF AppendPCM, FenceInv, EpochIsolation, AnswerToCome, Accepting,
                    providerVars, history
<1>4. CASE Commit(cmd.epoch)
  <2>1. CASE ~Rejected
    <3>1. /\ phase = "listening" /\ epoch = cmd.epoch /\ job' = epoch /\ phase' = "thinking"
          /\ UNCHANGED <<epoch, responseID, pending, provider>>
      BY <1>4, <2>1 DEF Commit, CanCommit
    <3>2. provider = <<>> /\ provider' = <<>>
      BY <3>1 DEF FenceInv, Accepting
    <3> QED
      BY <3>1, <3>2 DEF FenceInv, EpochIsolation, AnswerToCome, Accepting
  <2> QED
    BY <1>R, <2>1
<1>5. CASE Cancel(cmd.epoch)
  <2>1. CASE CancelActive(cmd.epoch)
    <3>1. /\ provider' = <<>> /\ job' = 0 /\ responseID' = 0 /\ ~Accepting'
          /\ pending' \in {pending, NoEvent}
      BY <2>1 DEF CancelActive, Accepting
    <3> QED
      BY <3>1 DEF FenceInv, EpochIsolation, AnswerToCome
  <2>2. CASE CancelFailed(cmd.epoch) /\ cmd.epoch = epoch
    BY <2>2 DEF CancelFailed, FenceInv, EpochIsolation, AnswerToCome, Accepting, actorState
  <2> QED
    BY <1>5, <1>R, <2>1, <2>2 DEF Cancel
<1> QED
  BY <1>2, <1>3, <1>4, <1>5 DEF Apply, Command, Ops

LEMMA IsoStep == ASSUME Malformed = FALSE, IsoInv, [Next]_vars PROVE IsoInv'
<1> USE DEF IsoInv
<1>T. TypeInv'
  BY TypeStep
<1> SUFFICES (FenceInv /\ EpochIsolation /\ AnswerToCome)'
  BY <1>T
<1> DEFINE Same == UNCHANGED <<actorState, events, done, providerVars, history>>
<1>S. CASE Same
  BY <1>S DEF FenceInv, EpochIsolation, AnswerToCome, Accepting, actorState, providerVars, history
<1>1. CASE LookUrgent
  BY <1>1, <1>S DEF LookUrgent, channels
<1>2. CASE TakeUrgent
  BY <1>2, TailType, ApplyIso DEF TakeUrgent, TypeInv, TypeOK
<1>3. CASE TakeCommand
  <2>1. Head(commands) \in Command
    BY <1>3, TailType DEF TakeCommand, TypeInv, TypeOK
  <2>2. CASE Apply(Head(commands))
    BY <1>3, <2>1, <2>2, ApplyIso DEF TakeCommand
  <2>3. CASE Rejected
    BY <1>3, <2>3, <1>S DEF TakeCommand, Rejected
  <2> QED
    BY <1>3, <2>2, <2>3 DEF TakeCommand
<1>4. CASE TakeProviderEvent
  <2> DEFINE raw == Head(provider)
  <2>0. /\ provider \in Seq(RawEvent) /\ provider # <<>> /\ provider' = Tail(provider)
        /\ Accept(raw) /\ pending = NoEvent
        /\ UNCHANGED <<epoch, events, done, job, providerClosed, closed, failed>>
    BY <1>4 DEF TakeProviderEvent, TypeInv, TypeOK, channels, history
  <2>1. /\ raw = provider[1] /\ 1 \in DOMAIN provider
        /\ Len(provider) \in Nat \ {0}
        /\ Len(provider') = Len(provider) - 1 /\ provider' \in Seq(RawEvent)
        /\ \A i \in DOMAIN provider' : i + 1 \in DOMAIN provider /\ provider'[i] = provider[i + 1]
    BY <2>0, TailType
  <2>2. Accepting /\ raw.turn = epoch /\ raw.kind # "invalid" /\ raw.id \in {0, epoch}
    BY <2>0, <2>1 DEF FenceInv
  <2>3. ~Foreign(raw) /\ LatchedID(raw) \in {0, epoch}
    BY <2>2 DEF Foreign, LatchedID, FenceInv
  <2>4. /\ pending' = Tagged(raw.kind, raw)
        /\ raw.kind \in Terminal => phase' = "idle" /\ responseID' = 0
        /\ raw.kind \notin Terminal => phase' \in {phase, "speaking"} /\ responseID' = LatchedID(raw)
    BY <2>0, <2>2, <2>3 DEF Accept, Terminal
  <2>5. EpochIsolation'
    BY <2>0, <2>2, <2>4 DEF EpochIsolation, Tagged, NoEvent
  <2>6. \A i \in DOMAIN provider' :
           /\ provider'[i].turn = epoch' /\ provider'[i].kind # "invalid"
           /\ provider'[i].id \in {0, epoch'}
           /\ provider'[i].kind \in Terminal => i = Len(provider') /\ job' = 0
    <3> TAKE i \in DOMAIN provider'
    <3>1. /\ i + 1 \in DOMAIN provider /\ provider'[i] = provider[i + 1]
          /\ i \in Nat
      BY <2>1
    <3>2. i + 1 = Len(provider) => i = Len(provider')
      BY <2>1, <3>1
    <3> QED
      BY <2>0, <3>1, <3>2 DEF FenceInv
  <2>7. CASE raw.kind \in Terminal
    <3>1. Len(provider) = 1 /\ job = 0
      BY <2>1, <2>7 DEF FenceInv
    <3>2. provider' = <<>>
      BY <2>1, <3>1
    <3> QED
      BY <2>0, <2>4, <2>5, <2>6, <2>7, <3>1, <3>2 DEF FenceInv, AnswerToCome, Accepting
  <2>8. CASE raw.kind \notin Terminal
    <3>1. Accepting'
      BY <2>2, <2>4, <2>8 DEF Accepting
    <3>2. (\E i \in DOMAIN provider : provider[i].kind \in Terminal)
            => \E i \in DOMAIN provider' : provider'[i].kind \in Terminal
      <4> SUFFICES ASSUME NEW i \in DOMAIN provider, provider[i].kind \in Terminal
                   PROVE  \E k \in DOMAIN provider' : provider'[k].kind \in Terminal
        OBVIOUS
      <4>1. i \in 1..Len(provider) /\ i # 1
        BY <2>0, <2>1, <2>8
      <4>2. i - 1 \in 1..Len(provider') /\ DOMAIN provider' = 1..Len(provider')
        BY <2>1, <4>1
      <4>3. provider'[i - 1] = provider[i]
        BY <2>1, <4>1, <4>2
      <4> QED
        BY <4>2, <4>3
    <3>3. AnswerToCome'
      BY <2>0, <2>2, <3>2 DEF AnswerToCome
    <3> QED
      BY <2>0, <2>3, <2>4, <2>5, <2>6, <2>8, <3>1, <3>3 DEF FenceInv
  <2> QED
    BY <2>7, <2>8
<1>5. CASE Deliver
  <2>1. /\ events' = Append(events, pending) /\ pending \in Event /\ events \in Seq(Event)
        /\ pending' = NoEvent /\ pending.turn = pending.epoch
    BY <1>5 DEF Deliver, TypeInv, TypeOK, EpochIsolation
  <2>2. EpochIsolation'
    BY <2>1, AppendType DEF EpochIsolation
  <2> QED
    BY <1>5, <2>2 DEF Deliver, FenceInv, AnswerToCome, Accepting, providerVars
<1>6. CASE ContextDone
  BY <1>6 DEF ContextDone, Shutdown, FenceInv, EpochIsolation, AnswerToCome, Accepting, actorState
<1>7. CASE StreamClosed
  <2>1. EpochIsolation'
    <3>1. CASE phase # "idle" /\ Len(events) < EventCap
      <4>1. epoch \in Epochs
        BY <3>1 DEF TypeInv, ActiveEpoch, TypeOK, Epochs
      <4>2. PICK ev \in Event : ev.turn = ev.epoch /\ events' = Append(events, ev)
        BY <1>7, <3>1, <4>1 DEF StreamClosed, Event, Kinds
      <4> QED
        BY <1>7, <4>2, AppendType DEF EpochIsolation, StreamClosed, Shutdown, actorState,
                                      TypeInv, TypeOK
    <3>2. CASE ~(phase # "idle" /\ Len(events) < EventCap)
      BY <1>7, <3>2 DEF StreamClosed, Shutdown, EpochIsolation, actorState
    <3> QED
      BY <3>1, <3>2
  <2> QED
    BY <1>7, <2>1 DEF StreamClosed, Shutdown, FenceInv, AnswerToCome, Accepting, actorState
<1>8. ASSUME NEW c \in Callers, NEW op \in Ops, NEW e \in Epochs, Send(c, op, e)
      PROVE  Same
  BY <1>8 DEF Send
<1>9. ASSUME NEW c \in Callers, GiveUp(c)
      PROVE  Same
  BY <1>9 DEF GiveUp
<1>10. ASSUME NEW c \in Callers, SendClosed(c)
       PROVE  Same
  BY <1>10 DEF SendClosed, channels
<1>11. CASE Consume
  <2>1. events \in Seq(Event) /\ events # <<>> /\ events' = Tail(events)
    BY <1>11 DEF Consume, TypeInv, TypeOK
  <2>2. EpochIsolation'
    BY <1>11, <2>1, TailType DEF Consume, EpochIsolation, actorState
  <2> QED
    BY <1>11, <2>2 DEF Consume, FenceInv, AnswerToCome, Accepting, actorState, providerVars, history
<1>12. CASE Stop
  BY <1>12, <1>S DEF Stop, channels
<1>13. ASSUME NEW kind \in Kinds, Emit(kind)
       PROVE  (FenceInv /\ EpochIsolation /\ AnswerToCome)'
  <2>1. /\ job # 0 /\ job = epoch /\ Accepting /\ kind # "invalid"
        /\ provider \in Seq(RawEvent) /\ job \in Epochs
    BY <1>13 DEF Emit, FenceInv, TypeInv, TypeOK, Epochs
  <2>2. PICK raw \in RawEvent : /\ provider' = Append(provider, raw)
                                /\ raw.kind = kind /\ raw.turn = epoch /\ raw.id \in {0, epoch}
    <3> DEFINE r == [kind |-> kind, turn |-> job,
                     id |-> IF kind \in {"error", "invalid"} THEN 0 ELSE job]
    <3>1. r \in RawEvent
      BY <2>1, ActorAssumption DEF RawEvent, Epochs
    <3>2. provider' = Append(provider, r)
      BY <1>13 DEF Emit
    <3> QED
      BY <2>1, <3>1, <3>2
  <2>3. /\ DOMAIN provider' = 1..(Len(provider) + 1) /\ DOMAIN provider = 1..Len(provider)
        /\ provider'[Len(provider) + 1] = raw /\ Len(provider') = Len(provider) + 1
        /\ \A i \in DOMAIN provider : provider'[i] = provider[i]
        /\ Len(provider) \in Nat
    BY <2>1, <2>2, AppendType
  <2>4. /\ UNCHANGED <<phase, epoch, responseID, pending, events, done, providerClosed, closed, failed>>
        /\ job' = IF kind \in Terminal THEN 0 ELSE job
    BY <1>13 DEF Emit, actorState, channels, history
  <2>5. \A i \in DOMAIN provider' :
           /\ provider'[i].turn = epoch' /\ provider'[i].kind # "invalid"
           /\ provider'[i].id \in {0, epoch'}
           /\ provider'[i].kind \in Terminal => i = Len(provider') /\ job' = 0
    <3> TAKE i \in DOMAIN provider'
    <3>1. CASE i = Len(provider) + 1
      BY <2>1, <2>2, <2>3, <2>4, <3>1
    <3>2. CASE i \in DOMAIN provider
      BY <2>1, <2>3, <2>4, <3>2 DEF FenceInv
    <3> QED
      BY <2>3, <3>1, <3>2
  <2>6. FenceInv'
    BY <2>1, <2>4, <2>5 DEF FenceInv, Accepting
  <2>7. AnswerToCome'
    BY <2>1, <2>2, <2>3, <2>4 DEF AnswerToCome
  <2> QED
    BY <2>4, <2>6, <2>7 DEF EpochIsolation
<1>14. CASE ProviderFails
  BY <1>14 DEF ProviderFails, FenceInv, EpochIsolation, AnswerToCome, Accepting, actorState,
               channels, history
<1>15. CASE UNCHANGED vars
  BY <1>15, <1>S DEF vars, actorState, providerVars, history
<1> QED
  BY <1>S, <1>1, <1>2, <1>3, <1>4, <1>5, <1>6, <1>7, <1>8, <1>9, <1>10, <1>11, <1>12,
     <1>13, <1>14, <1>15 DEF Next, Run, Environment

LEMMA IsoInit == Init => IsoInv
<1>1. Init => TypeInv
  BY TypeInit
<1> QED
  BY <1>1 DEF Init, IsoInv, FenceInv, EpochIsolation, AnswerToCome, Accepting

\* With a provider that meets its contract (only valid events), every event
\* the actor hands out belongs to the turn it is tagged with, for any number
\* of callers, epochs and any channel capacities.
THEOREM Isolation == ASSUME Malformed = FALSE PROVE Spec => []EpochIsolation
<1>1. IsoInv => EpochIsolation
  BY DEF IsoInv
<1>2. IsoInv /\ [Next]_vars => IsoInv'
  BY IsoStep
<1> QED
  BY <1>1, <1>2, IsoInit, PTL DEF Spec

\* With such a provider the actor never waits for an answer that cannot come,
\* unless the provider failed to cancel that very turn.
THEOREM NeverStranded == ASSUME Malformed = FALSE PROVE Spec => []AnswerToCome
<1>1. IsoInv => AnswerToCome
  BY DEF IsoInv
<1>2. IsoInv /\ [Next]_vars => IsoInv'
  BY IsoStep
<1> QED
  BY <1>1, <1>2, IsoInit, PTL DEF Spec

-----------------------------------------------------------------------------
(***************************************************************************)
(* No event after a turn's end. The history closed only learns of an end   *)
(* when it is handed out, so the last event that is still pending has to   *)
(* keep its turn from being the current one; and nothing is said once the  *)
(* actor is done, whose report of a lost stream leaves the phase as it is. *)
(***************************************************************************)
EndInv ==
  ~done =>
    /\ \A e \in closed : e <= latest
    /\ pending.epoch <= latest
    /\ pending.epoch \notin closed
    /\ phase # "idle" => epoch = latest /\ epoch \notin closed
    /\ phase # "idle" /\ pending.kind \in Terminal => pending.epoch # epoch

LEMMA EpochTypes ==
  ASSUME TypeInv
  PROVE  /\ latest \in Nat /\ epoch \in Nat /\ pending.epoch \in Nat
         /\ closed \subseteq Nat /\ 0 \notin closed /\ NoEvent.epoch = 0
         /\ phase # "idle" => epoch # 0
         /\ events \in Seq(Event) /\ Len(events) \in Nat
<1>1. events \in Seq(Event) /\ Len(events) \in Nat
  BY DEF TypeInv, TypeOK
<1>2. pending.epoch \in Nat
  BY ActorAssumption DEF TypeInv, TypeOK, Epochs, Event, NoEvent
<1> QED
  BY <1>1, <1>2, ActorAssumption DEF TypeInv, TypeOK, ActiveEpoch, Epochs, NoEvent

\* Applying a command: a new turn is newer than every end, and a cancel
\* takes the pending event of its turn along.
LEMMA ApplyEnd ==
  ASSUME TypeInv, EndInv, ~done, ~done', NEW cmd \in Command, Apply(cmd)
  PROVE  EndInv'
<1>0. /\ cmd.epoch \in Nat /\ latest \in Nat /\ epoch \in Nat
      /\ pending.epoch \in Nat /\ closed \subseteq Nat /\ 0 \notin closed
      /\ NoEvent.epoch = 0 /\ (phase # "idle" => epoch # 0)
  BY EpochTypes, ActorAssumption DEF Command, Epochs
<1>R. CASE Rejected
  BY <1>R DEF Rejected, EndInv, actorState, history
<1>2. CASE StartTurn(cmd.epoch)
  <2>1. CASE phase = "idle" /\ cmd.epoch > latest
    <3>1. /\ latest' = cmd.epoch /\ epoch' = cmd.epoch
          /\ pending' = pending /\ closed' = closed
      BY <1>2, <2>1 DEF StartTurn, history
    <3>2. \A e \in closed : e <= latest /\ e \in Nat
      BY <1>0 DEF EndInv
    <3>3. cmd.epoch \notin closed /\ \A e \in closed : e <= cmd.epoch
      BY <1>0, <2>1, <3>2
    <3> QED
      BY <1>0, <2>1, <3>1, <3>3 DEF EndInv
  <2> QED
    BY <1>2, <1>R, <2>1 DEF StartTurn
<1>3. CASE AppendPCM(cmd.epoch)
  BY <1>3, <1>R DEF AppendPCM, EndInv, history
<1>4. CASE Commit(cmd.epoch)
  BY <1>4, <1>R DEF Commit, CanCommit, EndInv, history
<1>5. CASE Cancel(cmd.epoch)
  <2>1. CASE CancelActive(cmd.epoch) /\ phase # "idle" /\ cmd.epoch = epoch
    <3>1. /\ phase' = "idle" /\ latest' = latest /\ closed' = closed \cup {epoch}
          /\ pending' = IF pending.epoch = epoch THEN NoEvent ELSE pending
      BY <2>1 DEF CancelActive
    <3> QED
      BY <1>0, <2>1, <3>1 DEF EndInv
  <2>2. CASE CancelFailed(cmd.epoch)
    BY <2>2 DEF CancelFailed, EndInv, actorState
  <2> QED
    BY <1>5, <1>R, <2>1, <2>2 DEF Cancel
<1> QED
  BY <1>2, <1>3, <1>4, <1>5 DEF Apply, Command, Ops

\* What one step adds to the events is of a turn that has not ended.
AddsOpen == Len(events') > Len(events) => events'[Len(events')].epoch \notin closed

LEMMA EndStep ==
  ASSUME TypeInv, TypeInv', EndInv, [Next]_vars
  PROVE  EndInv' /\ AddsOpen
<1>0. /\ latest \in Nat /\ epoch \in Nat /\ pending.epoch \in Nat /\ closed \subseteq Nat
      /\ events \in Seq(Event) /\ Len(events) \in Nat /\ NoEvent.epoch = 0 /\ 0 \notin closed
  BY EpochTypes
<1> DEFINE Same == UNCHANGED <<phase, latest, epoch, pending, closed, done>>
<1>S. ASSUME Same PROVE EndInv'
  BY <1>S DEF EndInv
<1>E. ASSUME events' = events PROVE AddsOpen
  BY <1>0, <1>E DEF AddsOpen
<1>1. CASE LookUrgent
  BY <1>1, <1>S, <1>E DEF LookUrgent, actorState, channels, history
<1>2. CASE TakeUrgent
  <2>1. Head(urgent) \in Command
    BY <1>2, TailType DEF TakeUrgent, TypeInv, TypeOK
  <2> QED
    BY <1>2, <1>E, <2>1, ApplyEnd DEF TakeUrgent
<1>3. CASE TakeCommand
  <2>1. Head(commands) \in Command
    BY <1>3, TailType DEF TakeCommand, TypeInv, TypeOK
  <2>2. CASE Apply(Head(commands))
    BY <1>3, <1>E, <2>1, <2>2, ApplyEnd DEF TakeCommand
  <2>3. CASE Rejected
    BY <1>3, <1>S, <1>E, <2>3 DEF TakeCommand, Rejected, actorState, history
  <2> QED
    BY <1>3, <2>2, <2>3 DEF TakeCommand
<1>4. CASE TakeProviderEvent
  <2> DEFINE raw == Head(provider)
  <2>1. /\ ~done /\ done' = done /\ events' = events
        /\ UNCHANGED <<latest, epoch, closed>> /\ Accept(raw)
    BY <1>4 DEF TakeProviderEvent, channels, history
  <2>2. \/ UNCHANGED <<phase, pending>>
        \/ /\ Accepting /\ pending'.epoch = epoch
           /\ phase' # "idle" => phase # "idle"
           /\ pending'.kind \in Terminal => phase' = "idle"
    BY <2>1 DEF Accept, Tagged, Accepting, Terminal
  <2>3. Accepting => phase # "idle"
    BY DEF Accepting
  <2>4. EndInv'
    BY <1>0, <2>1, <2>2, <2>3 DEF EndInv
  <2> QED
    BY <1>E, <2>1, <2>4
<1>5. CASE Deliver
  <2>1. /\ ~done /\ done' = done /\ events' = Append(events, pending) /\ pending \in Event
        /\ UNCHANGED <<phase, latest, epoch>> /\ pending' = NoEvent
        /\ closed' = IF pending.kind \in Terminal THEN closed \cup {pending.epoch} ELSE closed
    BY <1>5 DEF Deliver, TypeInv, TypeOK
  <2>2. AddsOpen
    BY <1>0, <2>1, AppendType DEF AddsOpen, EndInv
  <2>3. pending.epoch # 0
    BY <2>1, ActorAssumption DEF Event, Epochs
  <2>4. NoEvent.kind \notin Terminal
    BY DEF NoEvent, Terminal
  <2> QED
    BY <1>0, <2>1, <2>2, <2>3, <2>4 DEF EndInv
<1>6. CASE ContextDone
  BY <1>6, <1>E DEF ContextDone, Shutdown, EndInv
<1>7. CASE StreamClosed
  <2>1. EndInv'
    BY <1>7 DEF StreamClosed, Shutdown, EndInv
  <2>2. CASE phase # "idle" /\ Len(events) < EventCap
    <3> DEFINE ev == [epoch |-> epoch, kind |-> "error", turn |-> epoch]
    <3>1. epoch \in Epochs
      BY <2>2 DEF TypeInv, TypeOK, ActiveEpoch, Epochs
    <3>2. ev \in Event
      BY <3>1 DEF Event, Kinds
    <3>3. events' = Append(events, ev) /\ ~done
      BY <1>7, <2>2 DEF StreamClosed
    <3>4. AddsOpen
      BY <1>0, <2>2, <3>2, <3>3, AppendType DEF AddsOpen, EndInv
    <3> QED
      BY <2>1, <3>4
  <2>3. CASE ~(phase # "idle" /\ Len(events) < EventCap)
    BY <1>7, <1>E, <2>1, <2>3 DEF StreamClosed
  <2> QED
    BY <2>2, <2>3
<1>8. ASSUME NEW c \in Callers, NEW op \in Ops, NEW e \in Epochs, Send(c, op, e)
      PROVE  Same /\ events' = events
  BY <1>8 DEF Send, actorState, history
<1>9. ASSUME NEW c \in Callers, GiveUp(c) \/ SendClosed(c)
      PROVE  Same /\ events' = events
  BY <1>9 DEF GiveUp, SendClosed, actorState, channels, history
<1>10. CASE Consume
  <2>1. Len(events') = Len(events) - 1 /\ Same
    BY <1>0, <1>10, TailType DEF Consume, actorState, history
  <2> QED
    BY <1>0, <1>S, <2>1 DEF AddsOpen
<1>11. CASE Stop \/ ProviderFails \/ UNCHANGED vars
  BY <1>11, <1>S, <1>E DEF Stop, ProviderFails, vars, actorState, channels, history
<1>12. ASSUME NEW kind \in Kinds, Emit(kind)
       PROVE  Same /\ events' = events
  BY <1>12 DEF Emit, actorState, channels, history
<1> QED
  BY <1>S, <1>E, <1>1, <1>2, <1>3, <1>4, <1>5, <1>6, <1>7, <1>8, <1>9, <1>10, <1>11,
     <1>12 DEF Next, Run, Environment

\* Once a turn had its done or error, or was cancelled while active, no event
\* of its epoch is handed out any more, whatever the provider does after it.
THEOREM SilentAfterEnd == Spec => NothingAfterEnd
<1>1. Init => TypeInv /\ EndInv
  BY TypeInit DEF Init, EndInv, NoEvent, Terminal
<1>2. TypeInv /\ EndInv /\ [Next]_vars => TypeInv' /\ EndInv' /\ AddsOpen
  BY TypeStep, EndStep
<1>3. TypeInv /\ EndInv /\ [Next]_vars
        => [Len(events') > Len(events) => events'[Len(events')].epoch \notin closed]_vars
  BY <1>2 DEF AddsOpen
<1> QED
  BY <1>1, <1>2, <1>3, PTL DEF Spec, NothingAfterEnd

-----------------------------------------------------------------------------
(***************************************************************************)
(* The actor implements TurnSession. The refinement mapping reads the      *)
(* output channel and the pending event as one stream; the lemmas say what *)
(* delivering, taking and withdrawing an event do to that stream.          *)
(***************************************************************************)
Tag(ev) == [epoch |-> ev.epoch, item |-> ev.kind]
StreamItem == [epoch : Epochs, item : Kinds \ {"invalid"}]
Stream(q, p) ==
  [i \in 1..(Len(q) + IF p = NoEvent THEN 0 ELSE 1) |->
     Tag(IF i <= Len(q) THEN q[i] ELSE p)]

LEMMA UndeliveredIsStream ==
  Undelivered = Stream(events, pending) /\ Undelivered' = Stream(events', pending')
  BY DEF Undelivered, Stream, Tag

LEMMA EventNotNone == NoEvent \notin Event
  BY ActorAssumption DEF NoEvent, Event, Epochs

LEMMA StreamType ==
  ASSUME NEW q \in Seq(Event), NEW p \in Event \cup {NoEvent}
  PROVE  /\ Stream(q, p) \in Seq(StreamItem)
         /\ Len(Stream(q, p)) = Len(q) + IF p = NoEvent THEN 0 ELSE 1
         /\ \A i \in 1..Len(q) : Stream(q, p)[i] = Tag(q[i])
         /\ p # NoEvent => Stream(q, p)[Len(q) + 1] = Tag(p)
<1> DEFINE n == Len(q) + IF p = NoEvent THEN 0 ELSE 1
<1>1. Len(q) \in Nat /\ n \in Nat
  OBVIOUS
<1>2. \A ev \in Event : Tag(ev) \in StreamItem
  BY DEF Tag, Event, StreamItem
<1>3. ASSUME NEW i \in 1..n
      PROVE  Tag(IF i <= Len(q) THEN q[i] ELSE p) \in StreamItem
  <2>1. CASE i <= Len(q)
    <3>1. q[i] \in Event
      BY <1>1, <2>1
    <3> QED
      BY <1>2, <2>1, <3>1
  <2>2. CASE ~(i <= Len(q))
    <3>1. p \in Event
      BY <1>1, <2>2
    <3> QED
      BY <1>2, <2>2, <3>1
  <2> QED
    BY <2>1, <2>2
<1>4. Stream(q, p) \in [1..n -> StreamItem]
  BY <1>3 DEF Stream
<1>5. Stream(q, p) \in Seq(StreamItem) /\ Len(Stream(q, p)) = n
  BY <1>1, <1>4, SeqDef
<1>6. \A i \in 1..Len(q) : Stream(q, p)[i] = Tag(q[i])
  BY <1>1 DEF Stream
<1>7. p # NoEvent => Stream(q, p)[Len(q) + 1] = Tag(p)
  BY <1>1 DEF Stream
<1> QED
  BY <1>5, <1>6, <1>7

\* A pending event is the newest element of the stream.
LEMMA StreamAppend ==
  ASSUME NEW q \in Seq(Event), NEW p \in Event
  PROVE  /\ Stream(q, p) = Append(Stream(q, NoEvent), Tag(p))
         /\ Stream(q, p) # <<>> /\ Stream(q, p)[Len(Stream(q, p))].epoch = p.epoch
         /\ SubSeq(Stream(q, p), 1, Len(Stream(q, p)) - 1) = Stream(q, NoEvent)
<1> DEFINE s == Stream(q, NoEvent)
           t == Stream(q, p)
<1>1. /\ s \in Seq(StreamItem) /\ Len(s) = Len(q) /\ Len(q) \in Nat
      /\ \A i \in 1..Len(q) : s[i] = Tag(q[i])
  BY StreamType
<1>2. /\ t \in Seq(StreamItem) /\ Len(t) = Len(q) + 1
      /\ \A i \in 1..Len(q) : t[i] = Tag(q[i])
      /\ t[Len(q) + 1] = Tag(p)
  BY StreamType, EventNotNone
<1> HIDE DEF s, t
<1>3. Tag(p) \in StreamItem /\ Tag(p).epoch = p.epoch
  BY DEF Tag, Event, StreamItem
<1>4. /\ Append(s, Tag(p)) \in Seq(StreamItem) /\ Len(Append(s, Tag(p))) = Len(q) + 1
      /\ \A i \in 1..Len(q) : Append(s, Tag(p))[i] = s[i]
      /\ Append(s, Tag(p))[Len(q) + 1] = Tag(p)
  BY <1>1, <1>3
<1>5. \A i \in 1..Len(t) : t[i] = Append(s, Tag(p))[i]
  BY <1>1, <1>2, <1>4
<1>6. t = Append(s, Tag(p))
  BY <1>2, <1>4, <1>5, SeqEqual
<1>7. /\ SubSeq(t, 1, Len(t) - 1) \in Seq(StreamItem)
      /\ Len(SubSeq(t, 1, Len(t) - 1)) = Len(q)
      /\ \A i \in 1..Len(q) : SubSeq(t, 1, Len(t) - 1)[i] = t[i]
  BY <1>1, <1>2
<1>8. \A i \in 1..Len(s) : SubSeq(t, 1, Len(t) - 1)[i] = s[i]
  BY <1>1, <1>2, <1>7
<1>9. SubSeq(t, 1, Len(t) - 1) = s
  BY <1>1, <1>7, <1>8, SeqEqual
<1>10. t # <<>> /\ t[Len(t)].epoch = p.epoch
  BY <1>1, <1>2, <1>3
<1> QED
  BY <1>6, <1>9, <1>10 DEF s, t

\* Delivering the pending event does not change the stream.
LEMMA StreamDeliver ==
  ASSUME NEW q \in Seq(Event), NEW p \in Event
  PROVE  Stream(Append(q, p), NoEvent) = Stream(q, p)
<1> DEFINE r == Append(q, p)
           s == Stream(r, NoEvent)
           t == Stream(q, p)
<1>1. /\ r \in Seq(Event) /\ Len(r) = Len(q) + 1 /\ Len(q) \in Nat
      /\ \A i \in 1..Len(q) : r[i] = q[i]
      /\ r[Len(q) + 1] = p
  BY AppendType
<1> HIDE DEF r
<1>2. /\ s \in Seq(StreamItem) /\ Len(s) = Len(q) + 1
      /\ \A i \in 1..(Len(q) + 1) : s[i] = Tag(r[i])
  BY <1>1, StreamType
<1>3. /\ t \in Seq(StreamItem) /\ Len(t) = Len(q) + 1
      /\ \A i \in 1..Len(q) : t[i] = Tag(q[i])
      /\ t[Len(q) + 1] = Tag(p)
  BY StreamType, EventNotNone
<1> HIDE DEF s, t
<1>4. \A i \in 1..Len(s) : s[i] = t[i]
  <2> TAKE i \in 1..Len(s)
  <2>1. i \in 1..Len(q) \/ i = Len(q) + 1
    BY <1>1, <1>2
  <2> QED
    BY <1>1, <1>2, <1>3, <2>1
<1>5. s = t
  BY <1>2, <1>3, <1>4, SeqEqual
<1> QED
  BY <1>5 DEF r, s, t

\* Taking the oldest event takes the head of the stream.
LEMMA StreamTake ==
  ASSUME NEW q \in Seq(Event), q # <<>>, NEW p \in Event \cup {NoEvent}
  PROVE  Stream(q, p) # <<>> /\ Stream(Tail(q), p) = Tail(Stream(q, p))
<1> DEFINE r == Tail(q)
           s == Stream(r, p)
           t == Stream(q, p)
           k == IF p = NoEvent THEN 0 ELSE 1
<1>1. /\ r \in Seq(Event) /\ Len(r) = Len(q) - 1 /\ Len(q) \in Nat \ {0}
      /\ \A i \in 1..(Len(q) - 1) : r[i] = q[i + 1]
  BY TailType
<1> HIDE DEF r
<1>2. /\ s \in Seq(StreamItem) /\ Len(s) = Len(q) - 1 + k
      /\ \A i \in 1..(Len(q) - 1) : s[i] = Tag(r[i])
      /\ p # NoEvent => s[Len(q)] = Tag(p)
  <2>1. Len(r) + 1 = Len(q)
    BY <1>1
  <2>2. /\ s \in Seq(StreamItem) /\ Len(s) = Len(r) + k
        /\ \A i \in 1..Len(r) : s[i] = Tag(r[i])
        /\ p # NoEvent => s[Len(r) + 1] = Tag(p)
    BY <1>1, StreamType
  <2> HIDE DEF s, k
  <2> QED
    BY <1>1, <2>1, <2>2
<1>3. /\ t \in Seq(StreamItem) /\ Len(t) = Len(q) + k
      /\ \A i \in 1..Len(q) : t[i] = Tag(q[i])
      /\ p # NoEvent => t[Len(q) + 1] = Tag(p)
  BY StreamType
<1> HIDE DEF s, t
<1>4. t # <<>>
  BY <1>1, <1>3
<1>5. /\ Tail(t) \in Seq(StreamItem) /\ Len(Tail(t)) = Len(t) - 1
      /\ \A i \in 1..(Len(t) - 1) : Tail(t)[i] = t[i + 1]
  BY <1>3, <1>4
<1>6. \A i \in 1..Len(s) : s[i] = Tail(t)[i]
  <2> TAKE i \in 1..Len(s)
  <2>1. CASE i \in 1..(Len(q) - 1)
    <3>1. i + 1 \in 1..Len(q) /\ i \in 1..(Len(t) - 1)
      BY <1>1, <1>3, <2>1
    <3> QED
      BY <1>1, <1>2, <1>3, <1>5, <2>1, <3>1
  <2>2. CASE i \notin 1..(Len(q) - 1)
    <3>0. p # NoEvent
      BY <1>1, <1>2, <2>2
    <3>1. i = Len(q) /\ p # NoEvent /\ i \in 1..(Len(t) - 1)
      BY <1>1, <1>2, <1>3, <2>2, <3>0
    <3> QED
      BY <1>2, <1>3, <1>5, <3>1
  <2> QED
    BY <2>1, <2>2
<1>7. Len(s) = Len(Tail(t))
  BY <1>1, <1>2, <1>3, <1>5
<1>8. s = Tail(t)
  BY <1>2, <1>5, <1>6, <1>7, SeqEqual
<1> QED
  BY <1>4, <1>8 DEF r, s, t

StepsAbstract == [Abstract!Next]_(Abstract!vars)

\* What of the actor TurnSession does not see.
Unseen ==
  UNCHANGED <<phase, latest, epoch, pending, hasFrames, events, done>>

LEMMA UnseenStep == ASSUME Unseen PROVE StepsAbstract
<1>1. Undelivered' = Undelivered
  BY UndeliveredIsStream DEF Unseen
<1> QED
  BY <1>1 DEF Unseen, StepsAbstract, Abstract!vars, Accepting

\* A command that Actor.apply carries out is the same call of TurnSession.
LEMMA ApplyRefines ==
  ASSUME TypeInv, ~done, UNCHANGED <<events, done>>, NEW cmd \in Command, Apply(cmd)
  PROVE  StepsAbstract
<1> DEFINE e == cmd.epoch
<1>0. e \in Epochs /\ e # 0
  BY ActorAssumption DEF Command, Epochs
<1>R. CASE Rejected
  BY <1>R, UnseenStep DEF Rejected, Unseen, actorState
<1>S. pending' = pending => Undelivered' = Undelivered
  BY UndeliveredIsStream
<1>2. CASE StartTurn(e)
  <2>1. CASE phase = "idle" /\ e > latest
    <3>1. Abstract!Start(e)
      BY <1>2, <1>S, <2>1 DEF StartTurn, Abstract!Start, Abstract!CanStart, Accepting
    <3> QED
      BY <1>0, <3>1 DEF StepsAbstract, Abstract!Next
  <2> QED
    BY <1>2, <1>R, <2>1 DEF StartTurn
<1>3. CASE AppendPCM(e)
  <2>1. CASE ~Rejected
    <3>1. Abstract!Append1(e)
      BY <1>3, <1>S, <2>1 DEF AppendPCM, Abstract!Append1, Abstract!CanAppend, Accepting
    <3> QED
      BY <1>0, <3>1 DEF StepsAbstract, Abstract!Next
  <2> QED
    BY <1>R, <2>1
<1>4. CASE Commit(e)
  <2>1. CASE ~Rejected
    <3>1. Abstract!Commit(e)
      BY <1>4, <1>S, <2>1 DEF Commit, CanCommit, Abstract!Commit, Abstract!CanCommit,
                              Abstract!CanAppend, Accepting
    <3> QED
      BY <1>0, <3>1 DEF StepsAbstract, Abstract!Next
  <2> QED
    BY <1>R, <2>1
<1>5. CASE Cancel(e)
  <2>1. CASE CancelActive(e) /\ phase # "idle" /\ e = epoch
    <3>1. /\ phase' = "idle" /\ epoch' = 0 /\ hasFrames' = FALSE /\ latest' = latest
          /\ pending' = IF pending.epoch = epoch THEN NoEvent ELSE pending
      BY <2>1 DEF CancelActive
    <3>2. Undelivered' \in Abstract!Withdrawn(Undelivered, e)
      <4>1. CASE pending.epoch = epoch
        <5>1. pending \in Event /\ events \in Seq(Event)
          BY <1>0, <2>1, <4>1 DEF TypeInv, TypeOK, NoEvent
        <5>2. Undelivered' = Stream(events, NoEvent)
          BY <3>1, <4>1, UndeliveredIsStream
        <5>3. /\ Undelivered # <<>> /\ Undelivered[Len(Undelivered)].epoch = e
              /\ Undelivered' = SubSeq(Undelivered, 1, Len(Undelivered) - 1)
          BY <2>1, <4>1, <5>1, <5>2, StreamAppend, UndeliveredIsStream
        <5> QED
          BY <5>3 DEF Abstract!Withdrawn
      <4>2. CASE pending.epoch # epoch
        BY <1>S, <3>1, <4>2 DEF Abstract!Withdrawn
      <4> QED
        BY <4>1, <4>2
    <3>3. Abstract!Cancel(e)
      BY <2>1, <3>1, <3>2 DEF Abstract!Cancel, Abstract!CanCancel, Accepting
    <3> QED
      BY <1>0, <3>3 DEF StepsAbstract, Abstract!Next
  <2>2. CASE CancelFailed(e)
    BY <2>2, UnseenStep DEF CancelFailed, Unseen, actorState
  <2> QED
    BY <1>5, <1>R, <2>1, <2>2 DEF Cancel
<1> QED
  BY <1>2, <1>3, <1>4, <1>5 DEF Apply, Command, Ops

LEMMA RefinementInit == Init => Abstract!Init
<1> SUFFICES ASSUME Init PROVE Abstract!Init
  OBVIOUS
<1>1. Undelivered = <<>>
  <2>1. Stream(events, pending) \in Seq(StreamItem) /\ Len(Stream(events, pending)) = 0
    <3>1. events \in Seq(Event) /\ Len(events) = 0 /\ pending = NoEvent
      BY DEF Init
    <3>2. /\ Stream(events, pending) \in Seq(StreamItem)
          /\ Len(Stream(events, pending)) = Len(events) + IF pending = NoEvent THEN 0 ELSE 1
      BY <3>1, StreamType, Zenon
    <3> QED
      BY <3>1, <3>2
  <2> QED
    BY <2>1, UndeliveredIsStream
<1> QED
  BY <1>1 DEF Init, Abstract!Init, Accepting

LEMMA RefinementStep == TypeInv /\ [Next]_vars => StepsAbstract
<1> SUFFICES ASSUME TypeInv, [Next]_vars PROVE StepsAbstract
  OBVIOUS
<1>0. events \in Seq(Event) /\ pending \in Event \cup {NoEvent}
  BY DEF TypeInv, TypeOK
<1>U. CASE Unseen
  BY <1>U, UnseenStep
<1>1. CASE LookUrgent
  BY <1>1, <1>U DEF LookUrgent, Unseen, actorState, channels
<1>2. CASE TakeUrgent
  <2>1. Head(urgent) \in Command
    BY <1>2, TailType DEF TakeUrgent, TypeInv, TypeOK
  <2> QED
    BY <1>2, <2>1, ApplyRefines DEF TakeUrgent
<1>3. CASE TakeCommand
  <2>1. Head(commands) \in Command
    BY <1>3, TailType DEF TakeCommand, TypeInv, TypeOK
  <2>2. CASE Apply(Head(commands))
    BY <1>3, <2>1, <2>2, ApplyRefines DEF TakeCommand
  <2>3. CASE Rejected
    BY <1>3, <1>U, <2>3 DEF TakeCommand, Rejected, Unseen, actorState
  <2> QED
    BY <1>3, <2>2, <2>3 DEF TakeCommand
<1>4. CASE TakeProviderEvent
  <2> DEFINE raw == Head(provider)
  <2>1. /\ ~done /\ done' = done /\ events' = events /\ pending = NoEvent
        /\ UNCHANGED <<latest, epoch, hasFrames>> /\ Accept(raw)
        /\ raw \in RawEvent
    BY <1>4, TailType DEF TakeProviderEvent, channels, TypeInv, TypeOK
  <2>2. CASE UNCHANGED <<phase, pending>>
    BY <1>U, <2>1, <2>2 DEF Unseen
  <2>3. ASSUME NEW kind \in Kinds \ {"invalid"}, Accepting, pending' = Tagged(kind, raw),
               phase' = "idle" <=> kind \in Terminal,
               phase' \in {"idle", "speaking", phase}
        PROVE  StepsAbstract
    <3>1. Tagged(kind, raw) \in Event
      BY <2>1, <2>3, ActorAssumption DEF Tagged, Event, RawEvent, TypeInv, TypeOK, ActiveEpoch,
                                         Accepting, Epochs
    <3>2. Undelivered' = Append(Undelivered, [epoch |-> epoch, item |-> kind])
      <4>1. Tag(Tagged(kind, raw)) = [epoch |-> epoch, item |-> kind]
        BY DEF Tag, Tagged
      <4>2. Undelivered' = Append(Stream(events, NoEvent), Tag(Tagged(kind, raw)))
        BY <1>0, <2>1, <2>3, <3>1, StreamAppend, UndeliveredIsStream
      <4> QED
        BY <2>1, <4>1, <4>2, UndeliveredIsStream
    <3>3. Abstract!Answer(kind)
      BY <2>1, <2>3, <3>2 DEF Abstract!Answer, Accepting
    <3> QED
      BY <3>3 DEF StepsAbstract, Abstract!Next
  <2>4. CASE raw.kind = "invalid" /\ Accepting /\ ~UNCHANGED <<phase, pending>>
    BY <2>1, <2>3, <2>4 DEF Accept, Kinds, Terminal
  <2>5. CASE raw.kind # "invalid" /\ Accepting /\ ~UNCHANGED <<phase, pending>>
    <3>1. raw.kind \in Kinds \ {"invalid"}
      BY <2>1, <2>5 DEF RawEvent
    <3>2. /\ pending' = Tagged(raw.kind, raw)
          /\ raw.kind \in Terminal => phase' = "idle"
          /\ raw.kind \notin Terminal => phase' \in {"speaking", phase}
      BY <2>1, <2>5 DEF Accept, Terminal
    <3> QED
      BY <2>3, <2>5, <3>1, <3>2 DEF Accepting
  <2> QED
    BY <2>1, <2>2, <2>4, <2>5 DEF Accept
<1>5. CASE Deliver
  <2>1. /\ pending \in Event /\ events' = Append(events, pending) /\ pending' = NoEvent
        /\ UNCHANGED <<phase, latest, epoch, hasFrames, done>>
    BY <1>0, <1>5 DEF Deliver
  <2>2. Undelivered' = Undelivered
    BY <1>0, <2>1, StreamDeliver, UndeliveredIsStream
  <2> QED
    BY <2>1, <2>2 DEF StepsAbstract, Abstract!vars, Accepting
<1>6. CASE ContextDone
  <2>1. Undelivered' = Undelivered
    BY <1>6, UndeliveredIsStream DEF ContextDone, Shutdown, actorState
  <2>2. Abstract!Close
    BY <1>6, <2>1 DEF ContextDone, Shutdown, actorState, Abstract!Close, Accepting
  <2> QED
    BY <2>2 DEF StepsAbstract, Abstract!Next
<1>7. CASE StreamClosed
  <2>1. /\ ~done /\ done' = TRUE /\ pending = NoEvent
        /\ UNCHANGED <<phase, latest, epoch, hasFrames, pending>>
    BY <1>7 DEF StreamClosed, Shutdown, actorState
  <2>2. CASE phase # "idle" /\ Len(events) < EventCap
    <3> DEFINE ev == [epoch |-> epoch, kind |-> "error", turn |-> epoch]
    <3>1. ev \in Event
      BY <2>2, ActorAssumption DEF Event, Kinds, TypeInv, TypeOK, ActiveEpoch, Epochs
    <3>2. events' = Append(events, ev)
      BY <1>7, <2>2 DEF StreamClosed
    <3>3. Undelivered' = Append(Undelivered, Tag(ev))
      <4> HIDE DEF ev
      <4>1. Undelivered' = Stream(events, ev)
        BY <1>0, <2>1, <3>1, <3>2, StreamDeliver, UndeliveredIsStream
      <4> QED
        BY <1>0, <2>1, <3>1, <4>1, StreamAppend, UndeliveredIsStream
    <3>4. Tag(ev) = [epoch |-> epoch, item |-> "error"]
      BY DEF Tag
    <3>5. Abstract!Close
      <4> HIDE DEF ev
      <4> QED
        BY <2>1, <2>2, <3>3, <3>4 DEF Abstract!Close, Accepting
    <3> QED
      BY <3>5 DEF StepsAbstract, Abstract!Next
  <2>3. CASE ~(phase # "idle" /\ Len(events) < EventCap)
    <3>1. Undelivered' = Undelivered
      BY <1>7, <2>1, <2>3, UndeliveredIsStream DEF StreamClosed
    <3>2. Abstract!Close
      BY <2>1, <3>1 DEF Abstract!Close, Accepting
    <3> QED
      BY <3>2 DEF StepsAbstract, Abstract!Next
  <2> QED
    BY <2>2, <2>3
<1>8. ASSUME NEW c \in Callers, NEW op \in Ops, NEW e \in Epochs, Send(c, op, e)
      PROVE  Unseen
  BY <1>8 DEF Send, Unseen, actorState
<1>9. ASSUME NEW c \in Callers, GiveUp(c) \/ SendClosed(c)
      PROVE  Unseen
  BY <1>9 DEF GiveUp, SendClosed, Unseen, actorState, channels
<1>10. CASE Consume
  <2>1. Undelivered # <<>> /\ Undelivered' = Tail(Undelivered)
    BY <1>0, <1>10, StreamTake, UndeliveredIsStream DEF Consume, actorState
  <2>2. Abstract!Take
    BY <1>10, <2>1 DEF Consume, actorState, Abstract!Take, Accepting
  <2> QED
    BY <2>2 DEF StepsAbstract, Abstract!Next
<1>11. CASE Stop \/ ProviderFails \/ UNCHANGED vars
  BY <1>11, <1>U DEF Stop, ProviderFails, vars, Unseen, actorState, channels
<1>12. ASSUME NEW kind \in Kinds, Emit(kind)
       PROVE  Unseen
  BY <1>12 DEF Emit, Unseen, actorState, channels
<1> QED
  BY <1>U, <1>1, <1>2, <1>3, <1>4, <1>5, <1>6, <1>7, <1>8, <1>9, <1>10, <1>11,
     <1>12 DEF Next, Run, Environment

\* The actor, with its bounded channels, its waiting and abandoning callers
\* and a provider that may fail or misbehave, implements the atomic session
\* that the device handler is modelled against.
THEOREM Refinement == Spec => ImplementsTurnSession
<1>1. TypeInv /\ [Next]_vars => TypeInv' /\ [Abstract!Next]_(Abstract!vars)
  BY TypeStep, RefinementStep DEF StepsAbstract
<1> QED
  BY <1>1, TypeInit, RefinementInit, PTL DEF Spec, ImplementsTurnSession, Abstract!Spec
=============================================================================
