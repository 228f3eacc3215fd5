---------------------------- MODULE SessionActor ----------------------------
(***************************************************************************)
(* The server's session actor (server/internal/session/session.go): one    *)
(* goroutine that owns the turn state of a device connection, serves       *)
(* StartTurn, AppendPCM, Commit and Cancel from a bounded command channel  *)
(* and a bounded urgent channel, and tags provider events with the epoch   *)
(* of the turn before it hands them to its consumer.                       *)
(*                                                                         *)
(* The provider is modelled by the contract of backend.ConversationSession:*)
(* one response at a time, a bounded event channel, and a Cancel that      *)
(* fences the response before it returns.                                  *)
(*                                                                         *)
(* Data that no decision depends on is left out: PCM bytes, text and       *)
(* error texts. actorState.frames is only ever compared with zero, so it   *)
(* is the flag hasFrames. EventStarted and EventTextDelta take the same    *)
(* path through the actor and are both "delta".                            *)
(***************************************************************************)
EXTENDS Naturals, Sequences, FiniteSets

CONSTANTS
  Callers,      \* goroutines that call the actor's methods
  MaxEpoch,     \* largest epoch a caller uses (bound of the model)
  CommandCap,   \* commandCapacity
  UrgentCap,    \* urgentCapacity
  EventCap,     \* eventCapacity
  ProviderCap,  \* capacity of the provider's event channel
  Malformed     \* whether the provider may emit an event that does not validate

ASSUME ActorAssumption ==
  /\ Callers # {}
  /\ MaxEpoch \in Nat \ {0}
  /\ CommandCap \in Nat \ {0}
  /\ UrgentCap \in Nat \ {0}
  /\ EventCap \in Nat \ {0}
  /\ ProviderCap \in Nat \ {0}
  /\ Malformed \in BOOLEAN

Epochs == 1..MaxEpoch
Ops == {"start", "append", "commit", "cancel"}
Phases == {"idle", "listening", "thinking", "speaking"}
Kinds == {"delta", "audio", "done", "error", "invalid"}
Terminal == {"done", "error"}

\* turn is a history field: the turn whose Commit started the response that
\* the event belongs to. The code has no such field.
RawEvent == [kind : Kinds, id : 0..MaxEpoch, turn : Epochs]
Event == [epoch : Epochs, kind : Kinds \ {"invalid"}, turn : Epochs]
NoEvent == [epoch |-> 0, kind |-> "none", turn |-> 0]
Command == [caller : Callers, op : Ops, epoch : Epochs, live : BOOLEAN]

VARIABLES
  phase, latest, epoch, responseID, hasFrames, pending,  \* actorState
  looked,      \* run has found urgent empty and is at its blocking select
  commands, urgent, events, stopped, done,               \* Actor
  waiting,     \* callers inside send()
  job, provider, providerClosed,                         \* provider contract
  closed,      \* history: epochs that were answered or cancelled
  failed       \* history: epochs whose cancel the provider failed

actorState == <<phase, latest, epoch, responseID, hasFrames, pending>>
channels == <<commands, urgent, events>>
providerVars == <<job, provider, providerClosed>>
history == <<closed, failed>>
vars == <<phase, latest, epoch, responseID, hasFrames, pending, looked,
          commands, urgent, events, stopped, done, waiting,
          job, provider, providerClosed, closed, failed>>

TypeOK ==
  /\ phase \in Phases
  /\ latest \in 0..MaxEpoch
  /\ epoch \in 0..MaxEpoch
  /\ responseID \in 0..MaxEpoch
  /\ hasFrames \in BOOLEAN
  /\ pending \in Event \cup {NoEvent}
  /\ looked \in BOOLEAN
  /\ commands \in Seq(Command) /\ Len(commands) <= CommandCap
  /\ urgent \in Seq(Command) /\ Len(urgent) <= UrgentCap
  /\ events \in Seq(Event) /\ Len(events) <= EventCap
  /\ stopped \in BOOLEAN /\ done \in BOOLEAN /\ providerClosed \in BOOLEAN
  /\ waiting \in SUBSET Callers
  /\ job \in 0..MaxEpoch
  /\ provider \in Seq(RawEvent) /\ Len(provider) <= ProviderCap
  /\ closed \in SUBSET Epochs
  /\ failed \in SUBSET Epochs

Init ==
  /\ phase = "idle" /\ latest = 0 /\ epoch = 0 /\ responseID = 0
  /\ hasFrames = FALSE /\ pending = NoEvent /\ looked = FALSE
  /\ commands = <<>> /\ urgent = <<>> /\ events = <<>>
  /\ stopped = FALSE /\ done = FALSE /\ waiting = {}
  /\ job = 0 /\ provider = <<>> /\ providerClosed = FALSE
  /\ closed = {} /\ failed = {}

-----------------------------------------------------------------------------
(* Actor.send: enqueue, then wait for the result, the context or done.     *)

Send(c, op, e) ==
  LET cmd == [caller |-> c, op |-> op, epoch |-> e, live |-> TRUE]
  IN /\ c \notin waiting
     /\ waiting' = waiting \cup {c}
     /\ IF op = "cancel"
        THEN /\ Len(urgent) < UrgentCap
             /\ urgent' = Append(urgent, cmd)
             /\ UNCHANGED commands
        ELSE /\ Len(commands) < CommandCap
             /\ commands' = Append(commands, cmd)
             /\ UNCHANGED urgent
     /\ UNCHANGED <<actorState, looked, events, stopped, done, providerVars, history>>

\* The caller's context ends: it returns, its command stays queued.
Abandon(q, c) == [i \in DOMAIN q |-> IF q[i].caller = c
                                     THEN [q[i] EXCEPT !.live = FALSE] ELSE q[i]]

GiveUp(c) ==
  /\ c \in waiting
  /\ waiting' = waiting \ {c}
  /\ commands' = Abandon(commands, c)
  /\ urgent' = Abandon(urgent, c)
  /\ UNCHANGED <<actorState, looked, events, stopped, done, providerVars, history>>

\* case <-a.done: return ErrClosed
SendClosed(c) ==
  /\ done /\ c \in waiting
  /\ waiting' = waiting \ {c}
  /\ UNCHANGED <<actorState, looked, channels, stopped, done, providerVars, history>>

\* cmd.result <- err: the caller returns unless it gave up before.
Reply(cmd) == waiting' = IF cmd.live THEN waiting \ {cmd.caller} ELSE waiting

-----------------------------------------------------------------------------
(* Actor.apply. Each operation is one action over a command that run has   *)
(* just taken; an operation that returns an error leaves actorState alone. *)

Stale(e) == e < epoch \/ (phase = "idle" /\ e <= latest)

Rejected == UNCHANGED <<actorState, providerVars, history>>

MutStartReuse(e) ==
  IF phase = "idle" /\ e >= latest
  THEN /\ phase' = "listening" /\ latest' = e /\ epoch' = e
       /\ responseID' = 0 /\ hasFrames' = FALSE
       /\ UNCHANGED <<pending, providerVars, history>>
  ELSE Rejected

StartTurn(e) ==
  IF phase = "idle" /\ e > latest
  THEN /\ phase' = "listening" /\ latest' = e /\ epoch' = e
       /\ responseID' = 0 /\ hasFrames' = FALSE
       /\ UNCHANGED <<pending, providerVars, history>>
  ELSE Rejected

\* provider.SendAudio may refuse: queue full, response still running, closed.
AppendPCM(e) ==
  \/ /\ ~Stale(e) /\ phase = "listening" /\ e = epoch
     /\ ~providerClosed
     /\ hasFrames' = TRUE
     /\ UNCHANGED <<phase, latest, epoch, responseID, pending, providerVars, history>>
  \/ Rejected

CanCommit(e) == ~Stale(e) /\ phase = "listening" /\ e = epoch /\ hasFrames

\* provider.Commit refuses while a response is running.
MutCommitEarly(e) ==
  IF CanCommit(e)
  THEN /\ phase' = "thinking"
       /\ job' \in {job, e}
       /\ UNCHANGED <<latest, epoch, responseID, hasFrames, pending,
                      provider, providerClosed, history>>
  ELSE Rejected

Commit(e) ==
  \/ /\ CanCommit(e) /\ job = 0 /\ ~providerClosed
     /\ job' = e
     /\ phase' = "thinking"
     /\ UNCHANGED <<latest, epoch, responseID, hasFrames, pending,
                    provider, providerClosed, history>>
  \/ Rejected

MutCancelNoDrain(e) ==
  /\ job' = 0
  /\ pending' = IF pending.epoch = epoch THEN NoEvent ELSE pending
  /\ phase' = "idle" /\ epoch' = 0 /\ responseID' = 0 /\ hasFrames' = FALSE
  /\ closed' = closed \cup {e}
  /\ UNCHANGED <<latest, provider, providerClosed, failed>>

MutCancelKeepsPending(e) ==
  /\ job' = 0
  /\ provider' = <<>>
  /\ phase' = "idle" /\ epoch' = 0 /\ responseID' = 0 /\ hasFrames' = FALSE
  /\ closed' = closed \cup {e}
  /\ UNCHANGED <<latest, pending, providerClosed, failed>>

\* provider.Cancel fences the response; drainProviderEvents empties the channel.
CancelActive(e) ==
  /\ job' = 0
  /\ provider' = <<>>
  /\ pending' = IF pending.epoch = epoch THEN NoEvent ELSE pending
  /\ phase' = "idle" /\ epoch' = 0 /\ responseID' = 0 /\ hasFrames' = FALSE
  /\ closed' = closed \cup {e}
  /\ UNCHANGED <<latest, providerClosed, failed>>

\* A Cancel that fails (timeout, provider gone), or a DiscardLastResponse that
\* fails after it, may have fenced the response already; apply returns before
\* it drains or leaves the phase.
CancelFailed(e) ==
  /\ job' \in {job, 0}
  /\ failed' = failed \cup {e}
  /\ UNCHANGED <<actorState, provider, providerClosed, closed>>

\* In idle the only effect of a cancel is DiscardLastResponse, which changes
\* the provider's conversation history and nothing here.
Cancel(e) ==
  \/ /\ phase = "idle"
     /\ Rejected
  \/ /\ phase # "idle" /\ e # epoch
     /\ Rejected
  \/ /\ phase # "idle" /\ e = epoch
     /\ CancelActive(e) \/ CancelFailed(e)

Apply(cmd) ==
  /\ CASE cmd.op = "start"  -> StartTurn(cmd.epoch)
       [] cmd.op = "append" -> AppendPCM(cmd.epoch)
       [] cmd.op = "commit" -> Commit(cmd.epoch)
       [] cmd.op = "cancel" -> Cancel(cmd.epoch)
  /\ Reply(cmd)

-----------------------------------------------------------------------------
(* accept: what becomes of one provider event.                             *)

Accepting == phase \in {"thinking", "speaking"}

\* responseID is latched by the first event that carries one.
LatchedID(raw) == IF responseID = 0 THEN raw.id ELSE responseID
Foreign(raw) == raw.id # 0 /\ raw.id # LatchedID(raw)

Tagged(kind, raw) == [epoch |-> epoch, kind |-> kind, turn |-> raw.turn]

Accept(raw) ==
  \/ /\ ~Accepting
     /\ UNCHANGED <<phase, responseID, pending>>
  \/ /\ Accepting /\ raw.kind = "invalid"
     /\ phase' = "idle" /\ responseID' = 0
     /\ pending' = Tagged("error", raw)
  \/ /\ Accepting /\ raw.kind # "invalid" /\ Foreign(raw)
     /\ responseID' = LatchedID(raw)
     /\ UNCHANGED <<phase, pending>>
  \/ /\ Accepting /\ raw.kind # "invalid" /\ ~Foreign(raw)
     /\ pending' = Tagged(raw.kind, raw)
     /\ phase' = CASE raw.kind \in Terminal -> "idle"
                   [] raw.kind = "audio" -> "speaking"
                   [] OTHER -> phase
     /\ responseID' = IF raw.kind \in Terminal THEN 0 ELSE LatchedID(raw)

-----------------------------------------------------------------------------
(* Actor.run. looked is FALSE at the top of the loop, TRUE at the blocking *)
(* select. The select takes any branch that is ready.                      *)

MutLookNothing ==
  /\ ~done /\ ~looked
  /\ looked' = TRUE
  /\ UNCHANGED <<actorState, channels, stopped, done, waiting, providerVars, history>>

\* select { case cmd := <-a.urgent: ...; continue; default: }
LookUrgent ==
  /\ ~done /\ ~looked /\ urgent = <<>>
  /\ looked' = TRUE
  /\ UNCHANGED <<actorState, channels, stopped, done, waiting, providerVars, history>>

\* Either of the two receives from urgent.
TakeUrgent ==
  /\ ~done /\ urgent # <<>>
  /\ Apply(Head(urgent))
  /\ urgent' = Tail(urgent)
  /\ looked' = FALSE
  /\ UNCHANGED <<commands, events, stopped, done>>

\* A command whose context has ended is answered and not applied.
TakeCommand ==
  /\ ~done /\ looked /\ commands # <<>>
  /\ IF Head(commands).live THEN Apply(Head(commands))
     ELSE Rejected /\ Reply(Head(commands))
  /\ commands' = Tail(commands)
  /\ looked' = FALSE
  /\ UNCHANGED <<urgent, events, stopped, done>>

TakeProviderEvent ==
  /\ ~done /\ looked /\ pending = NoEvent /\ provider # <<>>
  /\ Accept(Head(provider))
  /\ provider' = Tail(provider)
  /\ looked' = FALSE
  /\ UNCHANGED <<latest, epoch, hasFrames, channels, stopped, done, waiting,
                 job, providerClosed, history>>

\* The history closed learns here that the epoch has its last event.
Deliver ==
  /\ ~done /\ looked /\ pending # NoEvent /\ Len(events) < EventCap
  /\ events' = Append(events, pending)
  /\ pending' = NoEvent
  /\ closed' = IF pending.kind \in Terminal THEN closed \cup {pending.epoch} ELSE closed
  /\ looked' = FALSE
  /\ UNCHANGED <<phase, latest, epoch, responseID, hasFrames, commands, urgent,
                 stopped, done, waiting, providerVars, failed>>

\* shutdown: cancel the active turn, close the provider, close both channels.
Shutdown ==
  /\ done' = TRUE /\ looked' = FALSE
  /\ job' = 0 /\ providerClosed' = TRUE
  /\ UNCHANGED <<actorState, commands, urgent, stopped, waiting, provider, failed>>

ContextDone ==
  /\ ~done /\ looked /\ stopped
  /\ Shutdown
  /\ UNCHANGED <<events, closed>>

\* The provider's channel is closed and empty: reportClosedStream does not
\* wait for room in events.
StreamClosed ==
  /\ ~done /\ looked /\ pending = NoEvent /\ provider = <<>> /\ providerClosed
  /\ IF phase # "idle" /\ Len(events) < EventCap
     THEN /\ events' = Append(events, [epoch |-> epoch, kind |-> "error", turn |-> epoch])
          /\ closed' = closed \cup {epoch}
     ELSE UNCHANGED <<events, closed>>
  /\ Shutdown

Run == \/ LookUrgent \/ TakeUrgent \/ TakeCommand \/ TakeProviderEvent
       \/ Deliver \/ ContextDone \/ StreamClosed

-----------------------------------------------------------------------------
(* The actor's surroundings.                                               *)

\* The consumer of Actor.Events (forwardEvents) takes one event.
Consume ==
  /\ events # <<>>
  /\ events' = Tail(events)
  /\ UNCHANGED <<actorState, looked, commands, urgent, stopped, done, waiting,
                 providerVars, history>>

\* Actor.Close, or the parent context ends.
Stop ==
  /\ ~stopped
  /\ stopped' = TRUE
  /\ UNCHANGED <<actorState, looked, channels, done, waiting, providerVars, history>>

\* The running response emits an event; an error carries no response id.
Emit(kind) ==
  /\ job # 0 /\ ~providerClosed /\ Len(provider) < ProviderCap
  /\ kind = "invalid" => Malformed
  /\ provider' = Append(provider, [kind |-> kind, turn |-> job,
                                   id |-> IF kind \in {"error", "invalid"} THEN 0 ELSE job])
  /\ job' = IF kind \in Terminal THEN 0 ELSE job
  /\ UNCHANGED <<actorState, looked, channels, stopped, done, waiting, providerClosed, history>>

\* The provider's connection fails: its event channel is closed.
ProviderFails ==
  /\ ~providerClosed
  /\ providerClosed' = TRUE /\ job' = 0
  /\ UNCHANGED <<actorState, looked, channels, stopped, done, waiting, provider, history>>

Environment ==
  \/ \E c \in Callers, op \in Ops, e \in Epochs : Send(c, op, e)
  \/ \E c \in Callers : GiveUp(c) \/ SendClosed(c)
  \/ Consume \/ Stop \/ ProviderFails
  \/ \E kind \in Kinds : Emit(kind)

Next == Run \/ Environment

Spec == Init /\ [][Next]_vars

(***************************************************************************)
(* Fairness. The actor's goroutine is scheduled (WF of Run); which ready   *)
(* branch its select takes is left to the adversary. A caller that is      *)
(* ready to see done does. Nothing is assumed of the consumer, of the      *)
(* provider or of the callers' contexts.                                   *)
(***************************************************************************)
FairSpec == Spec /\ WF_vars(Run) /\ \A c \in Callers : WF_vars(SendClosed(c))

-----------------------------------------------------------------------------
(* Properties.                                                             *)

\* Every event handed to the consumer was produced by the response of the
\* turn whose epoch it is tagged with, whatever was cancelled in between.
EpochIsolation ==
  /\ \A i \in DOMAIN events : events[i].turn = events[i].epoch
  /\ pending # NoEvent => pending.turn = pending.epoch

\* Once a turn was cancelled while active, or had its done or error, the
\* actor never hands out another event of that epoch.
NothingAfterEnd ==
  [][Len(events') > Len(events) => events'[Len(events')].epoch \notin closed]_vars

\* A turn that waits for its answer has a response running for it, or its
\* last event still in the provider's channel, or a closed channel that will
\* be reported: the actor never waits for an answer that nobody will send,
\* except after a cancel that the provider failed (the handler then ends the
\* session).
AnswerToCome ==
  Accepting /\ epoch \notin failed =>
    \/ done \/ job = epoch \/ providerClosed
    \/ \E i \in DOMAIN provider : provider[i].kind \in Terminal

\* "A malformed provider event retires only that turn; a new epoch remains
\* usable" (session_test.go:277): a later turn is never ended by a done or an
\* error of another turn's response. accept retires the turn of a malformed
\* event (session.go:335-338) and leaves the rest of its response to come.
\* Cancels that the provider failed are left out: they end the session.
RetiresOnlyThatTurn ==
  failed = {} =>
    \A i \in DOMAIN events :
      events[i].kind \in Terminal => events[i].turn = events[i].epoch

\* Barge-in priority: a Cancel is answered although the consumer of the
\* events is stuck, other callers keep the command channel busy, and the
\* select prefers every other branch.
CancelAnswered ==
  \A c \in Callers :
     (\E i \in DOMAIN urgent : urgent[i].caller = c /\ urgent[i].live)
       ~> (c \notin waiting)

-----------------------------------------------------------------------------
(* The actor implements TurnSession: the abstract stream is the output     *)
(* channel followed by the pending event, thinking and speaking are one    *)
(* phase, and the channels, the waiting callers and the provider are       *)
(* hidden.                                                                 *)
Undelivered ==
  [i \in 1..(Len(events) + IF pending = NoEvent THEN 0 ELSE 1) |->
     LET ev == IF i <= Len(events) THEN events[i] ELSE pending
     IN [epoch |-> ev.epoch, item |-> ev.kind]]

Abstract == INSTANCE TurnSession WITH
  Items <- Kinds \ {"invalid"}, LastItems <- Terminal, LossItem <- "error",
  phase <- IF Accepting THEN "answering" ELSE phase,
  out <- Undelivered, closed <- done

\* The actor, with its two channels, waiting callers, pending event and a
\* provider that may fail or misbehave, shows its consumer nothing that an
\* atomic turn session could not show.
ImplementsTurnSession == Abstract!Spec
=============================================================================
