---------------------------- MODULE QwenPipeline ----------------------------
(***************************************************************************)
(* One conversation session of the provider that chains speech             *)
(* recognition, reasoning and synthesis                                    *)
(* (server/internal/backend/qwenpipeline/pipeline.go). The session actor   *)
(* calls it from one goroutine; a committed turn runs in a goroutine of    *)
(* its own; a realtime recognition stream is prepared in a third one, so   *)
(* that the next turn finds it connected.                                  *)
(*                                                                         *)
(* Lock sections, waits and calls to the providers are single steps. The   *)
(* synthesis goroutine is joined before run goes on, and is part of it. A  *)
(* piece of audio is the turn it was spoken in, a message of the history   *)
(* is its role and its turn, an event its turn and whether it is the last  *)
(* one. A stream is the audio written to it.                               *)
(***************************************************************************)
EXTENDS Naturals, Sequences, FiniteSets, SequencesExt

CONSTANTS
  MaxTurn,   \* turns of a session (bound of the model)
  MaxPcm,    \* pieces of audio of one turn (bound of the model)
  MaxTurns,  \* config.MaxTurns, pairs the history keeps
  EventCap   \* config.QueueSize

ASSUME PipelineAssumption ==
  {MaxTurn, MaxPcm, MaxTurns, EventCap} \subseteq Nat \ {0}

Turns == 1..MaxTurn
Message == [role : {"user", "assistant"}, turn : Turns]
Event == [turn : Turns, last : BOOLEAN]
Audio == UNION {[1..n -> Turns] : n \in 0..MaxPcm}
NoStream == [open |-> FALSE, fed |-> <<>>]
FreshStream == [open |-> TRUE, fed |-> <<>>]
Stream == [open : BOOLEAN, fed : Audio]

VARIABLES
  caller,     \* where the actor's goroutine is inside a call, and its stream
  phase,      \* of the actor: "idle", "listening", "answering"
  turn,       \* the turn the actor is in, or was in last
  pcm, turnBatchOnly, asr, asrPreparing,
  history, lastResponseDiscardable, closed,
  activeDone, \* activeDone is set
  cancelled,  \* the context of the job is
  job,        \* run: where it is, its turn, audio, stream and history
  opener,     \* prepareRealtimeASR: "none", or "opening"
  events,
  dropped     \* history: turns whose answer the caller cancelled or discarded

vars == <<caller, phase, turn, pcm, turnBatchOnly, asr, asrPreparing, history,
          lastResponseDiscardable, closed, activeDone, cancelled, job, opener,
          events, dropped>>

NoJob == [at |-> "none", turn |-> 0, pcm |-> <<>>, asr |-> NoStream, history |-> <<>>]
AtRest == [at |-> "rest", asr |-> NoStream]

JobPlaces == {"none", "start", "realtime", "batch", "recognized", "answer", "store",
              "done", "confirm", "error", "clear"}

TypeOK ==
  /\ caller \in [at : {"rest", "append", "disable", "closeStream", "wait", "discard",
                       "discardLast", "drain", "closeSession", "join", "closed"},
                 asr : Stream]
  /\ phase \in {"idle", "listening", "answering"} /\ turn \in 0..MaxTurn
  /\ pcm \in Audio /\ turnBatchOnly \in BOOLEAN /\ asr \in Stream /\ asrPreparing \in BOOLEAN
  /\ history \in Seq(Message) /\ lastResponseDiscardable \in BOOLEAN /\ closed \in BOOLEAN
  /\ activeDone \in BOOLEAN /\ cancelled \in BOOLEAN
  /\ job \in [at : JobPlaces, turn : 0..MaxTurn, pcm : Audio, asr : Stream,
              history : Seq(Message)]
  /\ opener \in {"none", "opening"}
  /\ events \in Seq(Event) /\ Len(events) <= EventCap
  /\ dropped \in SUBSET Turns

\* Open launches the first preparation.
Init ==
  /\ caller = AtRest /\ phase = "idle" /\ turn = 0
  /\ pcm = <<>> /\ turnBatchOnly = FALSE /\ asr = NoStream /\ asrPreparing = TRUE
  /\ history = <<>> /\ lastResponseDiscardable = FALSE /\ closed = FALSE
  /\ activeDone = FALSE /\ cancelled = FALSE /\ job = NoJob /\ opener = "opening"
  /\ events = <<>> /\ dropped = {}

Input == <<pcm, turnBatchOnly, asr, asrPreparing, opener>>
Memory == <<history, lastResponseDiscardable>>
Job == <<activeDone, cancelled, job>>
Actor == <<caller, phase, turn, dropped>>

Goto(place, stream) == caller' = [at |-> place, asr |-> stream]
Launch == asrPreparing' = TRUE /\ opener' = "opening"

-----------------------------------------------------------------------------
(* The caller: the session actor's turn, and the calls it makes in it.     *)

AtCall(place) == caller.at = place

StartTurn ==
  /\ AtCall("rest") /\ phase = "idle" /\ turn < MaxTurn
  /\ phase' = "listening" /\ turn' = turn + 1
  /\ UNCHANGED <<caller, dropped, Input, Memory, closed, Job, events>>

\* SendAudio up to the unlock. It is refused while a response is active.
SendAudio ==
  /\ AtCall("rest") /\ phase = "listening" /\ Len(pcm) < MaxPcm
  /\ ~closed /\ ~activeDone
  /\ turnBatchOnly' = (turnBatchOnly \/ (pcm = <<>> /\ ~asr.open))
  /\ lastResponseDiscardable' = (lastResponseDiscardable /\ pcm # <<>>)
  /\ pcm' = Append(pcm, turn)
  /\ IF asr.open /\ ~turnBatchOnly THEN Goto("append", NoStream) ELSE UNCHANGED caller
  /\ UNCHANGED <<phase, turn, dropped, asr, asrPreparing, opener, history, closed, Job, events>>

\* stream.Append, outside the lock, succeeds or meets a full or ended writer.
AppendToStream ==
  /\ AtCall("append")
  /\ \/ asr' = [asr EXCEPT !.fed = Append(@, turn)] /\ caller' = AtRest
     \/ Goto("disable", NoStream) /\ UNCHANGED asr
  /\ UNCHANGED <<phase, turn, dropped, pcm, turnBatchOnly, asrPreparing, opener,
                 Memory, closed, Job, events>>

MutDisableRealtimeASR ==
  /\ AtCall("disable")
  /\ caller' = AtRest
  /\ UNCHANGED <<phase, turn, dropped, pcm, turnBatchOnly, asr, asrPreparing, opener,
                 Memory, closed, Job, events>>

\* The turn goes on without the stream, which is closed.
DisableRealtimeASR ==
  /\ AtCall("disable")
  /\ asr' = NoStream /\ turnBatchOnly' = TRUE
  /\ caller' = AtRest
  /\ UNCHANGED <<phase, turn, dropped, pcm, asrPreparing, opener, Memory, closed, Job, events>>

\* Commit hands the audio, and the stream that heard it, to a job.
Commit ==
  LET stream == IF turnBatchOnly THEN NoStream ELSE asr
      left == IF turnBatchOnly THEN asr ELSE NoStream
  IN /\ AtCall("rest") /\ phase = "listening" /\ ~closed /\ ~activeDone /\ pcm # <<>>
     /\ phase' = "answering"
     /\ job' = [at |-> "start", turn |-> turn, pcm |-> pcm, asr |-> stream, history |-> <<>>]
     /\ activeDone' = TRUE /\ cancelled' = FALSE
     /\ pcm' = <<>> /\ turnBatchOnly' = FALSE /\ asr' = left
     /\ IF ~stream.open /\ ~left.open /\ ~asrPreparing THEN Launch
        ELSE UNCHANGED <<asrPreparing, opener>>
     /\ UNCHANGED <<caller, turn, dropped, Memory, closed, events>>

\* clear(s.pcm) and turnBatchOnly = false.
ForgetInput == pcm' = <<>> /\ turnBatchOnly' = FALSE

\* Cancel up to the unlock: the input and the stream that heard it go.
Cancel ==
  LET stream == IF pcm # <<>> /\ ~turnBatchOnly THEN asr ELSE NoStream
  IN /\ AtCall("rest") /\ phase # "idle"
     /\ ForgetInput
     /\ asr' = IF stream.open THEN NoStream ELSE asr
     /\ IF stream.open /\ ~asrPreparing THEN Launch ELSE UNCHANGED <<asrPreparing, opener>>
     /\ IF pcm # <<>> THEN Goto("closeStream", stream)
        ELSE IF activeDone THEN Goto("wait", NoStream) ELSE Goto("discard", NoStream)
     /\ cancelled' = (cancelled \/ activeDone)
     /\ UNCHANGED <<phase, turn, dropped, Memory, closed, activeDone, job, events>>

\* Input excludes an active job: there is nothing to wait for.
CloseCancelledStream ==
  /\ AtCall("closeStream")
  /\ Goto("drain", NoStream)
  /\ UNCHANGED <<phase, turn, dropped, Input, Memory, closed, Job, events>>

MutCancelWait ==
  /\ AtCall("wait")
  /\ Goto("discard", NoStream)
  /\ UNCHANGED <<phase, turn, dropped, Input, Memory, closed, Job, events>>

\* Cancel waits until the job has closed done.
CancelWait ==
  /\ AtCall("wait") /\ job.at = "none"
  /\ Goto("discard", NoStream)
  /\ UNCHANGED <<phase, turn, dropped, Input, Memory, closed, Job, events>>

\* Cancel's own context ends first; the failure ends the session.
CancelTimesOut ==
  /\ AtCall("wait")
  /\ Goto("closeSession", NoStream)
  /\ UNCHANGED <<phase, turn, dropped, Input, Memory, closed, Job, events>>

LastIs(role, h) == h # <<>> /\ Last(h).role = role
\* discardCompletedResponseIfNeeded on the history h.
WithoutLastPair(h) ==
  IF ~LastIs("assistant", h) THEN h
  ELSE IF LastIs("user", Front(h)) THEN Front(Front(h)) ELSE Front(h)

DiscardCompletedResponse ==
  /\ history' = IF lastResponseDiscardable THEN WithoutLastPair(history) ELSE history
  /\ lastResponseDiscardable' = FALSE

\* At the end of Cancel; the actor calls DiscardLastResponse once more for a
\* response it had committed, which changes nothing further.
Discard ==
  /\ AtCall("discard")
  /\ DiscardCompletedResponse
  /\ Goto("drain", NoStream)
  /\ dropped' = IF phase = "answering" THEN dropped \cup {turn} ELSE dropped
  /\ UNCHANGED <<phase, turn, Input, closed, Job, events>>

\* The actor drains what the cancelled response left.
Drain ==
  /\ AtCall("drain")
  /\ events' = <<>> /\ phase' = "idle" /\ caller' = AtRest
  /\ UNCHANGED <<turn, dropped, Input, Memory, closed, Job>>

\* Barge-in after the last event: only DiscardLastResponse is called.
DiscardLastResponse ==
  /\ AtCall("rest") /\ phase = "idle" /\ turn # 0
  /\ DiscardCompletedResponse
  /\ dropped' = dropped \cup {turn}
  /\ UNCHANGED <<caller, phase, turn, Input, closed, Job, events>>

\* The actor reads an event; in idle and listening it is not its answer's.
TakeEvent ==
  /\ AtCall("rest") /\ events # <<>>
  /\ events' = Tail(events)
  /\ phase' = IF phase = "answering" /\ Head(events).last THEN "idle" ELSE phase
  /\ UNCHANGED <<caller, turn, dropped, Input, Memory, closed, Job>>

MutClose ==
  /\ AtCall("rest") \/ AtCall("closeSession")
  /\ closed' = TRUE
  /\ asr' = NoStream
  /\ Goto("join", NoStream)
  /\ UNCHANGED <<phase, turn, dropped, pcm, turnBatchOnly, asrPreparing, opener,
                 Memory, Job, events>>

\* Close: everything is cancelled under the lock, then joined.
Close ==
  /\ AtCall("rest") \/ AtCall("closeSession")
  /\ closed' = TRUE /\ cancelled' = TRUE
  /\ asr' = NoStream
  /\ Goto("join", NoStream)
  /\ UNCHANGED <<phase, turn, dropped, pcm, turnBatchOnly, asrPreparing, opener,
                 Memory, activeDone, job, events>>

\* The job's done and prepareWG; then the channel is closed.
Join ==
  /\ AtCall("join") /\ job.at = "none" /\ opener = "none"
  /\ Goto("closed", NoStream)
  /\ UNCHANGED <<phase, turn, dropped, Input, Memory, closed, Job, events>>

CallReturns ==
  \/ AppendToStream \/ DisableRealtimeASR \/ CloseCancelledStream \/ CancelWait
  \/ Discard \/ Drain \/ Join

Caller ==
  \/ StartTurn \/ SendAudio \/ Commit \/ Cancel \/ DiscardLastResponse \/ TakeEvent
  \/ Close \/ CancelTimesOut \/ CallReturns

-----------------------------------------------------------------------------
(* run. Its context ends with Cancel and with Close.                       *)

JobAt(place) == job.at = place
Continue(place) == job' = [job EXCEPT !.at = place]
JobOnly == <<Actor, Input, Memory, closed, activeDone, cancelled, events>>

MutEmitUnbounded(last, next) ==
  /\ events' = Append(events, [turn |-> job.turn, last |-> last])
  /\ Continue(next)

MutEmitDeaf(last, next) ==
  /\ Len(events) < EventCap
  /\ events' = Append(events, [turn |-> job.turn, last |-> last])
  /\ Continue(next)

\* emit waits for room; a cancelled context may win, and wins a full channel.
Emit(last, next) ==
  \/ /\ Len(events) < EventCap
     /\ events' = Append(events, [turn |-> job.turn, last |-> last])
     /\ Continue(next)
  \/ /\ cancelled
     /\ Continue("clear")
     /\ UNCHANGED events

EmitStarted ==
  /\ JobAt("start")
  /\ Emit(FALSE, IF job.asr.open THEN "realtime" ELSE "batch")
  /\ UNCHANGED <<Actor, Input, Memory, closed, activeDone, cancelled>>

\* stream.Commit returns, the stream is closed, its replacement is prepared.
\* A failure falls back to the batch path.
RealtimeASR ==
  /\ JobAt("realtime")
  /\ \E place \in {"recognized", IF cancelled THEN "clear" ELSE "batch"} :
       job' = [job EXCEPT !.at = place, !.asr = NoStream]
  /\ IF closed \/ asr.open \/ asrPreparing THEN UNCHANGED <<asrPreparing, opener>> ELSE Launch
  /\ UNCHANGED <<Actor, pcm, turnBatchOnly, asr, Memory, closed, activeDone, cancelled, events>>

\* http.transcribe; a cancelled job produces nothing any more.
BatchASR ==
  /\ JobAt("batch")
  /\ \E place \in (IF cancelled THEN {"clear"} ELSE {"recognized", "error"}) : Continue(place)
  /\ UNCHANGED JobOnly

\* boundedHistory. Only the newest 2 * MaxTurns messages, less the place of
\* an unanswered question; no answer without its question at the front; and
\* as much from the front as the token budget asks for, which may be any part.
Newest(h) ==
  LET room == 2 * MaxTurns - (IF LastIs("user", h) THEN 1 ELSE 0)
      keep == IF room < 2 THEN 1 ELSE room
  IN IF Len(h) > keep THEN SubSeq(h, Len(h) - keep + 1, Len(h)) ELSE h

FromQuestion(h) ==
  LET starts == {k \in DOMAIN h : k = Len(h) \/ h[k].role # "assistant"}
  IN IF h = <<>> THEN h ELSE SubSeq(h, CHOOSE k \in starts : \A j \in starts : k <= j, Len(h))

MutTokenTrims(h) == {SubSeq(h, k, Len(h)) : k \in DOMAIN h}

TokenTrims(h) ==
  LET pairAt(k) == k < Len(h) /\ h[k].role = "user" /\ h[k + 1].role = "assistant"
      goes[k \in 0..Len(h)] ==     \* the loop may have removed k messages
        \/ k = 0
        \/ k >= 1 /\ Len(h) > k /\ goes[k - 1] /\ ~pairAt(k)
        \/ k >= 2 /\ goes[k - 2] /\ pairAt(k - 1)
  IN {SubSeq(h, k + 1, Len(h)) : k \in {n \in 0..Len(h) : goes[n]}}

BoundedHistories(h) == TokenTrims(FromQuestion(Newest(h)))

\* handleClearConversation forgets everything before it confirms.
ClearConversation ==
  /\ JobAt("recognized")
  /\ history' = <<>> /\ lastResponseDiscardable' = FALSE
  /\ Continue("confirm")
  /\ UNCHANGED <<Actor, Input, closed, activeDone, cancelled, events>>

\* The reasoning request takes a copy of the history and the new question.
Ask ==
  /\ JobAt("recognized")
  /\ \E h \in BoundedHistories(Append(history, [role |-> "user", turn |-> job.turn])) :
       job' = [job EXCEPT !.at = "answer", !.history = h]
  /\ UNCHANGED JobOnly

\* Text and audio of the answer, or of the confirmation.
Answer ==
  /\ JobAt("answer") \/ JobAt("confirm")
  /\ Emit(FALSE, job.at)
  /\ UNCHANGED <<Actor, Input, Memory, closed, activeDone, cancelled>>

\* Both streams have ended, and synthesis was joined.
AnswerEnds ==
  /\ JobAt("answer") \/ JobAt("confirm")
  /\ \E place \in {IF JobAt("answer") THEN "store" ELSE "done",
                   IF cancelled THEN "clear" ELSE "error"} : Continue(place)
  /\ UNCHANGED JobOnly

MutStore ==
  /\ JobAt("store")
  /\ history' \in BoundedHistories(Append(job.history, [role |-> "assistant", turn |-> job.turn]))
  /\ Continue("done")
  /\ UNCHANGED <<Actor, Input, lastResponseDiscardable, closed, activeDone, cancelled, events>>

Store ==
  /\ JobAt("store")
  /\ history' \in BoundedHistories(Append(job.history, [role |-> "assistant", turn |-> job.turn]))
  /\ lastResponseDiscardable' = TRUE
  /\ Continue("done")
  /\ UNCHANGED <<Actor, Input, closed, activeDone, cancelled, events>>

EmitDone ==
  /\ JobAt("done")
  /\ Emit(TRUE, "clear")
  /\ UNCHANGED <<Actor, Input, Memory, closed, activeDone, cancelled>>

\* emitError says nothing once the context has ended.
EmitError ==
  /\ JobAt("error")
  /\ IF cancelled THEN Continue("clear") /\ UNCHANGED events ELSE Emit(TRUE, "clear")
  /\ UNCHANGED <<Actor, Input, Memory, closed, activeDone, cancelled>>

\* The deferred function: activeDone is cleared and done closed.
Clear ==
  /\ JobAt("clear")
  /\ activeDone' = FALSE
  /\ job' = NoJob
  /\ UNCHANGED <<Actor, Input, Memory, closed, cancelled, events>>

Run ==
  \/ EmitStarted \/ RealtimeASR \/ BatchASR \/ ClearConversation \/ Ask \/ Answer
  \/ AnswerEnds \/ Store \/ EmitDone \/ EmitError \/ Clear

-----------------------------------------------------------------------------
(* prepareRealtimeASR.                                                     *)

\* Connecting succeeds or fails; a stream nobody can use is closed.
PrepareRealtimeASR ==
  /\ opener = "opening"
  /\ opener' = "none" /\ asrPreparing' = FALSE
  /\ asr' \in {asr, IF closed \/ asr.open THEN asr ELSE FreshStream}
  /\ UNCHANGED <<Actor, pcm, turnBatchOnly, Memory, closed, Job, events>>

Next == Caller \/ Run \/ PrepareRealtimeASR

Spec == Init /\ [][Next]_vars

-----------------------------------------------------------------------------
(* Properties.                                                             *)

\* The history is a sequence of questions, each with its own answer, in the
\* order of the turns, however turns are cancelled, cleared or trimmed.
HistoryPaired ==
  /\ Len(history) % 2 = 0
  /\ \A i \in DOMAIN history :
       /\ (history[i].role = "user") = (i % 2 = 1)
       /\ i > 1 => IF i % 2 = 0 THEN history[i].turn = history[i - 1].turn
                   ELSE history[i].turn > history[i - 1].turn

\* An answer that was cancelled, while it was made or after its last event,
\* is never part of what the model is asked next.
DroppedAnswerForgotten ==
  \A i \in DOMAIN history : history[i].turn \notin dropped

\* The realtime stream of a turn has heard that turn from its first piece of
\* audio, and nothing else: never a cancelled turn's, never a turn's tail.
RealtimeHearsWholeTurn == job.asr.open => job.asr.fed = job.pcm

\* Once Cancel has returned, its response sends no further event
\* (backend.ConversationSession).
NothingAfterCancel ==
  [][Len(events') > Len(events) => Last(events').turn \notin dropped]_vars

\* Cancelling new input keeps the previous, completed response.
CancelledInputKeepsAnswer ==
  [][AtCall("discard") /\ phase = "listening" => history' = history]_vars

\* The history is pairs of questions and their answers, none of them dropped,
\* and what recognition has heard of a turn is that turn.
PipelineSound ==
  TypeOK /\ HistoryPaired /\ DroppedAnswerForgotten /\ RealtimeHearsWholeTurn
=============================================================================
