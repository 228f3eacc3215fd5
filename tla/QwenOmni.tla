------------------------------ MODULE QwenOmni ------------------------------
(***************************************************************************)
(* The provider session over one WebSocket to a multimodal model           *)
(* (server/internal/backend/qwen): Session with its writer and its reader, *)
(* and the adapter pendingSession in front of it, whose own goroutine      *)
(* opens the session and then hands its events on. The session actor calls *)
(* it from one goroutine and reads the events in the same one.             *)
(*                                                                         *)
(* A step is a lock section, a wait or a choice of a select. A batch is    *)
(* one message; an event, the turn it belongs to and whether it is the     *)
(* last one. Each turn commits at most once, so responsePublish, the       *)
(* channel that fences a response, is named by its turn. Response.created  *)
(* and the item of the answer are one message. The handshake succeeds or   *)
(* fails; after an error the actor's user closes the session.              *)
(***************************************************************************)
EXTENDS Naturals, Sequences, SequencesExt

CONSTANTS
  OmniTurns,  \* turns of a session (bound of the model)
  OmniPcm,    \* pieces of audio of one turn (bound of the model)
  OmniQueue,  \* config.QueueSize, of writes and of events
  OmniDeltas, \* deltas of one answer (bound of the model)
  OmniWire    \* messages on their way to the reader (bound of the model)

ASSUME OmniAssumption ==
  {OmniTurns, OmniPcm, OmniQueue, OmniDeltas, OmniWire} \subseteq Nat \ {0}

VARIABLES
  user,     \* the actor: where it is, its phase, its turn and what it latched
  pump,     \* pendingSession.run and the event it holds
  outbound, \* writes, urgentWrites and inputGeneration
  response, \* what responseMu protects
  writer,   \* where it is, and the batch it holds
  reader,   \* where it is, the message it holds and the fence it looks at
  inner,    \* Session.events
  alive,    \* the session's context has not ended
  model,    \* the provider: input buffer, running response, its conversation
  wire,     \* what it has sent
  trace     \* history, see below

omniVars == <<user, pump, outbound, response, writer, reader, inner, alive, model, wire, trace>>

OmniTurn == 1..OmniTurns
Kinds == {"append", "commit", "cancel", "clear", "delete"}
Batch == [kind : Kinds, turn : OmniTurn, gen : 0..OmniTurns, size : 0..OmniPcm]
Signal == [kind : {"item", "delta", "done", "failed", "error"}, turn : OmniTurn, item : BOOLEAN]
Output == [turn : OmniTurn, last : BOOLEAN, error : BOOLEAN]
IsLast(kind) == kind \in {"done", "failed", "error"}
AtMostOne(S) == {<<>>} \cup {<<x>> : x \in S}

OmniTypeOK ==
  /\ user \in [at : {"rest", "rejected", "clear", "cancel", "wait", "discard", "drain",
                     "closing", "closed"},
               phase : {"idle", "listening", "answering"}, turn : 0..OmniTurns,
               sent : 0..OmniPcm, latch : 0..OmniTurns]
  /\ pump \in [at : {"opening", "run", "closing", "ended"}, open : BOOLEAN,
               held : AtMostOne(Output)]
  /\ outbound \in [writes : Seq(Batch), urgent : AtMostOne(Batch), gen : 0..OmniTurns]
  /\ Len(outbound.writes) <= OmniQueue
  /\ response \in [requested : BOOLEAN, gate : 0..OmniTurns, canceled : BOOLEAN,
                   wait : {"none", "waiting", "ok", "error"}, item : 0..OmniTurns]
  /\ writer \in [at : {"look", "select", "write", "ended"}, held : AtMostOne(Batch)]
  /\ reader \in [at : {"read", "publish", "finish", "ended"}, held : AtMostOne(Signal),
                 gate : 0..OmniTurns]
  /\ inner \in Seq(Output) /\ Len(inner) <= OmniQueue
  /\ alive \in BOOLEAN
  /\ model \in [input : Seq(OmniTurn), running : 0..OmniTurns, said : 0..(OmniDeltas + 1),
                kept : SUBSET OmniTurn]
  /\ wire \in Seq(Signal)
  /\ trace \in [cut : SUBSET OmniTurn, left : BOOLEAN, complained : BOOLEAN,
                overtaken : BOOLEAN, mistaken : BOOLEAN, mixed : BOOLEAN, haunted : BOOLEAN, foreign : BOOLEAN]

FreshModel == [input |-> <<>>, running |-> 0, said |-> 0, kept |-> {}]

\* trace: the turns whose Cancel or Discard has returned; whether a drain has
\* left events behind, the model has refused a request, a batch has been taken
\* past an urgent clear, and the Cancel of a turn that is still being heard has
\* found the response of the one before; and what the properties forbid.
OmniInit ==
  /\ user = [at |-> "rest", phase |-> "idle", turn |-> 0, sent |-> 0, latch |-> 0]
  /\ pump = [at |-> "opening", open |-> FALSE, held |-> <<>>]
  /\ outbound = [writes |-> <<>>, urgent |-> <<>>, gen |-> 0]
  /\ response = [requested |-> FALSE, gate |-> 0, canceled |-> FALSE, wait |-> "none", item |-> 0]
  /\ writer = [at |-> "look", held |-> <<>>]
  /\ reader = [at |-> "read", held |-> <<>>, gate |-> 0]
  /\ inner = <<>> /\ alive = TRUE /\ wire = <<>> /\ model = FreshModel
  /\ trace = [cut |-> {}, left |-> FALSE, complained |-> FALSE, overtaken |-> FALSE,
              mistaken |-> FALSE, mixed |-> FALSE, haunted |-> FALSE, foreign |-> FALSE]

Session == <<writer, reader, inner, alive, model, wire>>
\* The socket is closed, and the provider forgets the session.
HangUp == alive' = FALSE /\ wire' = <<>> /\ model' = FreshModel

UserAt(place) == user.at = place
UserGoes(place) == user' = [user EXCEPT !.at = place]
HasRoom == Len(outbound.writes) < OmniQueue

\* The session is there and takes a batch.
Accepts == pump.open /\ alive /\ HasRoom
BatchOf(kind, turn) == [kind |-> kind, turn |-> turn, gen |-> outbound.gen, size |-> user.sent]
Enqueue(batch) == outbound' = [outbound EXCEPT !.writes = Append(@, batch)]

-----------------------------------------------------------------------------
(* The session actor's calls.                                              *)

OmniStartTurn ==
  /\ UserAt("rest") /\ user.phase = "idle" /\ user.turn < OmniTurns
  /\ user' = [user EXCEPT !.phase = "listening", !.turn = @ + 1, !.sent = 0, !.latch = 0]
  /\ UNCHANGED <<pump, outbound, response, Session, trace>>

\* readySession waits for a session that is being opened, up to a limit.
OmniSendAudio ==
  /\ UserAt("rest") /\ user.phase = "listening" /\ user.sent < OmniPcm
  /\ \/ /\ Accepts
        /\ Enqueue(BatchOf("append", user.turn))
        /\ user' = [user EXCEPT !.sent = @ + 1]
     \/ ~Accepts /\ UserGoes("rejected") /\ UNCHANGED outbound
  /\ UNCHANGED <<pump, response, Session, trace>>

\* A Commit that finds no room has closed its fence again.
OmniCommit ==
  /\ UserAt("rest") /\ user.phase = "listening" /\ user.sent > 0
  /\ \/ /\ Accepts /\ ~response.requested
        /\ response' = [response EXCEPT !.requested = TRUE, !.gate = user.turn, !.canceled = FALSE]
        /\ Enqueue(BatchOf("commit", user.turn))
        /\ user' = [user EXCEPT !.phase = "answering"]
     \/ /\ ~Accepts \/ response.requested
        /\ UserGoes("rejected")
        /\ response' = IF response.requested THEN response
                       ELSE [response EXCEPT !.gate = 0, !.canceled = FALSE]
        /\ UNCHANGED outbound
  /\ UNCHANGED <<pump, Session, trace>>

Returned(turn) == trace' = [trace EXCEPT !.cut = @ \cup {turn}]

\* Cancel while the session is being opened has nothing to do.
CancelUnopened ==
  /\ user.at \in {"rest", "rejected"} /\ user.phase # "idle" /\ ~pump.open
  /\ UserGoes(IF pump.at = "opening" THEN "drain" ELSE "closing")
  /\ Returned(user.turn)
  /\ UNCHANGED <<pump, outbound, response, Session>>

\* No response: what has been heard of the turn is cleared, ahead of the queue.
CancelInput ==
  /\ user.at \in {"rest", "rejected"} /\ user.phase # "idle" /\ pump.open
  /\ ~response.requested
  /\ outbound' = [outbound EXCEPT !.gen = @ + 1]
  /\ UserGoes("clear")
  /\ UNCHANGED <<pump, response, Session, trace>>

EnqueueClear ==
  /\ UserAt("clear")
  /\ \/ /\ outbound.urgent = <<>>
        /\ outbound' = [outbound EXCEPT !.urgent = <<BatchOf("clear", user.turn)>>]
        /\ UserGoes(IF user.phase = "answering" THEN "discard" ELSE "drain")
        /\ Returned(user.turn)
     \/ ~alive /\ UserGoes("closing") /\ UNCHANGED <<outbound, trace>>
  /\ UNCHANGED <<pump, response, Session>>

TakenForResponse == trace' = [trace EXCEPT !.mistaken = @ \/ user.phase = "listening"]

MutCancelResponse ==
  /\ user.at \in {"rest", "rejected"} /\ user.phase # "idle" /\ pump.open
  /\ response.requested
  /\ response' = [response EXCEPT !.wait = "waiting"]
  /\ TakenForResponse
  /\ UserGoes("cancel")
  /\ UNCHANGED <<pump, outbound, Session>>

\* The fence is closed first: a reader that waits for room gets past it.
CancelResponse ==
  /\ user.at \in {"rest", "rejected"} /\ user.phase # "idle" /\ pump.open
  /\ response.requested
  /\ response' = [response EXCEPT !.wait = "waiting", !.canceled = TRUE]
  /\ TakenForResponse
  /\ UserGoes("cancel")
  /\ UNCHANGED <<pump, outbound, Session>>

EnqueueCancel ==
  /\ UserAt("cancel")
  /\ \/ alive /\ HasRoom /\ Enqueue(BatchOf("cancel", user.turn)) /\ UserGoes("wait")
     \/ ~alive /\ UserGoes("closing") /\ UNCHANGED outbound
  /\ UNCHANGED <<pump, response, Session, trace>>

MutCancelAnswered ==
  /\ UserAt("wait")
  /\ UserGoes(IF user.phase = "answering" THEN "discard" ELSE "drain")
  /\ Returned(user.turn)
  /\ response' = [response EXCEPT !.wait = "none"]
  /\ UNCHANGED <<pump, outbound, Session>>

\* Cancel returns when the response is over, and with its error, if it has one.
CancelAnswered ==
  /\ UserAt("wait")
  /\ \/ /\ response.wait = "ok"
        /\ UserGoes(IF user.phase = "answering" THEN "discard" ELSE "drain")
        /\ Returned(user.turn)
     \/ (response.wait = "error" \/ ~alive) /\ UserGoes("closing") /\ UNCHANGED trace
  /\ response' = [response EXCEPT !.wait = IF @ = "waiting" THEN @ ELSE "none"]
  /\ UNCHANGED <<pump, outbound, Session>>

CancelRunsOut ==
  /\ UserAt("wait") /\ response.wait = "waiting"
  /\ UserGoes("closing")
  /\ UNCHANGED <<pump, outbound, response, Session, trace>>

MutDiscardItem ==
  IF response.item = 0 THEN UNCHANGED <<outbound, response>>
  ELSE UNCHANGED outbound /\ response' = [response EXCEPT !.item = 0]

\* DiscardLastResponse deletes the newest answer, whichever turn it is of.
DiscardItem ==
  IF response.item = 0 THEN UNCHANGED <<outbound, response>>
  ELSE Enqueue(BatchOf("delete", response.item)) /\ response' = [response EXCEPT !.item = 0]

CanDiscard == response.item = 0 \/ (alive /\ HasRoom)

DiscardCancelled ==
  /\ UserAt("discard")
  /\ \/ CanDiscard /\ DiscardItem /\ UserGoes("drain")
     \/ ~CanDiscard /\ UserGoes("closing") /\ UNCHANGED <<outbound, response>>
  /\ UNCHANGED <<pump, Session, trace>>

\* The playback of an answer that is complete is cancelled.
DiscardCompleted ==
  /\ UserAt("rest") /\ user.phase = "idle" /\ pump.open
  /\ user.turn > 0 /\ user.turn \notin trace.cut /\ CanDiscard
  /\ DiscardItem
  /\ Returned(user.turn)
  /\ UNCHANGED <<user, pump, Session>>

\* The adapter's channel is unbuffered: only the event it holds is there.
DrainOne ==
  /\ UserAt("drain") /\ pump.held # <<>>
  /\ pump' = [pump EXCEPT !.held = <<>>]
  /\ UNCHANGED <<user, outbound, response, Session, trace>>

DrainEnds ==
  /\ UserAt("drain") /\ pump.held = <<>>
  /\ user' = [user EXCEPT !.at = "rest", !.phase = "idle", !.sent = 0, !.latch = 0]
  /\ trace' = [trace EXCEPT !.left = @ \/ inner # <<>>]
  /\ UNCHANGED <<pump, outbound, response, Session>>

\* accept: an answering turn latches the first response it hears of.
Hears(event) ==
  LET latch == IF user.latch = 0 /\ ~event.error THEN event.turn ELSE user.latch
      own == event.error \/ event.turn = latch
  IN IF user.phase # "answering" THEN UNCHANGED <<user, trace>>
     ELSE /\ user' = [user EXCEPT !.latch = latch,
                                  !.phase = IF own /\ event.last THEN "idle" ELSE @]
          /\ trace' = [trace EXCEPT !.foreign = @ \/ event.turn # user.turn]

Receives ==
  /\ UserAt("rest") /\ pump.held # <<>>
  /\ Hears(pump.held[1])
  /\ pump' = [pump EXCEPT !.held = <<>>]
  /\ UNCHANGED <<outbound, response, Session>>

\* The actor's parent closes it, or it sees the stream's end.
UserCloses ==
  /\ UserAt("rest") /\ user.phase = "idle"
  /\ UserGoes("closing")
  /\ UNCHANGED <<pump, outbound, response, Session, trace>>

UserClosed ==
  /\ UserAt("closing") /\ pump.at = "ended"
  /\ UserGoes("closed")
  /\ UNCHANGED <<pump, outbound, response, Session, trace>>

CallGoesOn ==
  EnqueueClear \/ EnqueueCancel \/ CancelAnswered \/ DiscardCancelled \/ DrainOne \/ DrainEnds
  \/ UserClosed

\* A turn that has taken another one's event is not followed further.
User ==
  /\ ~trace.foreign
  /\ \/ OmniStartTurn \/ OmniSendAudio \/ OmniCommit \/ CancelUnopened \/ CancelInput
     \/ CancelResponse \/ CancelRunsOut \/ DiscardCompleted \/ Receives \/ UserCloses
     \/ CallGoesOn

-----------------------------------------------------------------------------
(* pendingSession.run.                                                     *)

Opens ==
  /\ pump.at = "opening"
  /\ \/ pump' = [pump EXCEPT !.at = "run", !.open = TRUE]
     \/ pump' = [pump EXCEPT !.at = "ended"]
  /\ UNCHANGED <<user, outbound, response, Session, trace>>

HandsOn ==
  /\ pump.at = "run" /\ pump.held = <<>> /\ inner # <<>>
  /\ pump' = [pump EXCEPT !.held = <<Head(inner)>>]
  /\ inner' = Tail(inner)
  /\ UNCHANGED <<user, outbound, response, writer, reader, alive, model, wire, trace>>

Workers == {writer.at, reader.at}

\* It is told to stop, or the session's events are closed; it closes the session.
PumpStops ==
  /\ pump.at = "run"
  /\ UserAt("closing") \/ (Workers = {"ended"} /\ inner = <<>> /\ pump.held = <<>>)
  /\ pump' = [pump EXCEPT !.at = "closing", !.held = <<>>]
  /\ HangUp
  /\ UNCHANGED <<user, outbound, response, writer, reader, inner, trace>>

PumpEnded ==
  /\ pump.at = "closing" /\ Workers = {"ended"}
  /\ pump' = [pump EXCEPT !.at = "ended"]
  /\ UNCHANGED <<user, outbound, response, Session, trace>>

Pump == Opens \/ HandsOn \/ PumpStops \/ PumpEnded

-----------------------------------------------------------------------------
(* The model, as far as the session can tell. It answers one request at a  *)
(* time, cancels what runs, and may refuse a request it cannot serve.      *)

\* A message that ends an answer names its item, if there is one.
Tells(kind, turn) ==
  wire' = Append(wire, [kind |-> kind, turn |-> turn,
                        item |-> kind = "item" \/ (kind \in {"done", "failed"} /\ turn \in model.kept)])
Whole(batch) == [i \in 1..batch.size |-> batch.turn]

Refuses(turn) == Tells("error", turn) /\ trace' = [trace EXCEPT !.complained = TRUE]

Appended(batch) ==
  /\ model' = [model EXCEPT !.input = Append(@, batch.turn)]
  /\ UNCHANGED <<wire, trace>>

\* input_audio_buffer.commit and response.create.
Committed(batch) ==
  IF model.running # 0 \/ model.input = <<>>
  THEN model' = [model EXCEPT !.input = <<>>] /\ Refuses(batch.turn)
  ELSE /\ model' = [model EXCEPT !.input = <<>>, !.running = batch.turn, !.said = 0]
       /\ trace' = [trace EXCEPT !.mixed = @ \/ model.input # Whole(batch),
                                 !.haunted = @ \/ model.kept \cap trace.cut # {}]
       /\ UNCHANGED wire

Cancelled(batch) ==
  \/ /\ model.running # 0
     /\ model' = [model EXCEPT !.running = 0] /\ Tells("done", model.running)
     /\ UNCHANGED trace
  \/ model.running = 0 /\ UNCHANGED model /\ (Refuses(batch.turn) \/ UNCHANGED <<wire, trace>>)

Takes(batch) ==
  CASE batch.kind = "append" -> Appended(batch)
    [] batch.kind = "commit" -> Committed(batch)
    [] batch.kind = "cancel" -> Cancelled(batch)
    [] batch.kind = "clear" -> model' = [model EXCEPT !.input = <<>>] /\ UNCHANGED <<wire, trace>>
    [] batch.kind = "delete" -> model' = [model EXCEPT !.kept = @ \ {batch.turn}]
                                /\ UNCHANGED <<wire, trace>>

Answers ==
  /\ alive /\ model.running # 0 /\ Len(wire) < OmniWire
  /\ \/ /\ model.said = 0 /\ Tells("item", model.running)
        /\ model' = [model EXCEPT !.said = 1, !.kept = @ \cup {model.running}]
     \/ /\ model.said \in 1..OmniDeltas /\ Tells("delta", model.running)
        /\ model' = [model EXCEPT !.said = @ + 1]
     \/ /\ model.said > 0 /\ Tells("done", model.running)
        /\ model' = [model EXCEPT !.running = 0]
     \/ Tells("failed", model.running) /\ model' = [model EXCEPT !.running = 0]
  /\ UNCHANGED <<user, pump, outbound, response, writer, reader, inner, alive, trace>>

-----------------------------------------------------------------------------
(* finishResponse and fail.                                                *)

Finished(result) ==
  [response EXCEPT !.requested = FALSE, !.gate = 0, !.canceled = FALSE,
                   !.wait = IF @ = "waiting" THEN result ELSE @]

\* The socket broke: the session ends, and a Cancel that waits hears of it.
Fails ==
  /\ response' = Finished("error")
  /\ HangUp

-----------------------------------------------------------------------------
(* writer.                                                                 *)

WriterGoes(place, held) == writer' = [at |-> place, held |-> held]
TakeUrgent == WriterGoes("write", outbound.urgent) /\ outbound' = [outbound EXCEPT !.urgent = <<>>]

LookUrgentWrites ==
  /\ writer.at = "look"
  /\ IF outbound.urgent # <<>> THEN TakeUrgent
     ELSE WriterGoes("select", <<>>) /\ UNCHANGED outbound
  /\ UNCHANGED <<user, pump, response, reader, inner, alive, model, wire, trace>>

\* A clear that has come since the look competes with the batches behind it.
SelectWrites ==
  /\ writer.at = "select"
  /\ \/ ~alive /\ WriterGoes("ended", <<>>) /\ UNCHANGED <<outbound, trace>>
     \/ outbound.urgent # <<>> /\ TakeUrgent /\ UNCHANGED trace
     \/ /\ outbound.writes # <<>>
        /\ WriterGoes("write", <<Head(outbound.writes)>>)
        /\ outbound' = [outbound EXCEPT !.writes = Tail(@)]
        /\ trace' = [trace EXCEPT !.overtaken = @ \/ outbound.urgent # <<>>]
  /\ UNCHANGED <<user, pump, response, reader, inner, alive, model, wire>>

MutStaleInput(batch) == FALSE

\* Audio of a turn that has been cleared is not sent.
StaleInput(batch) == batch.kind = "append" /\ batch.gen # outbound.gen

WriteBatch ==
  /\ writer.at = "write" /\ alive
  /\ LET batch == writer.held[1]
     IN IF StaleInput(batch) THEN UNCHANGED <<model, wire, trace>> ELSE Takes(batch)
  /\ WriterGoes("look", <<>>)
  /\ UNCHANGED <<user, pump, outbound, response, reader, inner, alive>>

WriteFails ==
  /\ writer.at = "write"
  /\ IF alive THEN Fails ELSE UNCHANGED <<response, alive, model, wire>>
  /\ WriterGoes("ended", <<>>)
  /\ UNCHANGED <<user, pump, outbound, reader, inner, trace>>

WriterRuns == LookUrgentWrites \/ SelectWrites \/ WriteBatch \/ WriteFails

-----------------------------------------------------------------------------
(* reader and handleServerEvent.                                           *)

\* A fence never opens again: finishResponse closes it before it forgets it.
Fenced(gate) == gate # 0 /\ (response.gate # gate \/ response.canceled)

\* What follows a message that was published or fenced off.
AfterPublish(signal) ==
  reader' = [at |-> IF IsLast(signal.kind) THEN "finish" ELSE "read",
             held |-> IF IsLast(signal.kind) THEN <<signal>> ELSE <<>>, gate |-> 0]

ReadSignal ==
  /\ reader.at = "read" /\ alive /\ wire # <<>>
  /\ LET signal == Head(wire)
     IN /\ IF Fenced(response.gate) THEN AfterPublish(signal)
           ELSE reader' = [at |-> "publish", held |-> <<signal>>, gate |-> response.gate]
        /\ response' = IF signal.item THEN [response EXCEPT !.item = signal.turn] ELSE response
  /\ wire' = Tail(wire)
  /\ UNCHANGED <<user, pump, outbound, writer, inner, alive, model, trace>>

\* publish: room in the channel, the fence and the end of the session.
Publish ==
  /\ reader.at = "publish"
  /\ LET signal == reader.held[1]
     IN \/ /\ Len(inner) < OmniQueue
           /\ inner' = Append(inner, [turn |-> signal.turn, last |-> IsLast(signal.kind),
                                      error |-> signal.kind = "error"])
           /\ AfterPublish(signal)
        \/ Fenced(reader.gate) /\ AfterPublish(signal) /\ UNCHANGED inner
        \/ ~alive /\ reader' = [at |-> "ended", held |-> <<>>, gate |-> 0] /\ UNCHANGED inner
  /\ response' = IF reader'.at = "ended" THEN Finished("error") ELSE response
  /\ UNCHANGED <<user, pump, outbound, writer, alive, model, wire, trace>>

FinishResponse ==
  /\ reader.at = "finish"
  /\ response' = Finished(IF reader.held[1].kind = "done" THEN "ok" ELSE "error")
  /\ reader' = [at |-> "read", held |-> <<>>, gate |-> 0]
  /\ UNCHANGED <<user, pump, outbound, writer, inner, alive, model, wire, trace>>

ReadFails ==
  /\ reader.at = "read"
  /\ IF alive THEN Fails ELSE UNCHANGED <<response, alive, model, wire>>
  /\ reader' = [at |-> "ended", held |-> <<>>, gate |-> 0]
  /\ UNCHANGED <<user, pump, outbound, writer, inner, trace>>

ReaderRuns == ReadSignal \/ Publish \/ FinishResponse \/ ReadFails

OmniNext == User \/ Pump \/ Answers \/ WriterRuns \/ ReaderRuns

OmniSpec == OmniInit /\ [][OmniNext]_omniVars

\* The reader, as long as the socket does not break.
ReaderGoesOn == ReadSignal \/ Publish \/ FinishResponse \/ (~alive /\ ReadFails)

-----------------------------------------------------------------------------
(* Properties.                                                             *)

\* The model is asked about the audio of one turn, all of it and no other's,
\* however turns before it were cancelled; unless its first piece was taken
\* past the urgent clear of the last one (session.go 298-310), the Cancel of a
\* turn took the response before, which the reader had yet to end, for its own
\* and cleared nothing (174-185), or the model's complaint of an earlier turn
\* has ended its response while its commit waits.
HearsWholeTurn ==
  trace.mixed => trace.overtaken \/ trace.mistaken \/ trace.complained

\* An answer that was cancelled or discarded has left the conversation when
\* the next one is made (Cancel and DiscardLastResponse, session.go 169-223);
\* unless a complaint of the model has ended, for the session, a response that
\* goes on: the item comes after the turn has been cancelled as mere input.
CutAnswerForgotten == trace.haunted => trace.complained

\* A turn hears the events of its own response, unless the drain of the one
\* before, which looks into the adapter only, has left some behind
\* (pending_session.go 77-92), or the model has complained of a late cancel.
OwnAnswerOnly == trace.foreign => trace.left \/ trace.complained

\* A turn finds the session free to answer it, unless the reader is just about
\* to say that the last response is over (session.go 409-412).
FreeForNextTurn ==
  user.phase = "listening" /\ user.at = "rest" /\ response.requested => reader.at = "finish"

\* Once Cancel has returned, the session takes in nothing more of its response
\* (backend.go 41-43), unless a complaint of the model, which names no response,
\* has ended one that was still running.
CancelFences ==
  [][Len(inner') > Len(inner) /\ ~trace.complained => Last(inner').turn \notin trace.cut]_omniVars

\* What the model hears, remembers and answers is the turn's own.
OmniSound ==
  OmniTypeOK /\ HearsWholeTurn /\ CutAnswerForgotten /\ OwnAnswerOnly /\ FreeForNextTurn

\* Where Cancel and Close wait for the session's goroutines.
InCancel == user.at \in {"clear", "cancel", "wait"}
InClose == UserAt("closing")
=============================================================================
