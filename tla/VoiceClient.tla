---------------------------- MODULE VoiceClient ----------------------------
(***************************************************************************)
(* The application actor of the client                                     *)
(* (client/src/application/voice_client.cpp): one thread that takes a      *)
(* 20 ms capture frame per turn of its loop, drains the events of the      *)
(* transport, polls the touch screen and looks at its deadlines.           *)
(*                                                                         *)
(* Between any two of its calls into the transport the ASIO thread may     *)
(* deliver a message, so a handler that sends twice is cut there: at names *)
(* the next call. The loop's stages are taken in any order; a frame taken  *)
(* before the events were drained and used after is then one more order.   *)
(* Deadlines may pass at any time. A frame is named by what the state it   *)
(* meets reads from it; BargeIn has the frames of a barge-in one by one.   *)
(* Subtitles, hints, volume and brightness are left out, and so are the    *)
(* listener resets, which AudioEngine has.                                 *)
(***************************************************************************)
EXTENDS VoiceTransport

CONSTANT PreRoll  \* frames the pre-roll holds (kBargeBufferFrames, 67 against 3000)

ASSUME ClientAssumption == PreRoll \in Nat \ {0} /\ PreRoll < MaxFrames

States == {"WaitingForWake", "WaitingForSpeech", "CapturingSpeech", "WaitingForResponse",
           "PlayingResponse", "CancelPending", "DrainingPlayback", "WaitingForFollowUp"}

\* gap: the capture sequence broke. follow: the last near frame a follow-up
\* needs. barge: the last frame of a barge-in's verification. full: a frame
\* that finds no room in the barge-in buffer.
Frames == {"plain", "gap", "wake", "started", "ended", "follow", "barge", "full"}

VARIABLES
  cl,       \* the members of VoiceClient
  playback, \* AudioEngine's playback: "dropping" until its thread has let go
  running   \* Run has not returned

client == <<cl, playback, running>>

NewClient ==
  [state |-> "WaitingForWake", epoch |-> 0, response |-> 0, pre |-> 0, up |-> 0,
   at |-> "loop", hello_sent |-> FALSE, wake |-> FALSE, finish |-> FALSE,
   admitted |-> FALSE, ended |-> FALSE, full |-> FALSE]

ClientTypeOK ==
  /\ cl \in [state : States, epoch : 0..(MaxEpoch + 1), response : 0..MaxEpoch,
             pre : 0..PreRoll, up : 0..MaxFrames, at : {"loop", "preroll", "final", "commit"},
             hello_sent : BOOLEAN, wake : BOOLEAN, finish : BOOLEAN,
             admitted : BOOLEAN, ended : BOOLEAN, full : BOOLEAN]
  /\ playback \in {"idle", "active", "ending", "dropping", "failed"}
  /\ running \in BOOLEAN

ClientInit == cl = NewClient /\ playback = "idle" /\ running = TRUE

Dropped == IF playback \in {"active", "ending"} THEN "dropping" ELSE playback
DropPlayback == playback' = Dropped

Loop == running /\ cl.at = "loop"
Session == cl.epoch # 0

-----------------------------------------------------------------------------
(* What the handlers do. Each of them sets tr, c2s, cut, cl and playback;  *)
(* Leaving then says what is left of the queues.                           *)

Leaving(rest) ==
  IF tr'.conn = "none"
  THEN s2c' = <<>> /\ events' = <<>> /\ overflow' = FALSE
  ELSE events' = rest /\ UNCHANGED <<s2c, overflow>>

\* Transport, events, audio and turn go together; nothing is resumed.
LoseConnection ==
  /\ tr' = NoTransport /\ c2s' = <<>> /\ cut' = {}
  /\ cl' = NewClient
  /\ DropPlayback

Locally == UNCHANGED <<tr, c2s, cut>>

ResetBargeTurn(c) == [c EXCEPT !.admitted = FALSE, !.ended = FALSE, !.full = FALSE]
AdvanceTurn(c) == [c EXCEPT !.epoch = @ + 1, !.response = 0]
FollowUp(c) ==
  [AdvanceTurn(ResetBargeTurn(c)) EXCEPT !.state = "WaitingForFollowUp", !.finish = FALSE]

\* FinishTurn; an abnormal end also drops the playback.
FinishTurn(c, normal) ==
  /\ cl' = FollowUp(c)
  /\ IF normal THEN UNCHANGED playback ELSE DropPlayback
  /\ Locally

CancelPending(c) == [c EXCEPT !.state = "CancelPending"]
MayCancel(c) == IF c.response # 0 THEN MayResponseCancel(c.response) ELSE MayTurnCancel(c.epoch)

MutAbortCurrent(c) ==
  IF MayCancel(c)
  THEN /\ SendCancel(c.epoch)
       /\ cl' = CancelPending([ResetBargeTurn(c) EXCEPT !.finish = TRUE])
       /\ UNCHANGED playback
  ELSE LoseConnection

\* AbortCurrent: the answer's cancel when its start has been seen, else the
\* turn's. A refusal costs the connection.
AbortCurrent(c) ==
  IF MayCancel(c)
  THEN /\ SendCancel(c.epoch)
       /\ cl' = CancelPending([ResetBargeTurn(c) EXCEPT !.finish = TRUE])
       /\ DropPlayback
  ELSE LoseConnection

\* StartTurn up to its first frame; without pre-roll that is all of it. An
\* utterance that ended before the turn began is all pre-roll.
StartTurn(c, ended, left) ==
  IF MayTurnStart(c.epoch) /\ (c.pre # 0 \/ ~ended)
  THEN /\ SendTurnStart(c.epoch)
       /\ cl' = [c EXCEPT !.state = "CapturingSpeech", !.up = 0,
                          !.at = IF c.pre = 0 THEN "loop"
                                 ELSE IF ended THEN "final" ELSE "preroll"]
       /\ playback' = left
       /\ UNCHANGED cut
  ELSE LoseConnection

Admitted(c) == [c EXCEPT !.admitted = FALSE, !.ended = FALSE, !.finish = FALSE]

\* ResumeAfterBarge: the confirmed utterance becomes the next turn.
ResumeAfterBarge(c) == StartTurn(AdvanceTurn(Admitted(c)), c.ended, Dropped)

CompleteCancel(c) ==
  IF c.finish THEN FinishTurn(c, FALSE)
  ELSE IF c.admitted /\ ~c.full THEN ResumeAfterBarge(c)
  ELSE FinishTurn([c EXCEPT !.pre = 0], FALSE)

\* SendAudioOrRecover: backpressure costs the turn, a refusal the connection.
SendAudioOrRecover(c, end, then) ==
  LET outcome == PcmOutcome(c.epoch, c.up)
  IN \/ /\ outcome = "ok"
        /\ SendPcm(c.epoch, c.up, end)
        /\ cl' = [then EXCEPT !.up = @ + 1]
        /\ UNCHANGED <<playback, cut>>
     \/ outcome = "backpressure" /\ AbortCurrent([c EXCEPT !.at = "loop"])
     \/ outcome = "rejected" /\ LoseConnection

-----------------------------------------------------------------------------
(* The connection: StartConnect, FinishConnect, and what ends it.          *)

StartConnect ==
  /\ Loop /\ tr.conn = "none"
  /\ tr' = [NoTransport EXCEPT !.conn = "opening"]
  /\ UNCHANGED <<c2s, s2c, events, overflow, cut, client>>

FinishConnect ==
  /\ Loop /\ tr.conn = "open" /\ ~cl.hello_sent
  /\ MayHello /\ SendHello
  /\ cl' = [cl EXCEPT !.hello_sent = TRUE]
  /\ UNCHANGED <<s2c, events, overflow, cut, playback, running>>

Lose == LoseConnection /\ Leaving(<<>>) /\ UNCHANGED running

\* Also the deadlines of connect, hello and heartbeat.
EventsOverflowed == Loop /\ overflow /\ Lose
ConnectTimeout == Loop /\ ~Session /\ tr.conn # "none" /\ Lose
HeartbeatTimeout == Loop /\ Session /\ Lose

-----------------------------------------------------------------------------
(* HandleEvent, one event a step. The loop drops the connection once the   *)
(* queue has overflowed: it never gets to an event behind the lost one.    *)

Pending == cl.state = "CancelPending"

OnErrorEvent(e) ==
  IF e.type = "transport" \/ ~Session \/ e.id = 0 THEN LoseConnection
  ELSE IF e.type = "gap"
       THEN IF Pending THEN UNCHANGED <<cl, playback>> /\ Locally ELSE AbortCurrent(cl)
  ELSE IF Pending THEN CompleteCancel(cl)
  ELSE FinishTurn(cl, FALSE)

HelloAck ==
  /\ cl' = [cl EXCEPT !.epoch = 1, !.pre = 0]
  /\ UNCHANGED playback /\ Locally

ResponseStart(e) ==
  /\ cl' = [cl EXCEPT !.response = e.id]
  /\ UNCHANGED playback /\ Locally

\* BeginPlayback fails while the last playback has not let go.
AudioStart ==
  IF playback \in {"idle", "failed"}
  THEN /\ playback' = "active"
       /\ cl' = [cl EXCEPT !.state = "PlayingResponse"]
       /\ Locally
  ELSE LoseConnection

\* The packet is refused when the ring is full or the playback is over.
PlayPcm ==
  \/ playback = "active" /\ UNCHANGED <<cl, playback>> /\ Locally
  \/ AbortCurrent(cl)

\* EndPlayback, when a playback is active; a dropped one may be ending.
DoneEvent ==
  \/ /\ playback' = IF playback = "active" THEN "ending" ELSE playback
     /\ cl' = [cl EXCEPT !.state = "DrainingPlayback"]
     /\ Locally
  \/ playback = "dropping" /\ LoseConnection

\* While a cancel is pending only its end counts.
OnEvent(e) ==
  IF Pending /\ e.type # "cancelled" THEN UNCHANGED <<cl, playback>> /\ Locally
  ELSE CASE e.type = "hello.ack"      -> HelloAck
         [] e.type = "response.start" -> ResponseStart(e)
         [] e.type = "audio_start"    -> AudioStart
         [] e.type = "pcm"            -> PlayPcm
         [] e.type = "done"           -> DoneEvent
         [] e.type = "cancelled"      ->
              IF Pending THEN CompleteCancel(cl) ELSE FinishTurn(cl, FALSE)

HandleEvent ==
  LET e == Head(events)
  IN /\ Loop /\ events # <<>> /\ ~overflow
     /\ IF e.type \in {"transport", "error", "gap"} THEN OnErrorEvent(e) ELSE OnEvent(e)
     /\ Leaving(Tail(events))
     /\ UNCHANGED running

-----------------------------------------------------------------------------
(* PollUi and AdvanceDeadlines.                                            *)

Step(handler) == Loop /\ handler /\ Leaving(events) /\ UNCHANGED running

TouchWake ==
  /\ cl.state = "WaitingForWake" /\ Session
  /\ cl' = [cl EXCEPT !.wake = TRUE]
  /\ UNCHANGED playback /\ Locally

TouchInterrupt ==
  /\ cl.state \in {"PlayingResponse", "DrainingPlayback"}
  /\ AbortCurrent(cl)

\* playback_done with playback_failed: Run returns.
DrainEnds ==
  /\ Loop /\ Session /\ cl.state = "DrainingPlayback" /\ playback \in {"idle", "failed"}
  /\ IF playback = "failed"
     THEN running' = FALSE /\ UNCHANGED <<transport, cl, playback>>
     ELSE FinishTurn(cl, TRUE) /\ Leaving(events) /\ UNCHANGED running

NobodySpeaks ==
  /\ Session /\ cl.state \in {"WaitingForSpeech", "WaitingForFollowUp"}
  /\ cl' = [cl EXCEPT !.state = "WaitingForWake", !.pre = 0]
  /\ UNCHANGED playback /\ Locally

CancelTimeout == Session /\ Pending /\ LoseConnection

\* The turn's, the answer's or the drain's deadline.
TurnTimeout ==
  /\ Session
  /\ cl.state \in {"CapturingSpeech", "WaitingForResponse", "PlayingResponse",
                   "DrainingPlayback"}
  /\ AbortCurrent(cl)

-----------------------------------------------------------------------------
(* OnFrame, and the sends of StartTurn and Commit that follow it.          *)

\* A broken capture sequence.
Discontinuity ==
  LET c == [cl EXCEPT !.pre = 0]
  IN CASE Pending -> /\ cl' = [ResetBargeTurn(c) EXCEPT !.finish = TRUE]
                     /\ UNCHANGED playback /\ Locally
       [] cl.state \in {"CapturingSpeech", "WaitingForResponse", "PlayingResponse",
                        "DrainingPlayback"} -> AbortCurrent(c)
       [] OTHER -> /\ cl' = [c EXCEPT !.state = "WaitingForWake"]
                   /\ DropPlayback /\ Locally

\* SavePreRoll: not while capturing, and no more of an utterance that ended.
Saved ==
  IF cl.state = "CapturingSpeech" \/ (Pending /\ cl.ended) \/ cl.pre = PreRoll THEN cl
  ELSE [cl EXCEPT !.pre = @ + 1]

Becomes(c) == cl' = c /\ UNCHANGED playback /\ Locally

AwaitWake(frame) ==
  IF Saved.wake \/ frame = "wake"
  THEN Becomes([Saved EXCEPT !.state = "WaitingForSpeech", !.wake = FALSE])
  ELSE Becomes(Saved)

AwaitSpeech(starts) ==
  IF starts THEN StartTurn(Saved, FALSE, playback) ELSE Becomes(Saved)

\* The last frame allowed, or the end of speech, also commits.
Capture(frame) ==
  LET c == [cl EXCEPT !.ended = FALSE]
  IN IF cl.up + 1 >= MaxFrames \/ cl.ended \/ frame = "ended"
     THEN SendAudioOrRecover(c, TRUE, [c EXCEPT !.at = "commit"])
     ELSE SendAudioOrRecover(cl, FALSE, cl)

ConfirmBarge(c) ==
  IF MayResponseCancel(c.response)
  THEN /\ SendCancel(c.epoch)
       /\ cl' = CancelPending([ResetBargeTurn(c) EXCEPT !.admitted = TRUE, !.finish = FALSE])
       /\ DropPlayback
  ELSE LoseConnection

\* TrackBargeUtterance, and SavePreRoll finding its buffer full.
AwaitCancelled(frame) ==
  Becomes([Saved EXCEPT !.ended = @ \/ frame = "ended",
                        !.full = @ \/ (frame = "full" /\ cl.admitted /\ ~cl.ended)])

OnFrame(frame) ==
  IF frame = "gap" THEN Discontinuity
  ELSE IF ~Session THEN Becomes(Saved)
  ELSE CASE cl.state = "WaitingForWake"     -> AwaitWake(frame)
         [] cl.state = "WaitingForSpeech"   -> AwaitSpeech(frame = "started")
         [] cl.state = "WaitingForFollowUp" -> AwaitSpeech(frame = "follow")
         [] cl.state = "CapturingSpeech"    -> Capture(frame)
         [] cl.state = "CancelPending"      -> AwaitCancelled(frame)
         [] cl.state \in {"PlayingResponse", "DrainingPlayback"} ->
              IF frame = "barge" THEN ConfirmBarge(Saved) ELSE Becomes(Saved)
         [] cl.state = "WaitingForResponse" -> Becomes(Saved)

\* The rest of StartTurn, one frame a step, and of Commit.
SendPreRoll ==
  LET last == cl.up + 1 = cl.pre
      final == cl.at = "final"
      sent == [cl EXCEPT !.pre = 0, !.at = IF final THEN "commit" ELSE "loop"]
  IN /\ running /\ cl.at \in {"preroll", "final"}
     /\ SendAudioOrRecover(cl, final /\ last, IF last THEN sent ELSE cl)
     /\ Leaving(events) /\ UNCHANGED running

SendTurnCommit ==
  /\ running /\ cl.at = "commit"
  /\ IF MayCommit(cl.epoch)
     THEN /\ SendCommit(cl.epoch)
          /\ cl' = [cl EXCEPT !.state = "WaitingForResponse", !.at = "loop"]
          /\ UNCHANGED <<playback, cut>>
     ELSE LoseConnection
  /\ Leaving(events) /\ UNCHANGED running

-----------------------------------------------------------------------------
\* The playback thread: it renders to the end, lets go of a dropped playback,
\* or fails.
PlaybackEnds ==
  /\ running
  /\ \/ playback \in {"ending", "dropping"} /\ playback' = "idle"
     \/ playback \in {"active", "ending"} /\ playback' = "failed"
  /\ UNCHANGED <<transport, cl, running>>

Deadlines ==
  \/ EventsOverflowed \/ ConnectTimeout \/ HeartbeatTimeout
  \/ Step(CancelTimeout) \/ Step(TurnTimeout)

\* No turn beyond MaxEpoch is begun.
InScope ==
  IF cl.epoch > MaxEpoch THEN {} ELSE IF cl.epoch = MaxEpoch THEN Frames \ {"barge"} ELSE Frames

Application ==
  \/ StartConnect \/ FinishConnect \/ HandleEvent
  \/ Step(TouchWake) \/ Step(TouchInterrupt) \/ DrainEnds \/ Step(NobodySpeaks)
  \/ \E frame \in InScope : Step(OnFrame(frame))
  \/ SendPreRoll \/ SendTurnCommit
=============================================================================
