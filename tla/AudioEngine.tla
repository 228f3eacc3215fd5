----------------------------- MODULE AudioEngine -----------------------------
(***************************************************************************)
(* The audio engine of the client with both its threads, and the           *)
(* application actor that uses it: AudioPlayback, AudioCapture, BargeIn.   *)
(*                                                                         *)
(* The capture thread learns how playback goes from three atomics, the     *)
(* actor hears what the capture thread decided some frames later, and a    *)
(* playback begins on the capture thread while the actor waits. A scope    *)
(* says who the actor is. Two are anyone, who calls everything at any      *)
(* time: one with long playbacks, the other with short ones and with       *)
(* faults of the capture thread and its mailbox; the frames themselves are *)
(* left out. The third is the voice client in conversation, with the       *)
(* frames and no faults (it returns after one, and closes the engine).     *)
(***************************************************************************)
EXTENDS AudioPlayback, AudioCapture, BargeIn

CONSTANTS
  Scopes,  \* some of "filling", "calling", "talking"
  Lag      \* frames the talking actor may be behind (bound of the model)

ASSUME ScopesAssumption == Scopes \subseteq {"filling", "calling", "talking"} /\ Lag \in Nat \ {0}

\* How the detector's times, the actor's counts and the ring relate: a
\* candidate is long enough to be heard (120 ms and 6 frames), a follow-up
\* longer still, a probe shorter than the silence that ends speech (18 frames
\* and 700 ms), and a suppression longer than the actor can be behind.
ASSUME DetectorAssumption ==
  /\ VadStart <= BargeCandidate /\ VadStart < FollowUpNear
  /\ BargeReferenceWait + BargeEchoClear < VadEnd
  /\ CaptureSlots < Warmup /\ CaptureSlots < TailFrames

VARIABLES
  scope,
  caller,     \* the command the actor waits for, or "none"
  act,        \* the actor's members
  held,       \* the frame it has taken from the ring and not yet looked at
  muted,      \* playback_scale is 0
  restless,   \* history: frames until echo canceller and room have settled
  forgotten   \* history: the detector was reset under an utterance that counts on it

actorVars == <<act, held, forgotten>>
vars == <<playbackVars, captureVars, scope, caller, actorVars, muted, restless>>

TypeOK ==
  /\ PlaybackTypeOK /\ CaptureTypeOK
  /\ scope \in Scopes
  /\ caller \in Commands \cup {"none"}
  /\ ActorOK(act) /\ held \in Seq(Frame) /\ Len(held) <= 1
  /\ restless \in Nat /\ {muted, forgotten} \subseteq BOOLEAN

Init ==
  /\ PlaybackInit /\ CaptureInit
  /\ scope \in Scopes
  /\ caller = "none" /\ act = NewActor /\ held = <<>>
  /\ muted = FALSE /\ restless = 0 /\ forgotten = FALSE

Free == caller = "none" /\ Calls
Anyone == scope # "talking"
Faulty == scope = "calling"
Bound == IF scope = "filling" THEN MaxSamples ELSE 1
CaptureRests == UNCHANGED <<mic, capture, vad, aec>>

-----------------------------------------------------------------------------
(* Calls of the engine.                                                    *)

Ask(command) == Request(command) /\ caller' = command

\* BeginPlayback up to its command; it holds the playback mutex meanwhile.
AskPlayback ==
  /\ Calls /\ ~active
  /\ ClearQueue
  /\ Ask("prepare")
  /\ UNCHANGED <<flags, stop, open, results, thread, history, pcm, scope, actorVars,
                 muted, restless>>
  /\ CaptureRests

MutReply ==
  /\ caller # "none" /\ (caller = "prepare" \/ Answered)
  /\ caller' = "none"
  /\ IF caller = "prepare"
     THEN /\ BeginPlayback
          /\ muted' = FALSE /\ restless' = Warmup
          /\ act' = [ResetBargeProbe(act) EXCEPT !.state = IF Anyone THEN @ ELSE "Playing"]
     ELSE UNCHANGED <<playbackVars, muted, restless, act>>
  /\ UNCHANGED <<captureVars, scope, held, forgotten>>

\* RunCaptureCommand returns, and with it ResetListener or BeginPlayback.
Reply ==
  /\ caller # "none" /\ Answered
  /\ caller' = "none"
  /\ IF caller = "prepare" /\ Succeeded
     THEN /\ BeginPlayback
          /\ muted' = FALSE /\ restless' = Warmup
          /\ act' = [ResetBargeProbe(act) EXCEPT !.state = IF Anyone THEN @ ELSE "Playing"]
     ELSE /\ IF caller = "prepare" THEN BeginFails ELSE UNCHANGED playbackVars
          /\ UNCHANGED <<muted, restless, act>>
  /\ UNCHANGED <<captureVars, scope, held, forgotten>>

CommandTimesOut ==
  /\ caller # "none" /\ Faulty
  /\ TimesOut
  /\ UNCHANGED <<playbackVars, scope, caller, actorVars, muted, restless>>

\* DropPlayback interrupts the device under the lock.
Drops == DropPlayback /\ pcm' = Interrupted /\ restless' = 0

\* Any caller.
AnyCall ==
  /\ Free /\ Anyone
  /\ \/ AskPlayback
     \/ /\ Ask("reset") /\ Faulty /\ CaptureRests
        /\ UNCHANGED <<playbackVars, pcm, scope, actorVars, muted, restless>>
     \/ /\ \/ EndPlayback
           \/ \E samples \in 1..MaxPacket, follows \in BOOLEAN :
                accepted + samples <= Bound /\ QueueTts24k(samples, follows)
        /\ UNCHANGED <<captureVars, scope, caller, actorVars, muted, restless>>
     \/ /\ Drops /\ CaptureRests
        /\ UNCHANGED <<mailbox, scope, caller, actorVars, muted>>

\* Close stops both threads and interrupts both devices.
CloseEngine ==
  /\ Free /\ Anyone
  /\ Close /\ pcm' = Interrupted /\ restless' = 0
  /\ CaptureRests
  /\ UNCHANGED <<mailbox, scope, caller, actorVars, muted>>

\* What the backend's Close leaves of playback_interrupted the next
\* PreparePlayback clears.
EngineJoined ==
  /\ mic = "gone" /\ Joined
  /\ mailbox' = NewMailbox /\ capture' = <<>> /\ vad' = NewVad /\ aec' = NewAec
  /\ pcm' = [pcm EXCEPT !.started = FALSE, !.ended = FALSE]
  /\ muted' = FALSE /\ restless' = 0
  /\ UNCHANGED <<mic, scope, caller, actorVars>>

OpenEngine ==
  /\ Open /\ mic' = "top"
  /\ UNCHANGED <<mailbox, capture, vad, aec, pcm, scope, caller, actorVars, muted, restless>>

-----------------------------------------------------------------------------
(* The voice client in conversation.                                       *)

Talks == Free /\ ~Anyone

\* Whether the actor counts on the detector to hear the end of an utterance, or
\* is about to.
CountsOnDetector(a) ==
  a.state \in {"Speech", "Capturing"} \/ a.admitted \/ a.probe # "idle"

Does(r) ==
  /\ act' = r.actor
  /\ IF "drop" \in r.does /\ active THEN Drops ELSE UNCHANGED <<playbackVars, pcm, restless>>
  /\ IF "reset" \in r.does THEN Ask("reset") ELSE UNCHANGED <<mailbox, caller>>
  /\ muted' = ("mute" \in r.does \/ (muted /\ "unmute" \notin r.does))
  /\ forgotten' = (forgotten /\ CountsOnDetector(r.actor))
  /\ UNCHANGED scope

TakeFrame ==
  /\ Talks /\ held = <<>> /\ capture # <<>>
  /\ held' = <<Head(capture)>> /\ capture' = Tail(capture)
  /\ UNCHANGED <<playbackVars, mic, mailbox, vad, aec, pcm, scope, caller, act, forgotten,
                 muted, restless>>

HandleFrame ==
  /\ Talks /\ held # <<>>
  /\ \E loud \in {held[1].near, FALSE}, wake \in BOOLEAN :
       /\ wake => act.state = "Wake"
       /\ Does(OnFrame(act, held[1], loud, wake))
  /\ held' = <<>>
  /\ CaptureRests

\* An event or a touch comes before the frame that is held; a deadline in its
\* place.
Event(states, r) ==
  /\ Talks /\ act.state \in states
  /\ Does(r)
  /\ UNCHANGED held /\ CaptureRests

Deadline(states, r) ==
  /\ Talks /\ act.state \in states
  /\ Does(r)
  /\ held' = <<>> /\ CaptureRests

Turn == Answering \cup {"Capturing", "Response"}

Cancelled == Event({"CancelPending"}, CompleteCancel(act))
ServerError == Event(Turn, FinishTurn(act, FALSE))
TouchInterrupt == Event(Answering, AbortCurrent(act))
LateStart == active /\ Event({"Response"}, LoseConnection(act))
AudioStart == Talks /\ act.state = "Response" /\ AskPlayback

Audio ==
  /\ Talks /\ act.state = "Playing" /\ accepted < Bound
  /\ QueueTts24k(1, TRUE)
  /\ UNCHANGED <<captureVars, scope, caller, actorVars, muted, restless>>

Done ==
  /\ Talks /\ act.state \in {"Playing", "Response"}
  /\ act' = [act EXCEPT !.state = "Draining"]
  /\ IF active THEN EndPlayback ELSE UNCHANGED playbackVars
  /\ UNCHANGED <<captureVars, scope, caller, held, forgotten, muted, restless>>

DrainEnds == is_done /\ Deadline({"Draining"}, FinishTurn(act, TRUE))
CancelTimeout == Deadline({"CancelPending"}, LoseConnection(act))
TurnTimeout == Deadline(Turn, AbortCurrent(act))
NobodySpeaks ==
  Deadline({"Speech", "FollowUp"}, Result([NoPreRoll(act) EXCEPT !.state = "Wake"], {"reset"}))

Conversation ==
  \/ TakeFrame \/ HandleFrame
  \/ Cancelled \/ ServerError \/ TouchInterrupt \/ LateStart \/ AudioStart \/ Audio \/ Done
  \/ DrainEnds \/ CancelTimeout \/ TurnTimeout \/ NobodySpeaks

-----------------------------------------------------------------------------
(* The playback thread.                                                    *)

\* Render20ms tells of the first slot that can be heard, FinishPlayback of the
\* end of the device; the scale is back when it is done.
RenderSlot ==
  /\ Render
  /\ thread'.failed => Anyone
  /\ \E audible \in {FALSE, ~muted} : pcm' = RenderStarted(audible)
  /\ UNCHANGED <<muted, restless>>

EndDevice ==
  /\ FinishDevice
  /\ thread'.failed => Anyone
  /\ pcm' = DeviceEnded
  /\ restless' = IF drop \/ stop THEN 0 ELSE TailFrames
  /\ UNCHANGED muted

FinishedDone ==
  /\ FinishDone
  /\ pcm' = IF drop /\ ~thread.discard THEN DeviceEnded ELSE pcm
  /\ muted' = FALSE
  /\ UNCHANGED restless

PlaybackThread ==
  /\ caller # "prepare"
  /\ \/ RenderSlot \/ EndDevice \/ FinishedDone
     \/ /\ GraceExpires \/ NotStarved \/ TakeSlot \/ StopSeen \/ FinishLooks
        /\ UNCHANGED <<pcm, muted, restless>>
  /\ CaptureRests
  /\ UNCHANGED <<mailbox, scope, caller, actorVars>>

-----------------------------------------------------------------------------
(* The capture thread.                                                     *)

Playing == active /\ ~drop /\ thread.at # "done"

Listening == ~stop /\ (mic = "read" \/ Len(capture) + Len(held) < Lag)

\* The detector is reset at the end of a suppression, in the middle of speech
\* that the actor counts on.
ForgetsSpeech(now, reference) ==
  Expires(Gated(reference)) /\ UpdateVad(now).in_speech /\ CountsOnDetector(act)

\* The loudspeaker's signal is in a frame only while something may play; after
\* a drop nobody asks for it.
HearFrame ==
  /\ Listening /\ ~Anyone
  /\ \/ \E now \in BOOLEAN, reference \in {FALSE, active /\ ~drop} :
          /\ Hear(now, reference)
          /\ forgotten' = (forgotten \/ ForgetsSpeech(now, reference))
          /\ restless' = Less(restless)
     \/ /\ HearGap
        /\ restless' = IF Playing THEN Warmup ELSE Less(restless)
        /\ UNCHANGED forgotten

NoFrame == Anyone /\ mic = "read" /\ mic' = "top" /\ UNCHANGED <<mailbox, capture, vad, aec, pcm>>

CaptureThread ==
  /\ \/ HearFrame
     \/ /\ \/ LookForCommand \/ Answer \/ NoFrame
           \/ CarryOut /\ (mic' = "failing" => Faulty)
           \/ CaptureFails /\ Faulty /\ ~stop
           \/ CaptureStops /\ stop
        /\ UNCHANGED <<restless, forgotten>>
  /\ UNCHANGED <<playbackVars, scope, caller, act, held, muted>>

-----------------------------------------------------------------------------
Next ==
  \/ Reply \/ CommandTimesOut \/ AnyCall \/ CloseEngine \/ EngineJoined \/ OpenEngine
  \/ Conversation \/ PlaybackThread \/ CaptureThread

Spec == Init /\ [][Next]_vars

(***************************************************************************)
(* Fairness: the realtime threads are scheduled and the devices' calls     *)
(* return, by themselves or interrupted; a call that has its answer        *)
(* returns, and Close goes on once the threads have ended. Nothing else is *)
(* assumed of the application.                                             *)
(***************************************************************************)
FairSpec ==
  /\ Spec
  /\ WF_vars(PlaybackThread) /\ WF_vars(CaptureThread)
  /\ WF_vars(Reply \/ EngineJoined)

-----------------------------------------------------------------------------
\* Ending or dropping a playback makes it done, through the initial and the
\* rebuffering thresholds and failures of the device.
EndsEventually == ((ending \/ drop) /\ active) ~> (is_done \/ stop)

\* Close returns, whatever its threads were doing.
CloseReturns == []<>~stop

\* A command to the capture thread returns to its caller without the help of
\* the 100 ms bound: the thread looks after every frame and always answers
\* (RunCaptureCommand and ApplyCaptureCommand, audio_engine.cpp 92-146).
CommandReturns == []<>(caller = "none")

\* The capture thread prepares the playback device only while the playback
\* thread lets it be (BeginPlayback, audio_engine.cpp 355-371).
DeviceExclusive ==
  mic = "apply" /\ mailbox.command = "prepare" => thread.at \notin {"render", "device"}

\* A turn whose speech is being captured will hear its end: the detector is
\* still in speech, or the end, or a break of the capture, is on its way to the
\* actor. Or the detector was reset at the end of a suppression, which the
\* comment in UpdateNearVoice (audio_backend.cpp 295-296) means to prevent.
SpeechAlwaysEnds ==
  act.state = "Capturing" /\ Calls =>
    \/ vad.in_speech \/ act.ended \/ forgotten
    \/ \E i \in DOMAIN (held \o capture) :
         (held \o capture)[i].edge = "ended" \/ (held \o capture)[i].gap

\* A confirmed barge-in is sent from its first syllable on and whole: no frame
\* before it, and none of the user's voice missing, through probe, rejections
\* before it and the wait for the cancel (voice_client.cpp 650-680, 767-844).
WholeUtterance == act.admitted /\ ~act.full => act.pre = act.spoken /\ ~act.missed

\* A playback is silenced only while a probe is under way: no rejection, abort
\* or new answer leaves the loudspeaker muted (voice_client.cpp 373-390).
MutedOnlyWhileProbing == muted /\ active /\ ~drop => act.probe # "idle"

\* No frame is taken for the user's voice while the echo canceller adapts or
\* the room still sounds: Warmup frames from the start of a playback or from a
\* break of the capture in it, TailFrames after its natural end
\* (UpdateNearVoice, audio_backend.cpp 288-322).
QuietWhileAdapting ==
  [][Len(capture') > Len(capture) /\ capture'[Len(capture')].near => restless = 0]_vars

\* The two threads share ring, device and loudspeaker without harm: what is
\* taken is whole and in order, what is reported of a playback is true, a drop
\* is heard within a slot, the device is prepared by one thread while the
\* other leaves it, and no probe leaves the loudspeaker muted.
EngineSound ==
  /\ TypeOK /\ RingSound /\ RendersInOrder /\ DoneMeansAllRendered
  /\ DropIsNotFailure /\ AtMostOneSlotAfterDrop
  /\ DeviceExclusive /\ MutedOnlyWhileProbing

\* Every call into the engine comes back, and every playback that was ended
\* or dropped is done at last.
EngineReturns == EndsEventually /\ CloseReturns /\ CommandReturns
=============================================================================
