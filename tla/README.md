# A TLA+ model of boomPI

boomPI is a voice assistant: a C++ client on an RV1106 board and a Go server,
joined by one authenticated WebSocket. The user speaks, the client streams PCM
to the server, the server lets a provider (a single multimodal model, or a chain
of recognition, reasoning and synthesis) answer, and paces the answer back to
the board, which plays it and may be interrupted at any moment. This directory
models the parts in which state, concurrency and failure meet. Paths below are
relative to the repository; `PROJECT.json` maps every definition to its lines.

## 1. The system

| component | state it keeps | operations | talks to |
|---|---|---|---|
| session actor (`server/internal/session/session.go`) | phase, epoch, latched response id, pending event; three bounded channels | StartTurn, AppendPCM, Commit, Cancel, Close; reads the provider's events | called by the device handler; calls the provider; events to `forwardEvents` |
| device handler (`server/internal/app/device_handler.go`) | `connectionState.turn` under a mutex, the `pacedDownlink` of the forwarder | turn.start, PCM, turn.commit, turn.cancel, congestion; pacing, fencing, retiring | reads the connection, calls the actor, writes the connection |
| connection (`server/internal/transport/connection.go`) | receive queue, congestion channel, the congested turn; control and send queues, heartbeat ticker, pongs | `readPump`, `Receive`; `SendControl`, `SendPCM`, `writePump` | network on one side, the handler's two goroutines on the other |
| pipeline backend (`server/internal/backend/qwenpipeline/`) | audio of the turn, realtime recognition stream, active job, conversation history | SendAudio, Commit, Cancel, DiscardLastResponse, Close; the job; the stream's preparation | called by the actor; HTTP and WebSocket providers |
| omni backend (`server/internal/backend/qwen/`) | response bookkeeping, two write queues, cancel waiter | the same interface over one socket | called by the actor |
| server lifecycle (`transport/server.go`, `app/app.go`, `cmd/`) | the listeners, the one device connection | start, replace, shut down | everything |
| identity and discovery (`server/internal/identity/`, `discovery/`) | key and certificate on disk; a UDP socket | load or create, present, answer | the server's start; the client's bootstrap |
| audio engine (`client/src/audio/audio_engine.cpp`) | TTS ring and playback flags; capture ring and command mailbox | BeginPlayback, QueueTts24k, EndPlayback, DropPlayback, ResetListener, Capture, Close | called by the voice client; RV1106 backend |
| rv1106 backends (`client/src/platform/rv1106/`) | speech detector, echo suppression, FIFOs of the voice library | frames in and out, prepare, render, drain | the engine's two threads |
| voice client (`client/src/application/voice_client.cpp`) | dialogue state, turn and response identities, barge-in probe, event queue | capture frames, inbound events, deadlines, reconnects | audio engine, transport, UI, bootstrap |
| client transport (`client/src/network/voice_transport.cpp`) | session and turn identities, sequence numbers, cancel flags | Send, SendPcm, OnText, OnBinary | network thread and voice client |
| bootstrap (`client/src/network/network_bootstrap.cpp`, `client/src/main.cpp`) | `server.conf`, the endpoint, the network thread | link, DHCP, Wi-Fi, discovery, save | voice client |
| device user interface (`client/src/ui/`) | pages, slider, a queue of actions; camera thread and process | touches, SetState, SetVolume, polls | voice client |
| protocol codec, configuration, logging, scripts | - | parsing, formatting, start-up | - |

What is hard in it: the actor multiplexes commands, cancels and provider events
over `select`s; the receive loop and the forwarder share one turn and end it
from both sides; a fence (a cancelled context) races a send that is already
under way; both ends bound every queue and must lose a whole turn rather than
the middle of one; a backend's cancel waits for a goroutine that may itself be
waiting for room; playback, capture and the application meet in atomics and a
mailbox, while the user interrupts; acknowledgements, errors and answers cross
on the wire, and the client's transport knows more than the client has read;
touch, loudspeaker and flash keep copies of one volume; a device must find its
own server again, and no other, after crashes and moves on both sides.
`PROJECT.json` lists these hazards line by line, with the property that covers
each or the reason why none does.

## 2. Modules

| module | models | extends / instantiates |
|---|---|---|
| `TurnSession` | abstract specification: what the actor promises its users, every command atomic | - |
| `SessionActor` | `Actor.send`, `run`, `apply`, `accept`, `drainProviderEvents`, `shutdown` | refines `TurnSession` |
| `DeviceHandler` | the receive loop and `forwardEvents` over the shared turn | uses `TurnSession` as its actor |
| `ServerConnection` | `readPump` and `Receive` | - |
| `ConnectionWriter` | `writePump`, its queues and its heartbeat | - |
| `Connection` | both pumps under one context | extends the two above |
| `QwenPipeline` | a session of the pipeline backend | - |
| `QwenOmni` | a session of the omni backend and the adapter in front of it | - |
| `Providers` | the session of the configured mode | extends the two above |
| `VoiceTransport` | the client's gate on both directions of the WebSocket, its event queue | - |
| `VoiceClient` | the application actor: dialogue, deadlines, playback | extends `VoiceTransport` |
| `VoiceSession` | client and server over a connection that breaks | extends `VoiceClient` |
| `AudioPlayback` | TTS ring and playback thread | - |
| `AudioCapture` | capture ring, thread and mailbox; the detector below | - |
| `BargeIn` | what the application does with one frame after another | - |
| `AudioEngine` | both threads and their caller | extends the three above |
| `VoiceDsp` | the adapter between frames and the vendor's blocks | - |
| `LvglScreen` | the pages of the screen, as functions | - |
| `DeviceUi` | UI thread, camera thread and process, the actor's calls | extends `LvglScreen` |
| `Panel` | rotation of pixels and touches | - |
| `ServerIdentity` | the two files of the server's identity | - |
| `Bootstrap` | the settings file and the network thread of the client | - |
| `Pairing` | server, device and LAN | extends the two above |
| `*Proofs` (8) | the proofs | extend the module of their name; `DeviceUiProofs` also `Panel` |
| `MC*` | the instances that TLC runs | extend the module of their name |

Modules compose in three ways. By abstraction: `SessionActor` implements
`TurnSession` (property `ImplementsTurnSession`), and `DeviceHandler` is built
on `TurnSession`'s operators, so the handler is checked against every behaviour
the actor can show without carrying the actor's channels. `VoiceSession` carries
a server in the same spirit: `DeviceHandler` with its pacing left out. By
alternative: `Providers` runs one of its two. By conjunction: `Connection`,
`AudioEngine`, `VoiceSession` and `Pairing` hold their components' variables and
interleave their steps. The components that are sequential (`BargeIn`, `LvglScreen`, `Panel`, `VoiceDsp`) are functions of a
record; the composing module applies them.

### SessionActor

One action per branch of `run`'s selects. A call is a caller's entry in
`waiting` plus a command in a bounded channel; a caller may give up at any time
(its context ends), after which the command is stale when it is read. `run`'s
two-stage choice (`LookUrgent`, then the blocking select) is kept, because
cancel priority depends on it. `accept` is one action: latching the response id,
dropping foreign events, ending a turn on a malformed one. The provider is the
contract of `backend.ConversationSession`: one response at a time into a bounded
channel, nothing of a response after its `Cancel` returned, and, when
`Malformed`, an event that does not validate.

### DeviceHandler

A step is one lock section, one call that may wait, or the second select of
`Connection.enqueue`, where a cancelled downlink context and a free slot may
both be ready (`Push` or `Drop`). The receive loop's place is `loop`, the
forwarder's is `fwd` with the packet it is sending. `heard` records per turn
what reached the send queue. PCM is counted in units, so that frame sizes and
the watermark keep their arithmetic; text and identifiers are reduced to the
turn's number. The clock is the flag `due` of the next frame. Invalid messages
are drawn as messages that fail their check (`ok = FALSE`, turn 0, wrong phase),
not byte by byte. Left out: hello, the timers of the idle watchdog (`PeerGone`
may happen at any receive), the packets of `rejectTurnStart` and of the cancel
acknowledgement, which carry no state.

### Connection

A message is its turn and its number in the turn. `readPump`'s three places are
its loop, the blocking send of a new turn's start behind a congested turn
(`fence`), and `signalTurnCongestion`; `Receive` is its priority look at the
congestion channel and its select. The client starts a turn only once the
server can have answered the previous one. A client that did not wait could
have its turn.start read by `Receive` before the old notice was, which clears
`congested`; the protocol's client waits (protocol-v1.md, section 6). The writer
is the places of `writePump` between its selects, with counters for the queues.
The pumps meet in the context that either can cancel and in the ping handler,
which the library runs inside `readPump`'s read: a reader that waits for room
does not see pings.

### QwenPipeline

The caller's goroutine (the actor's), the job's and the preparation's, each with
its place. Provider requests are steps that succeed, fail or end cancelled.
A realtime stream is the list of pieces of audio written to it; the history is
a list of roles and turns. `boundedHistory` is a function with its three
trimmings; how many messages the token budget takes depends on text the model
does not have, so any number is possible.

### QwenOmni

The actor's goroutine (`user`), the pump of `pendingSession`, writer and reader,
each with its place; a message, a batch and an event are the turn they belong to
and their kind. `response` is what `responseMu` protects: as every turn commits
at most once, the channel that fences a response is named by its turn, and a
fence that was closed stays closed for a reader that holds it. The provider is
external: an input buffer, one running response, the answers it remembers; it
answers, fails a response, or refuses a request with an error that names no
response. The writer's look at the urgent queue and its select are two steps,
and so are the reader's look at the fence and its wait for room. `trace` is
history. A turn that has taken an event of another is not followed further.
`Providers` is `newQwenBackend`: one of the two sessions runs, by the mode.

### VoiceSession

The transport's mutex makes each of its calls and deliveries one step, so they
are operators; between two of them the ASIO thread may deliver, and a handler of
the client that sends twice is therefore cut there (`at` is the next call). The
client's loop takes its stages (frame, event, touch, deadline) in any order. A
turn, its stream and its epoch advance together and are one number; messages
are well formed. Sessions need no bound: after a break both ends start again.
The history variable `cut` has the epochs a cancel or an error ended, `raced`
whether a start met the server between response.done and its turn's retirement.

### AudioEngine

The TTS ring keeps head, count, the partially filled last slot and the flags of
`AudioEngine::Impl`; a sample is its index in the playback. Places of the
threads are their waits and device calls; rendering, draining and preparing may
fail, and fail if interrupted. A frame is its detector edge, whether it is near
voice, whether the loudspeaker was in it and whether the sequence broke; what
the detector hears is any value. A behaviour belongs to one scope: "filling" and
"calling" are any caller with long playbacks, or with short ones and faults of
the capture thread; "talking" is the voice client with the frames of `BargeIn`.
`spoken`, `missed`, `restless` and `forgotten` are history. `VoiceDsp` is
checked beside it, as assumptions of the instance that TLC evaluates.

### DeviceUi

A UI frame is snapshot, camera change, apply, LVGL; touches arrive in the last.
The screen is a record of pages and a slider, the mutex's state another (`ui`).
The camera thread's places are fork, store, check, read, close, reap, forget,
and its child may die by itself or linger after SIGTERM. `hist` remembers that
the camera page was left and entered between two snapshots, and that the full
action queue lost one. `Panel` is evaluated as assumptions of the instance.

### Pairing

`ServerIdentity` has `LoadOrCreate` file operation by file operation, for any
number of overlapping starts that may be killed at each; `Bootstrap` has main's
saving of settings (temporary file, sync, rename, with `disk` for what a loss of
power leaves), the network thread's tools and its choice of a server. `Pairing`
adds the address that moves, a neighbour that answers too, and the client's
connect, adopt and lose.

## 3. Runs

Each run finishes well under five minutes with two workers. Deadlock checking is
off where the program may rightly stop: a closed session, an exhausted client, a
device whose server is gone. In `audio_engine` it is on.

| run | bounds | question |
|---|---|---|
| `actor_turns` | 1 caller, 2 epochs, every channel of capacity 1 | events belong to the turn they are tagged with; no turn waits for an answer that cannot come; the actor implements `TurnSession`; nothing of a turn after its end; a cancel is answered |
| `actor_malformed` | the same, provider channel 2, malformed events | finding 1 |
| `handler_wire` | 1 turn, any provider, 2-unit frames, buffer 5, answer up to 8 units | what reaches the wire is well formed and complete; the buffer is bounded without a deadlock; a checked commit finds audio; an answer that ends ends its turn |
| `handler_turns` | 2 turns, orderly provider | at most one packet passes a fence; an idle handler has an idle actor |
| `handler_stale_pacer` | 2 turns | finding 2 |
| `connection_turns` | 2 turns of 2 messages, anonymous messages; receive queue 2, send and control queue 1 | overflow costs whole turns, is always reported, and never mutes the device; a due ping waits for at most two messages |
| `providers` | pipeline: 4 turns, 2 pieces of audio, 2 pairs of history, 2 events; omni: 2 turns of 2 pieces, both queues 2, 1 delta, 1 message on its way | pipeline: history, cancellation, the recognition stream; omni: what the model hears, remembers and answers; both: nothing of a cancelled response is added after its cancel, cancel and close return |
| `pipeline_cancel_input` | 2 turns | finding 3 |
| `voice_session` | 2 epochs per session, 2 frames a turn, 1 of audio an answer, send buffer and event queue 2; any number of sessions | what the client believes of its turn is true; an answer that was cut is not heard; neither side ends a sound connection without the cause named; cancels end, failures are noticed |
| `audio_engine` | ring of 4 slots of 3 samples, packets up to 4, 16 samples; 2 capture slots; probes of 1 or 2 frames, warm-up and tail of 3 | ring arithmetic and order; echo gates; the utterance of a barge-in is whole and its end is heard; every call returns |
| `device_ui` | 3 volumes, 2 actions, three sets of touches and states | slider, loudspeaker and flash agree; the screen follows the dialogue; the camera is reclaimed; nobody waits for ever |
| `pairing` | 2 starts of the server, 2 keys, 2 addresses, a neighbour | one identity; only the pinned key is talked to, and it is kept; the device finds its server again; stop returns |

A property that is a conjunction of named parts (`EngineSound`, `UiSound`,
`LostForCause`...) asks them together; each part has a comment and a mutant of
its own. Every property has at least one mutant in `PROJECT.json`: a changed
definition (a dropped guard, a missing reset, a wrong order) under which the
same run finds it violated.

Why these bounds suffice. Every capacity is at least the smallest value at which
it can be both partly and completely full, and packets, frames and slots are of
different sizes, so that rests, padding and wrap-around occur. Isolation,
fences and stale state concern a turn and its successor: two turns show them.
The exception is `QwenOmni`: the turn that is cancelled while the response before
it ends, or goes on after a complaint, shows only in the one after it
(`mistaken`, `complained`). `providers` with `OmniTurns = 3`, `OmniPcm = 1` and
`OmniQueue = 1` (2.2 million states, four minutes on four cores) was checked
too: all its properties hold there, and `OmniSound` and `CancelFences` are proved
for every bound (section 6). A congested turn and the start of the next need two turns; the code keeps no
other memory of a turn than the last congested one. History trimming needs more
turns than `MaxTurns`. Two pieces of audio are what a clear that comes late can
cut in two. The answer of `handler_wire` is longer than the buffer,
so backpressure really shuts the provider out, and the mutant without it
overflows. One caller stands for all in `actor_turns`, because a command is
independent of which caller sent the one before it; the theorems about the
actor hold for any number. A session of the client starts again from nothing,
so its number is not bounded, while a turn and its successor show what crosses.
The frames of the audio run are the shortest for which every phase of a probe
(candidate, reference, confirmation, retry) lasts and can be cut. The sets of
touches of `device_ui` keep the parts of the screen that share no state apart;
a touch on one page together with one on another occurs in each set. An address
that moves once meets every place of the discovery; a neighbour with another key
stands for all others.

## 4. Fairness

- Goroutines and threads that can go on do so (weak fairness of the loop's
  actions as a whole, not of one branch: Go's `select` promises no branch).
- `SessionActor`: the same for `run`, and a caller that is ready to see `done`
  sees it. Nothing else is assumed of consumer or callers: `CancelAnswered`
  holds although no event is ever read.
- `DeviceHandler`: both goroutines, and the deadline of a frame passes. The
  send queue drains, which `write`'s deadline justifies: a peer that does not
  read ends the connection. Nothing is assumed of client and provider.
- `Connection`: `readPump` finishes what it has read, and the handler keeps
  calling `Receive`; client, writer and the peers of the send queue are free.
- `Providers`: the steps of a call run, and job and preparation of the pipeline,
  or pump, writer and reader of the omni session; a request or a write returns by
  its timeout or its context, a read when the socket is closed, and the model
  answers what it was asked. The timers of Cancel (`CancelTimesOut`,
  `CancelRunsOut`) are not fair, and no event is read while `Cancel` waits. That
  a wait is left again and again (`[]<>`) is that it ends whenever it begins.
- `VoiceSession`: the client reads its events and finishes what it has begun to
  send, the network delivers what is in flight, both goroutines of the server
  run; a connection the server has closed is seen to be closed. No deadline has
  to pass and the user does nothing: `CancelEnds` holds without the 3 s timer.
- `AudioEngine`: both threads run, device calls return (interrupted or not), and
  a call that was answered returns. The 100 ms bound of a command is not needed.
- `DeviceUi`: the UI and camera threads run; a child that was told to terminate
  does; Close returns once its thread has. The camera need not deliver a frame.
- `Pairing`: the network thread and the client are scheduled, a connection to a
  peer that is not there fails. Strong fairness of the world for `FindsServer`:
  a link, a save, an answer of our server and a handshake that are tried again
  and again succeed at last. The property speaks only of a world that has
  settled (the server serves, the device knows its key).

## 5. Findings

1. `actor_malformed` / `RetiresOnlyThatTurn`: `accept` goes idle on a malformed
   event (session.go:335-338) without cancelling the provider or draining its
   channel. The rest of that response may still be in the channel at the next
   Commit: the select takes any ready branch, and the channel is not read while
   an event waits for the consumer. Its id is then latched (339-341) and its
   `done` ends the next turn (350-352) before that turn's own answer, whose
   events are dropped in idle. session_test.go:277 says that a malformed event
   retires only its turn. The trace needs no failed cancel.
2. `handler_stale_pacer` / `NoFalseDuplicate`: a barge-in while `forwardEvents`
   is in its select leaves the cancelled turn in the pacer, which is reset only
   at the top of the loop (750-756). The next turn's `response.start` is then
   refused as the provider's duplicate (830-831) and the session ends.
3. `pipeline_cancel_input` / `CancelledInputKeepsAnswer`: `Cancel` takes "no
   audio yet" for "no new input" and removes the previous, completed answer.

Observed while modelling. Each is a behaviour of the model; where a property
exempts it, the exemption is named in the property's comment.

- Server. A second congested turn, before the first notice was read, ends the
  connection (connection.go:300), although the comment at 20-21 speaks of the
  WebSocket staying alive. One packet can pass a fence (`AtMostOneLate` is the
  bound that does hold; the comment at device_handler.go:626-627 says none is
  queued). An error handled just after the forwarder finished the turn ends the
  session (device_handler.go:314-317). A start that reaches the server between
  response.done and its turn's retirement does so too (`raced`). A pipeline job
  that cannot hand over its first event returns without closing its recognition
  stream (pipeline.go:302-305), and `Cancel` launches a replacement stream
  before it closes the old one (204-210). The pump of the omni adapter holds one
  event and the session's channel more, so the drain after a cancel
  (session.go:314-325, whose comment says every event left can be drained) sees
  only the one offered; what is left is heard by the next turn if it comes soon
  (`left`). A model's error that answers a late response.cancel ends the next
  turn's response, because an error names no response (qwen/session.go:353-363).
  A commit still in the queue then asks about cleared audio; a turn that is
  cancelled while its response goes on is cancelled as mere input, and its item
  stays in the conversation; and an event that finds no fence holds the reader
  at a full queue until the next Cancel's timer passes (`complained`). A turn
  cancelled between the last event of the response before it and
  `finishResponse` (409-412) cancels that response, and its own audio, which
  nothing clears, is part of the turn after it (`mistaken`).
  The writer may take the next turn's first audio before the urgent clear, which
  then removes it (qwen/session.go:301-306, `overtaken`). A cancelled response
  that had no item yet lets DiscardLastResponse delete the answer before it, and
  a commit between the last event and `finishResponse` (409-412) is refused. A
  start of the server killed between
  key and certificate leaves a directory no later start accepts (tls.go).
- Client. An acknowledgement of a cancel that arrives after the turn's error
  ends the connection (voice_transport.cpp:498). A barge-in confirmed just after
  its playback ended by itself loses the detector's speech state at the end of
  the tail, although audio_backend.cpp:295-296 means to keep it; the turn then
  runs into its limit (`forgotten`). Two touches within one frame that leave the
  camera page and enter it again make StartCamera join a worker nobody told to
  stop; with a silent camera the UI thread stays there (`mixed`, device_ui.cpp:550).
  A full queue of actions loses an interrupt whose Listening is already on the
  screen (`displaced`).

## 6. Proofs

TLAPS proves, for every value of the constants that satisfies the modules'
named assumptions:

| theorem | statement | inductive invariant |
|---|---|---|
| `TypeCorrect` | `SessionActor!Spec => []TypeOK` | `TypeInv`: types, and an actor in a turn has an epoch |
| `Isolation`, `NeverStranded` | `EpochIsolation`, `AnswerToCome`, when the provider emits no malformed event | `IsoInv`: see below |
| `SilentAfterEnd` | `NothingAfterEnd`, for every provider | `EndInv`: see below |
| `Refinement` | `SessionActor!Spec => ImplementsTurnSession` | `TypeInv` |
| `HandlerTypes` | `DeviceHandler!Spec => []TypeOK` | `IInv`: see below |
| `BufferBounded` | `[]NoOverflow` | `IInv` |
| `NeverStuckPacing` | `[]NeverWaitsForNothing` | `IInv` |
| `WriterTypes`, `WriterComposes`, `HeartbeatPunctual` | `ConnectionWriter!WriterSpec => []WriterTypeOK`; `Connection!ConnectionSpec` implements `WriterSpec`; its `[]HeartbeatOnTime` | `WriterInv`: how late a ping may be depends on where the writer is |
| `GapFree`, `SilentAfterNotice` | `Connection!ConnectionSpec`: `[]ReceiveSound`, `NothingAfterNotice` | `ReaderInv`: see below |
| `ConversationSound`, `SilentAfterCancel` | `Providers!ProvidersSpec`: `[]PipelineSound`, `NothingAfterCancel` | `PipelineInv`: see below |
| `OmniSessionSound`, `OmniSilentAfterCancel` | `Providers!ProvidersSpec`: `[]OmniSound`, `CancelFences` | `OmniInv`: see below |
| `ActorFollows`, `CommitHasAudio` | `DeviceHandler!Spec`: `[]ActorFollowsHandler`, `[]CommitFindsAudio` | `OrderInv`: see below |
| `OneLatePacket` | `[]AtMostOneLate` | `LateInv`: see below |
| `WellFormedWire` | `[]WireWellFormed` | `WireInv`: see below |
| `AnswersComplete` | `[]AudioComplete` | `AccountInv`: see below |
| `TurnsSound` | `[]TurnSound`, the three together: audio to commit, a bounded buffer, a well-formed wire | - |
| `Identity` | `ServerIdentity!IdentitySpec => []OneIdentity` | `IdentityInv`: see below |
| `PairingIdentity` | the same of `Pairing!Spec` | the same |
| `Pinned`, `KeyKept` | `[]PairingSound` (types and `PinnedPeer`), `PinKept` | `DevInv`: see below |
| `PixelsLand`, `TouchMeetsDisplay`, `TouchStaysOnScreen` | `Panel`'s functions, for every panel size and area | - |
| `TurnsStayInStep`, `CutAnswersAreSilent`, `ServerAcceptsClient` | `VoiceSession!FairSpec`: `[]SessionSound`, `[]NoStalePlayback`, `[]ServerNotOffended` | `SessionInv`: see below |
| `ConnectionLostForCause` | `VoiceSession!FairSpec => LostForCause` | `LineInv`: see below |
| `ScreenAndCameraSound`, `VolumeReachesAll`, `ScreenShowsState` | `DeviceUi!FairSpec`: `[]UiSound`, `[]VolumeAgrees`, `[]ScreenFollows` | `UiInv`: see below |
| `BargeInIsWhole`, `SettledBeforeVoice` | `AudioEngine!Spec`: `[]WholeUtterance`, `QuietWhileAdapting` | `UtteranceInv`, `QuietInv`: see below |
| `SpeechIsHeardOut` | `AudioEngine!Spec => []SpeechAlwaysEnds` | `SpeechInv`: see below |
| `EngineIsSound` | `AudioEngine!Spec => []EngineSound` | `EngineInv`: see below |
| `DeviceIsShared`, `ProbesUnmute` | its parts about device, drop and mute, from less | `DeviceInv`, `UtteranceInv` |
| `OpenedHolds`, `NeverSkews` | `VoiceDsp`: every call succeeds and returns the frame of the call before | `Holds`, preserved by each call |

*Assumptions.* Positive capacities; `MaxBuffered >= MaxDelta + OutFrame`, which
device_handler.go's constants satisfy; for the client, a pre-roll that is shorter
than the longest turn (`PreRoll < MaxFrames`; 67 and 3000 frames in
voice_client.cpp), or its own first frames would overrun a turn, and the frames
kept outside a probe no more than its buffer holds (25 of 67); for the detector
of speech, `DetectorAssumption`: what starts speech (6 frames) is no longer than
a candidate for a barge-in (6) and shorter than a follow-up (20), the waits of a
probe are shorter together than the silence that ends speech (18 and 35), and
the actor is behind by less than a suppression lasts (4 frames against 30 and
15; voice_client.cpp 48-54 and 78, platform/rv1106/audio_backend.cpp 38-41,
audio_engine.cpp 24; TLC finds `SpeechAlwaysEnds` violated where a candidate or
a follow-up is too short to have started speech); and for `VoiceDsp`, a
block no longer than a frame and FIFOs of at least `FrameSize + BlockSize - 1` and `2 * FrameSize`.
The code's sizes (320, 256, 512, 640 samples) satisfy that in units of 64
samples, which divide frames and blocks alike; counted in samples the input
FIFO is smaller than the general bound, because a rest of a block is always a
multiple of 64.

*Isolation.* That an event handed out is its turn's own is not inductive: it
depends on what is in the provider's channel, which depends on every cancel
having drained it. `FenceInv` adds that in idle and listening the channel is
empty and no response runs, that in an answering turn everything in the channel
and the running response belong to this turn, and that the latched id is that
of this response. Cancel re-establishes the first, Commit the second.
The hypothesis `Malformed = FALSE` is needed for `EpochIsolation`: finding 1 is
the counterexample, the old `done` being handed out with the new epoch. For
`AnswerToCome` it leaves out no more than a failed cancel followed by a
malformed event: the old `done` ends the next turn early, it does not strand
it, and a failed cancel ends the session in the code.

*The handler.* The type of the pacer's `pending` is itself the interesting
part: subtracting a frame must stay a natural number and adding a delta must
stay within `MaxBuffered`. `FrameCounted` says that the frame being sent is
still counted in the buffer; `GateOpen` and `Resume + MaxDelta = MaxBuffered`
give the other bound, which is why the overflow branch (`NotOverflown`) is
unreachable. A pacer with no turn is empty (`IdlePacerEmpty`), an active turn
has a number (`Numbered`), and a commit that is being flushed is that of a
numbered turn (`CopyNumbered`). `NeverStuckPacing` follows from
`Resume >= OutFrame`. The proof has one lemma per group of actions, and
`ActorStep` for what the actor does below them.

`OrderInv` relates the three machines that share a turn: where the receive loop
is, the phase of the actor below it and what the forwarder still holds. While
the loop is between two calls the actor is in the phase the flags say, or has
ended the turn by itself and the event that says so is on its way; a checked
input has audio in the actor. `LateInv`: at most one packet of a fenced turn has
been sent since its fence, and if one has, nothing more of it is in flight; turns
not reached are `Untouched`. `WireInv` carries `WellFormed` of what
was sent together with what comes next: the packet in flight `Fits` behind it,
and while the pacer has a turn, its counters are those of the wire (`Linked`).
Sequence numbers, the place of the end flag and the one response.done follow.

`AccountInv` keeps the account of an answer's samples: what the provider has said
of the turn is on the wire, in the pacer, or in the events of the actor's queue.
`Ledger` states the last as a running total over the queue, so that appending and
taking an event are single steps of it; that a packet adds its own samples to the
fold `Units` is shown by `NatInduct`, an induction over the naturals derived from
the library's least-element principle for one set at a time. The account has a
hole where the session ends: the actor may lose its newest event. It is owed only
while the end of the answer is not lost either (`Sure`), and a last event that
is lost leaves the turn without a response.done. Once the pacer knows the end
(`Ending`) it owes exactly the rest, or the one sample of padding; nothing of the
turn waits behind that end (`Queued`, `Drained`), so nothing is said of it any
more when response.done goes out.

*The end of an epoch.* `NothingAfterEnd` is about every provider, also one that
sends malformed events, so it cannot rest on `IsoInv`. `EndInv` holds until the
actor is done: no epoch in `closed` is that of the turn it is in or of the event
it still holds, and a terminal event it holds is not of the turn it is in.

*The refinement.* Every step of the actor is a step of `TurnSession` or a
stutter under the mapping of `ImplementsTurnSession`. `Stream` turns the channel
and the pending event into the abstract sequence; the lemmas `StreamAppend`,
`StreamDeliver` and `StreamTake` are what a push, a hand-over and a receive do
to it. The proof needs no more of the state than its types.

*The connection.* `ReaderInv` takes everything between the socket and `Receive`
(queue, the message at the fence, the one being signalled) as one line. It is
`Sorted`; of a turn that lost nothing it is, with what was delivered, all that
was sent (`Lossless`); a turn that lost something is still the receiver's
congested turn or has nothing on the line any more, and its loss was reported or
is about to be (`Charged`). `NoMiddleLost` and `LossPending` are what that
means at the handler. The composition adds only that both pumps end together
(`OneContext`).

*The conversation.* `boundedHistory` trims three times, by number, to the first
question, and by tokens. `BoundedSuffix` shows that what is left of a paired
conversation is a suffix without an even number of messages; the loop of the
token budget is a recursive function, and its one solution on a paired
conversation is given outright (`LoopSolved`), so no induction is needed.
`HistoryInv`: what is remembered is older than the turn until its answer is
stored, and the newest answer is then the discardable one; so a cancel that
finds nothing discardable has nothing of its turn to forget. `InputInv` says at
each place of a call what the stream has heard; `JobInv` that a job at work
answers the actor's turn, which nobody has cancelled: `Cancel` returns only when
the job is over.

*The omni session.* `OmniInv` is about three lines, each with what its taker
already holds in front: the batches on their way to the model (`Way`), its
messages (`Line`) and the events on their way to the actor (`Came`). What it says
of their contents holds until the model complains, and mostly while the session
is alive.
`OneResponse`: a commit, a running response and its last message are never there
together, and without a requested response there is none of them. `CommitLast`:
behind a commit there is only its own cancel, and nothing else is on the way
while its response runs. `Awaited`: a response that is requested, until the
reader finishes it, is the one the actor waits for, and its last event has not
come. From these follow what publishing needs, a turn that has not been cut
(`Fence`, and with it `CancelFences`), and that the actor has only its own turn's
events to hear, the last one last (`Heard`), unless a drain has left some.
`Forgetting` says of an answer that was cut where the request is that deletes it,
and of the turn's own that the session knows its item or is about to. `Hearing`
is a count: the turn's pieces on the way are the last ones before its end and
complete those the model has (`Arriving`), unless a clear comes that will make
the model forget all it has; it needs the two races that `HearsWholeTurn` names
to be absent, and nothing else. The sizes of the queues do not matter for any of
this, nor does the number of messages on the wire.

*Identity.* Two starts may overlap, so that a loaded pair is the offered one
depends on who writes. `OwnerInv`: at most one start is between creating the key
file and finishing, and the certificate is not whole meanwhile. `ProgressInv`:
what it has written so far is its own. `PairInv`: a whole certificate is beside
its key, and whatever was loaded or offered is that certificate. `O_EXCL` gives
the first; the order key before certificate gives the last.

*Pairing.* `DevInv` follows a server from the answer, through the file, to the
endpoint and the connection: at each place it has the saved key, or nothing is
saved yet. `KeyKept` is an action property that follows from it.

*The audio engine.* `ActorInv` counts frames: while an utterance is collected,
what is kept and what was spoken since the ring was last cleared are the same
number, or nothing of it can be sent any more; each helper of the barge-in is
shown to keep it (`Good`, `Outcome`), so a confirmation finds the utterance
whole. `DeviceInv`: the playback thread works only on an active playback, none is
active while one is being prepared, and a drop that was asked for is seen as
long as its playback is active; what the thread was told of a drop is then no
failure. `QuietInv` is about the client in conversation, without faults. What has
still to settle is covered by the warm-up that is armed or runs, by the tail, or
by the end of a playback that the capture thread has yet to see; a playback that
goes on has a session, and a natural end asks for no more than the tail
(`SettlingInv`). A playback that begins finds the warm-up armed because nothing
but the frames comes between the command that prepared it and its answer
(`CommandInv`); there it needs `DeviceInv`.

*The end of speech.* The frame in the actor's hand and the ring are one line
(`Queue`), and `HearingInv` says of it: what the actor waits for the end of
(`Awaits`: a captured or admitted utterance, a probe) the detector still hears,
or has told the end of in a frame of the line, or was made to forget (`Heard`).
That a candidate or a follow-up finds speech going on follows from counting: a
row of near frames as long as the detector asks for was heard (`RowsHeard`),
where the frames the actor has already taken are its own count (`LeadOf`). A
probe cannot consume the end before it has decided, because the end comes
`VadEnd` frames after the last voice (`EndsLate`) and a probe has let by fewer
(`Spent`). A suppression that begins behind a frame of voice outlasts the line
(`Settles`), so the reset at its end cannot overtake that frame. While a reset
asked for by the actor is under way nothing is claimed (`Told`), and the actor is
in a state that waits for nothing (`Rests`). Each step of the engine does one of
four things to the line: a frame is pushed, the line is broken, its first frame
is taken, or the actor decides; there is a lemma for each.

*The ring.* `RingIs` is what its slots are: the newest samples in order of their
places, all slots full but the newest, the free ones empty. `FlowInv` joins it to
the thread: of a playback that goes on undisturbed every accepted sample is
rendered, in the thread's hand or in the ring (`WholeSoFar`). What a packet does
to the ring is a fold of `PutSample` over its samples, so its effect
(`PacketKeeps`) needs induction over data. The library's induction theorems take
an operator; `NatLeast` and `NatInduct` state the principle for a set instead,
and `Puts` is the ring after the first k samples, whose existence and agreement
with the fold are shown by a least counterexample (`PutsExists`, `FoldPuts`).
`Ranged` bounds the actor's counters; the rest of the types (`FlagsOK`,
`CaptureOK`) follows action by action.

*The adapter.* `Holds` says that what the two FIFOs contain, output before input,
is one frame and that it is the last frame given. A call joins the next frame,
moves whole blocks and takes a frame off the front; the lemmas `Cut`,
`JoinRegroups` and `Moved` are about sequences only.

*The session.* `SessionInv` says of each side of the connection what is still to
come. `ClientInv` is about the client: its transport is in the same turn, or
behind it while the application waits for the next (`SameTurn`); an event that
waits is of the turn both are in (`Current`) and nothing of a turn waits behind
its end (`Ordered`), so nothing left of a cut answer is played; a cancel is sent
once, so it needs one place beyond the limit (`Outgoing`). `ServerInv` holds
while the connection is open and no start has raced the server: everything on
its way to the server up to a turn.start is about the server's turn, everything
behind it about the client's (`OnTheWay`); what says that a turn is over is on
its way to the client only if the server has left that turn (`Over`); a client
without an active turn and its server are in the same one. Of the client's steps
`ServerInv` needs only what they send (`ClientSends`), of a delivery only what it
makes of the turn (`Followed`, `Emitted`, `ClosedBy`).

*Why a connection is given up.* A send is refused by the transport's guard, so
`Known`, a part of `ClientInv`, says what the application knows of the guard's
state: while it captures speech the upload has gone as far as it counted, the
answer it hears is the transport's, and what it has not been told of is still in
the queue (`Told`), unless the queue has lost an event. With room in the send
buffer and nothing of that kind to hear of, no call is refused (`RefusalMeans`). For the other direction,
`LineInv` says that the transport will take every message on its way as long as
its turn has not been cut: `DownInv` looks at the queue as a line (`Line`), where
each message fits behind those before it (`Fits`): the parts of an answer come
in their places (`Ahead`), nothing spoken comes behind the last packet
(`Sounding`), and a done only behind an answer that is whole (`Sounded`). What
the server is about to make up fits behind all of them (`Ready`), which its
fields alone decide. Dropping or taking the first message keeps the line
(`HeadPasses`), and so does a message about another turn (`BesideFits`) or an
error (`ErrorFits`); a turn that has not reached the server has nothing in the
line at all (`Unheard`). So only a message of a turn in `cut` can be one that the
transport does not take (`OnlyCutIsBad`). One goroutine makes up the messages:
if the server could make up another between response.done and the turn's
retirement, `Ready` would not hold.

*The screen.* Each of the three follows from saying where the newest value is.
`VolumeInv`: the actor sets the screen's wish together with its own volume
(`SetTogether`); that wish is shown, in the snapshot or still to be taken, or the
finger has put a newer one on the screen, which waits for the actor
(`VolumeOnItsWay`); and an unsaved volume is under the finger or its save is to
come (`SaveOnItsWay`). `StateInv` says the same of the dialogue state.
`CameraInv`: a worker that nobody wants any more has the wish to stop it waiting
(`Wanted`), the snapshot is what was asked for until the next touch
(`SnapshotHolds`), and there is a child only between the camera thread's fork and
its last wait (`ChildOfWorker`).

Only model-checked: liveness (fairness and ENABLED are outside the prover's
reach), `CongestionCostsOneTurn`, `AnswerEndsTurn` and the like among it;
and `CancelledInputKeepsAnswer`, which the code violates (finding 3).

## 7. Not modelled, and why

- The omni backend's handshake (it succeeds or fails in one step), its endpoint
  and voice, and the formats of its messages.
- The recognition socket of the pipeline and its HTTP clients: a request is a
  step that succeeds, fails or is cancelled. Open streams are not counted.
- The server's life cycle after it listens: replacing a device connection, and
  shutting a running session down.
- Codec, configuration, logging: sequential conversions and I/O whose errors are
  single returns. Sequence numbers, flags and turn identities are in the modules
  that check them.
- Drawing, fonts, layout and the decoding of camera frames; ALSA's registers,
  levels in decibels, the vendor's libraries. The backends are devices that
  deliver, fail or drain.
- Errors of sync and close after data was written (`ServerIdentity`,
  `Bootstrap`), the parsing of requests and addresses, the simulator.
- Scripts, probes, vendored libraries and assets are not part of the program.

## 8. Plan

Done: the server from connection to provider (`Connection`, `DeviceHandler`,
`SessionActor`, `Providers`), its identity, and the client (`VoiceSession`,
`AudioEngine`, `DeviceUi`, `Pairing`), with the proofs of section 6.

Open, in this order:

1. A ledger of open recognition streams in `QwenPipeline`.
2. Replacement of a device connection and shutdown (`transport/server.go`).
