------------------------------ MODULE DeviceUi ------------------------------
(***************************************************************************)
(* The touch screen of the client (client/src/ui/device_ui.cpp) and what   *)
(* the application actor makes of it: three threads and a process.         *)
(*                                                                         *)
(* The UI thread owns the screen. Once per frame it takes a snapshot under *)
(* the mutex, starts or stops the camera, applies the snapshot and runs    *)
(* LVGL, which reads every touch that has come in. The camera thread forks *)
(* a pipeline and reads frames from its pipe. The application actor calls  *)
(* SetState and SetVolume and polls, all under the same mutex.             *)
(*                                                                         *)
(* A touch is a click, a swipe, a click that ends as a swipe, or a drag of *)
(* the slider. Texts and what a camera frame shows are left out.           *)
(***************************************************************************)
EXTENDS LvglScreen, Sequences, SequencesExt

CONSTANTS
  Scenarios, \* sets of touches, swipes and states of the dialogue: a behaviour
             \* keeps to those of one set (bound of the model)
  QueueCap   \* kActionQueueCapacity

Swipes == {"VolumeUp", "VolumeDown", "Brightness"}

ASSUME UiAssumption ==
  /\ QueueCap \in Nat \ {0}
  /\ Scenarios \subseteq SUBSET (HomeControls \cup VoiceControls \cup Swipes \cup Displays)

Nothing == "nothing"
NoVolume == MaxVolume + 1
Actions == {"Wake", "Interrupt"} \cup Swipes

VARIABLES
  scenario, \* which one this behaviour keeps to
  scr,      \* the screen
  ui,       \* what the mutex protects, with ready and stop
  thread,   \* the UI thread and the locals of Run
  cam,      \* the camera thread and its child process
  app,      \* the application actor
  hist      \* history, see below

vars == <<scenario, scr, ui, thread, cam, app, hist>>

\* camera: camera_requested. pending: pending_volume_percent, when there is a
\* change. pressed: volume_slider_active.
NewUi(volume) ==
  [state |-> "Idle", volume |-> volume, state_dirty |-> TRUE, volume_dirty |-> TRUE,
   camera |-> FALSE, camera_dirty |-> FALSE, pending |-> NoVolume, committed |-> FALSE,
   pressed |-> FALSE, actions |-> <<>>, ready |-> FALSE, stop |-> FALSE]

\* state, volume, camera: what the snapshot asks for; "end" is the StopCamera
\* after the loop.
NewThread == [at |-> "init", state |-> Nothing, volume |-> NoVolume, camera |-> Nothing]

\* known: camera_process holds the child.
NoCamera == [at |-> "none", stop |-> FALSE, known |-> FALSE, child |-> "none"]

\* polled: a volume still to be applied, and whether to save it as well.
NewApp(volume) ==
  [at |-> "opening", state |-> "Offline", volume |-> volume, saved |-> volume, polled |-> <<>>]

\* mixed: the camera page was left and entered again between two snapshots.
\* displaced: an interrupt was pushed out of the full queue.
NoHistory == [mixed |-> FALSE, displaced |-> FALSE]

TypeOK ==
  /\ scenario \in Scenarios /\ scr \in Screens
  /\ ui \in [state : Displays, volume : Volumes, state_dirty : BOOLEAN,
             volume_dirty : BOOLEAN, camera : BOOLEAN, camera_dirty : BOOLEAN,
             pending : Volumes \cup {NoVolume}, committed : BOOLEAN, pressed : BOOLEAN,
             actions : BoundedSeq(Actions, QueueCap), ready : BOOLEAN, stop : BOOLEAN]
  /\ thread \in [at : {"init", "failed", "top", "camera", "join_old", "signal", "kill",
                       "join", "apply", "lvgl", "ended"},
                 state : {Nothing} \cup Displays, volume : Volumes \cup {NoVolume},
                 camera : {Nothing, "start", "stop", "end"}]
  /\ cam \in [at : {"none", "start", "forked", "loop", "reading", "closing", "reaping",
                    "reaped", "done"},
              stop : BOOLEAN, known : BOOLEAN, child : {"none", "alive", "dying", "dead"}]
  /\ app \in [at : {"opening", "volume", "action", "closing", "closed"},
              state : Displays \cup {"CancelPending"}, volume : Volumes, saved : Volumes,
              polled : {<<>>} \cup (Volumes \X BOOLEAN)]
  /\ hist \in [mixed : BOOLEAN, displaced : BOOLEAN]

\* The volume the actor starts with is the saved one.
Init ==
  /\ scenario \in Scenarios
  /\ scr = NewScreen(MaxVolume) /\ ui = NewUi(MaxVolume) /\ thread = NewThread
  /\ cam = NoCamera
  /\ \E volume \in Volumes : app = NewApp(volume)
  /\ hist = NoHistory

-----------------------------------------------------------------------------
(* What the callbacks of the screen do to ui.                              *)

MutQueueAction(u, action) == [u EXCEPT !.actions = Append(@, action)]

QueueAction(u, action) ==
  [u EXCEPT !.actions = IF Len(@) = QueueCap THEN Append(Tail(@), action) ELSE Append(@, action)]

\* Only the newest volume is kept, and a commit is not forgotten.
QueueVolumeChange(u, volume, committed) ==
  [u EXCEPT !.pending = volume, !.committed = @ \/ committed]

MutCameraActivity(u, active) ==
  IF u.camera = active THEN u ELSE [u EXCEPT !.camera = active, !.camera_dirty = active]

CameraActivity(u, active) ==
  IF u.camera = active THEN u ELSE [u EXCEPT !.camera = active, !.camera_dirty = TRUE]

Running == cam.at \notin {"none", "done"}

\* Every touch of a frame is read in lv_timer_handler.
Touch(s, u) ==
  /\ thread.at = "lvgl"
  /\ scr' = s /\ ui' = u
  /\ hist' = [mixed |-> hist.mixed \/ (Running /\ ui.camera_dirty /\ u.camera /\ ~ui.camera),
              displaced |-> hist.displaced \/
                            ("Interrupt" \in ToSet(ui.actions) /\ ~IsPrefix(ui.actions, u.actions))]
  /\ UNCHANGED <<scenario, thread, cam, app>>

Can(control) == control \in scenario \cap Controls(scr) /\ ~ui.pressed

\* A swipe is queued when the finger lifts, before LVGL makes it a click.
Swiped == {QueueAction(ui, a) : a \in Swipes \cap scenario}
Lifted == {ui} \cup Swiped

SwipeOnly == ~ui.pressed /\ \E u \in Swiped : Touch(scr, u)

AppClicked ==
  \E app_ \in HomeControls, u \in Lifted :
    /\ Can(app_)
    /\ Touch(ShowApp(scr, app_),
             CASE app_ = "talk"   -> QueueAction(u, "Wake")
               [] app_ = "camera" -> CameraActivity(u, TRUE)
               [] OTHER           -> u)

BackClicked ==
  /\ Can("back")
  /\ \E u \in Lifted :
       Touch(ShowHome(scr), IF scr.page = "camera" THEN CameraActivity(u, FALSE) ELSE u)

MuteClicked ==
  LET target == MuteTarget(scr)
  IN /\ Can("mute")
     /\ \E u \in Lifted : Touch(SetVolume(scr, target), QueueVolumeChange(u, target, TRUE))

OrbClicked ==
  /\ Can("orb") /\ Interruptible(scr)
  /\ \E u \in Lifted : Touch(VoiceClicked(scr), QueueAction(u, "Interrupt"))

SliderPressed == Can("slider") /\ Touch(scr, [ui EXCEPT !.pressed = TRUE])

SliderDragged ==
  \E volume \in Volumes \ {scr.volume} :
    ui.pressed /\ Touch(SetVolume(scr, volume), QueueVolumeChange(ui, volume, FALSE))

\* What the slider shows is committed, whether the finger put it there or not.
SliderReleased ==
  /\ ui.pressed
  /\ Touch(scr, [QueueVolumeChange(ui, scr.volume, TRUE) EXCEPT !.pressed = FALSE])

-----------------------------------------------------------------------------
(* The UI thread.                                                          *)

At(pc) == thread.at = pc
Goes(pc) == thread' = [thread EXCEPT !.at = pc]

Initialize ==
  /\ At("init")
  /\ scr' = SetVolume(SetState(scr, ui.state), ui.volume)
  /\ ui' = [ui EXCEPT !.state_dirty = FALSE, !.volume_dirty = FALSE, !.ready = TRUE]
  /\ Goes("top")
  /\ UNCHANGED <<scenario, cam, app, hist>>

InitializeFails == At("init") /\ Goes("failed") /\ UNCHANGED <<scenario, scr, ui, cam, app, hist>>

MutSnapshot(u) == [u EXCEPT !.state_dirty = FALSE, !.volume_dirty = FALSE]
Snapshot(u) ==
  [u EXCEPT !.state_dirty = FALSE, !.volume_dirty = FALSE, !.camera_dirty = FALSE]

TakeSnapshot ==
  /\ At("top") /\ ~ui.stop
  /\ ui' = Snapshot(ui)
  /\ thread' = [at     |-> "camera",
                state  |-> IF ui.state_dirty THEN ui.state ELSE Nothing,
                volume |-> IF ui.volume_dirty THEN ui.volume ELSE NoVolume,
                camera |-> IF ~ui.camera_dirty THEN Nothing
                           ELSE IF ui.camera THEN "start" ELSE "stop"]
  /\ UNCHANGED <<scenario, scr, cam, app, hist>>

MutLeaveLoop == At("top") /\ ui.stop /\ Goes("ended") /\ UNCHANGED <<scenario, scr, ui, cam, app, hist>>
LeaveLoop ==
  /\ At("top") /\ ui.stop
  /\ thread' = [thread EXCEPT !.at = "camera", !.camera = "end"]
  /\ UNCHANGED <<scenario, scr, ui, cam, app, hist>>

CameraStays == At("camera") /\ thread.camera = Nothing /\ Goes("apply")
               /\ UNCHANGED <<scenario, scr, ui, cam, app, hist>>

\* StartCamera waits for the last worker first, told to stop or not.
StartCamera ==
  /\ At("camera") /\ thread.camera = "start" /\ Goes("join_old")
  /\ UNCHANGED <<scenario, scr, ui, cam, app, hist>>

JoinOld ==
  /\ At("join_old") /\ ~Running
  /\ cam' \in {[NoCamera EXCEPT !.at = "start"], NoCamera}
  /\ hist' = [hist EXCEPT !.mixed = FALSE]
  /\ Goes("apply")
  /\ UNCHANGED <<scenario, scr, ui, app>>

\* StopCamera: the flag, the signals, the wait.
StopCamera ==
  /\ At("camera") /\ thread.camera \in {"stop", "end"}
  /\ cam' = [cam EXCEPT !.stop = TRUE]
  /\ Goes("signal")
  /\ UNCHANGED <<scenario, scr, ui, app, hist>>

Terminated(child) == IF child = "alive" THEN "dying" ELSE child
Killed(child) == IF child \in {"alive", "dying"} THEN "dead" ELSE child

StopSignal ==
  /\ At("signal")
  /\ IF cam.known
     THEN cam' = [cam EXCEPT !.child = Terminated(@)] /\ Goes("kill")
     ELSE UNCHANGED cam /\ Goes("join")
  /\ UNCHANGED <<scenario, scr, ui, app, hist>>

StopKill ==
  /\ At("kill")
  /\ cam' = IF cam.known THEN [cam EXCEPT !.child = Killed(@)] ELSE cam
  /\ Goes("join")
  /\ UNCHANGED <<scenario, scr, ui, app, hist>>

\* At the end of the loop ShutdownLvgl and the last ready follow.
StopJoin ==
  /\ At("join") /\ ~Running
  /\ cam' = [cam EXCEPT !.at = "none", !.known = FALSE]
  /\ hist' = [hist EXCEPT !.mixed = FALSE]
  /\ IF thread.camera = "end"
     THEN Goes("ended") /\ ui' = [ui EXCEPT !.ready = FALSE]
     ELSE Goes("apply") /\ UNCHANGED ui
  /\ UNCHANGED <<scenario, scr, app>>

Apply ==
  LET shown == IF thread.state = Nothing THEN scr ELSE SetState(scr, thread.state)
  IN /\ At("apply")
     /\ scr' = IF thread.volume = NoVolume THEN shown ELSE SetVolume(shown, thread.volume)
     /\ thread' = [NewThread EXCEPT !.at = "lvgl"]
     /\ UNCHANGED <<scenario, ui, cam, app, hist>>

FrameDone == At("lvgl") /\ Goes("top") /\ UNCHANGED <<scenario, scr, ui, cam, app, hist>>

\* A write to the panel fails in FlushDisplay: FailDisplay, and the loop ends.
FlushFails ==
  /\ At("lvgl")
  /\ ui' = [ui EXCEPT !.ready = FALSE, !.stop = TRUE]
  /\ Goes("top")
  /\ UNCHANGED <<scenario, scr, cam, app, hist>>

-----------------------------------------------------------------------------
(* CaptureCamera, and the process it forks.                                *)

Camera(pc, next) == cam.at = pc /\ cam' = next /\ UNCHANGED <<scenario, scr, ui, thread, app, hist>>
Next_(pc) == [cam EXCEPT !.at = pc]

Fork == Camera("start", [cam EXCEPT !.at = "forked", !.child = "alive"])
ForkFails == Camera("start", Next_("done"))
StoreProcess == Camera("forked", [cam EXCEPT !.at = "loop", !.known = TRUE])

MutCheckStop == Camera("loop", Next_("reading"))
CheckStop == Camera("loop", IF cam.stop THEN Next_("closing") ELSE Next_("reading"))

\* A read that ends with a frame, or a part of one; a camera may stay silent.
FrameRead == cam.child \in {"alive", "dying"} /\ Camera("reading", Next_("loop"))
PipeEnds == cam.child = "dead" /\ Camera("reading", Next_("closing"))
CloseCamera == Camera("closing", [cam EXCEPT !.at = "reaping", !.child = Terminated(@)])
Reap == cam.child = "dead" /\ Camera("reaping", [cam EXCEPT !.at = "reaped", !.child = "none"])
ForgetProcess == Camera("reaped", [cam EXCEPT !.at = "done", !.known = FALSE])

ChildDies(child) == cam.child = child /\ Camera(cam.at, [cam EXCEPT !.child = "dead"])

-----------------------------------------------------------------------------
(* The application actor: its calls, and what voice_client.cpp makes of    *)
(* the answers.                                                            *)

SetUiState(u, state) ==
  IF ~u.ready \/ u.state = state THEN u ELSE [u EXCEPT !.state = state, !.state_dirty = TRUE]

MutSetUiVolume(u, volume) ==
  IF ~u.ready \/ u.volume_dirty THEN u ELSE [u EXCEPT !.volume = volume, !.volume_dirty = TRUE]

SetUiVolume(u, volume) ==
  IF ~u.ready \/ u.volume = volume THEN u
  ELSE [u EXCEPT !.volume = volume, !.volume_dirty = TRUE]

Actor == UNCHANGED <<scenario, scr, thread, cam, hist>>
InLoop(pc) == app.at = pc /\ app.polled = <<>>

\* Open returns TRUE; the actor then shows its volume and that it is offline.
Opened ==
  /\ app.at = "opening" /\ thread.at \notin {"init", "failed"}
  /\ ui' = SetUiState(SetUiVolume(ui, app.volume), "Offline")
  /\ app' = [app EXCEPT !.at = "volume"]
  /\ Actor

MutClose ==
  /\ app.at = "opening" \/ InLoop("volume")
  /\ ui' = [ui EXCEPT !.ready = FALSE]
  /\ app' = [app EXCEPT !.at = "closing"]
  /\ Actor

\* The UI did not come up, or not in time; or the actor is done with it.
Close ==
  /\ app.at = "opening" \/ InLoop("volume")
  /\ ui' = [ui EXCEPT !.ready = FALSE, !.stop = TRUE]
  /\ app' = [app EXCEPT !.at = "closing"]
  /\ Actor

Closed ==
  /\ app.at = "closing" /\ thread.at \in {"ended", "failed"}
  /\ app' = [app EXCEPT !.at = "closed"]
  /\ UNCHANGED ui /\ Actor

\* How the dialogue goes on, the losses of the connection apart.
Turns ==
  {<<"Offline", "Idle">>, <<"Idle", "Listening">>, <<"Listening", "Idle">>,
   <<"Listening", "Thinking">>, <<"Thinking", "Speaking">>, <<"Speaking", "SpeakingTail">>,
   <<"SpeakingTail", "Happy">>, <<"Happy", "Idle">>, <<"Happy", "Listening">>,
   <<"CancelPending", "Happy">>, <<"CancelPending", "Listening">>}
  \cup {<<s, "Happy">> : s \in {"Listening", "Thinking", "Speaking"}}
  \cup {<<s, "CancelPending">> : s \in {"Listening", "Thinking", "Speaking", "SpeakingTail"}}

\* A pending cancel is not shown.
Turn ==
  \E state \in Displays \cup {"CancelPending"} :
    /\ InLoop("volume")
    /\ state = "Offline" \/ <<app.state, state>> \in Turns
    /\ state \in scenario \cup {"CancelPending"}
    /\ app' = [app EXCEPT !.state = state]
    /\ ui' = IF state = "CancelPending" THEN ui ELSE SetUiState(ui, state)
    /\ Actor

PollVolumeChange ==
  /\ InLoop("volume")
  /\ app' = [app EXCEPT !.at = "action",
                        !.polled = IF ui.pending = NoVolume THEN <<>>
                                   ELSE <<ui.pending, ui.committed>>]
  /\ ui' = [ui EXCEPT !.pending = NoVolume, !.committed = FALSE]
  /\ Actor

MutApplyVolume ==
  LET volume == app.polled[1]
  IN /\ app.polled # <<>>
     /\ app' = [app EXCEPT !.volume = volume, !.polled = <<>>,
                           !.saved = IF app.polled[2] THEN app.volume ELSE @]
     /\ ui' = SetUiVolume(ui, volume)
     /\ Actor

\* ApplyVolume, and SaveUiSettings.
ApplyVolume ==
  LET volume == app.polled[1]
  IN /\ app.polled # <<>>
     /\ app' = [app EXCEPT !.volume = volume, !.polled = <<>>,
                           !.saved = IF app.polled[2] THEN volume ELSE @]
     /\ ui' = SetUiVolume(ui, volume)
     /\ Actor

\* PollUi on one action; a brightness saves the volume too.
Obeyed(action) ==
  CASE action = "VolumeUp"   -> [app EXCEPT !.polled = <<IF app.volume = MaxVolume THEN MaxVolume
                                                         ELSE app.volume + 1, TRUE>>]
    [] action = "VolumeDown" -> [app EXCEPT !.polled = <<IF app.volume = 0 THEN 0
                                                         ELSE app.volume - 1, TRUE>>]
    [] action = "Brightness" -> [app EXCEPT !.saved = app.volume]
    [] action = "Interrupt"  -> IF app.state \in {"Speaking", "SpeakingTail"}
                                THEN [app EXCEPT !.state = "CancelPending"] ELSE app
    [] action = "Wake"       -> app

PollAction ==
  /\ InLoop("action")
  /\ IF ui.actions = <<>> THEN app' = [app EXCEPT !.at = "volume"] /\ UNCHANGED ui
     ELSE /\ app' = [Obeyed(Head(ui.actions)) EXCEPT !.at = "volume"]
          /\ ui' = [ui EXCEPT !.actions = Tail(@)]
  /\ Actor

-----------------------------------------------------------------------------
Finger == \/ SwipeOnly \/ AppClicked \/ BackClicked \/ MuteClicked \/ OrbClicked
          \/ SliderPressed \/ SliderDragged \/ SliderReleased

UiThread == \/ Initialize \/ InitializeFails \/ TakeSnapshot \/ LeaveLoop \/ CameraStays
            \/ StartCamera \/ JoinOld \/ StopCamera \/ StopSignal \/ StopKill \/ StopJoin
            \/ Apply \/ FrameDone \/ FlushFails

CameraThread == \/ Fork \/ ForkFails \/ StoreProcess \/ CheckStop \/ PipeEnds \/ CloseCamera
                \/ Reap \/ ForgetProcess

Application == \/ Opened \/ Close \/ Closed \/ Turn \/ PollVolumeChange \/ ApplyVolume
               \/ PollAction

Next == \/ Finger \/ UiThread \/ CameraThread \/ FrameRead
        \/ ChildDies("alive") \/ ChildDies("dying") \/ Application

\* The threads run. Nothing makes the camera deliver, or a pipeline end by
\* itself; one that was told to terminate does (sh and ffmpeg do not refuse).
FairSpec ==
  /\ Init /\ [][Next]_vars
  /\ WF_vars(UiThread) /\ WF_vars(CameraThread) /\ WF_vars(ChildDies("dying"))
  /\ WF_vars(Closed)

-----------------------------------------------------------------------------
(* Properties.                                                             *)

\* The orb that moves is the one on the page, for the state on the screen: a
\* page that is left, whoever leaves it, takes its animations with it.
MotionMatchesPage ==
  /\ scr.home = (scr.page = "home")
  /\ scr.voice = IF scr.page = "voice" THEN Motion(scr.state) ELSE "none"

VolumeQuiet ==
  /\ ui.ready /\ app.at \in {"volume", "action"}
  /\ ui.pending = NoVolume /\ ~ui.volume_dirty /\ thread.volume = NoVolume
  /\ app.polled = <<>> /\ ~ui.pressed

\* Four copies of the volume, two mailboxes and a feedback loop: once nothing is
\* under way, the slider shows what the loudspeaker plays.
VolumeSettles == VolumeQuiet => scr.volume = ui.volume /\ ui.volume = app.volume

\* Previews are not written to flash, yet once the finger is up and the
\* mailbox read, the volume that plays is the one a restart would find.
LastVolumeSaved == VolumeQuiet => app.saved = app.volume

\* The screen shows the state the actor set last, or the Listening that a touch
\* anticipates: then the interrupt waits, or its cancel is under way (or the
\* full queue has lost it).
ScreenFollows ==
  ui.ready /\ app.at \in {"volume", "action"} /\ ~ui.state_dirty /\ thread.state = Nothing =>
    \/ scr.state = ui.state
    \/ /\ scr.state = "Listening" /\ ui.state = "Speaking"
       /\ \/ "Interrupt" \in ToSet(ui.actions)
          \/ app.state = "CancelPending"
          \/ hist.displaced

\* StartCamera never waits for a worker that nobody has told to stop, except
\* when the page was left and entered again between two snapshots.
StartFindsNoWorker == At("join_old") /\ Running => hist.mixed

\* When the UI thread is gone, so are the camera's thread and process.
NoOrphan == At("ended") => cam.at = "none" /\ cam.child = "none"

Stuck == At("join_old") /\ hist.mixed

\* The UI thread comes round again and again, or ends: StopCamera gets its
\* worker back from a silent camera whether it sees the process or not.
LoopGoesOn == []<>(thread.at \in {"top", "failed", "ended"} \/ Stuck)

\* Off the camera page the camera is reclaimed, unless the user comes back.
CameraReclaimed == []<>(~Running \/ scr.page = "camera")

\* Close returns.
CloseReturns == []<>(app.at # "closing" \/ Stuck)

\* Every page has its own animation, a worker is joined only once it was told
\* to stop, and none outlives the UI thread.
UiSound == TypeOK /\ MotionMatchesPage /\ StartFindsNoWorker /\ NoOrphan

\* Slider, loudspeaker and flash agree on the volume.
VolumeAgrees == VolumeSettles /\ LastVolumeSaved

\* The UI thread never waits for ever, and neither does Close.
NothingHangs == LoopGoesOn /\ CloseReturns
=============================================================================
