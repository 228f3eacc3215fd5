--------------------------- MODULE DeviceUiProofs ---------------------------
(***************************************************************************)
(* Proofs about the touch screen, for every maximal volume, capacity of    *)
(* the queue of actions and set of touches, and every size of the panel.   *)
(*                                                                         *)
(* Panel: what FlushDisplay writes lands where the screen means it to be,  *)
(* and a finger on a pixel is read as that pixel.                          *)
(*                                                                         *)
(* DeviceUi: the invariants of the run hold when nothing is under way, and *)
(* are not inductive. What is, is where the news is meanwhile: the newest  *)
(* volume (VolumeInv) and state (StateInv) are on the screen, in the       *)
(* snapshot, flagged dirty or in a mailbox; a camera worker that runs is   *)
(* wanted, or the wish to stop it is on its way (CameraInv).               *)
(***************************************************************************)
EXTENDS DeviceUi, Panel, TLAPS

Points == [x : 0..(LogicalWidth - 1), y : 0..(LogicalHeight - 1)]

\* The k-th pixel that FlushDisplay streams is the one the panel shows in the
\* k-th cell of the window that SetWindow has opened.
THEOREM PixelsLand ==
  ASSUME NEW a \in Areas, Visible(a), NEW k \in 0..(Count(a) - 1)
  PROVE  Written(Window(a), k) = Cell(Streamed(a, k))
<1> DEFINE c == Clipped(a)
<1> DEFINE height == c.y2 - c.y1 + 1
<1>1. c.x1 \in Int /\ c.x2 \in Int /\ c.y1 \in Int /\ c.y2 \in Int
  BY PanelAssumption DEF Areas, Clipped, Clamp, PanelAssumption, LogicalWidth, LogicalHeight
<1>2. height \in Nat \ {0}
  BY <1>1 DEF Visible
<1> HIDE DEF c
<1>3. k \in Int
  BY <1>1 DEF Count, c
<1>4. k \div height \in Int /\ k % height \in Int
  BY <1>2, <1>3
<1>5. Window(a) = [left |-> c.y1, top |-> PanelHeight - 1 - c.x2,
                   right |-> c.y2, bottom |-> PanelHeight - 1 - c.x1]
  BY DEF Window, c
<1>6. Written(Window(a), k) = [column |-> c.y1 + (k % height),
                               row |-> (PanelHeight - 1 - c.x2) + (k \div height)]
  BY <1>5 DEF Written
<1>7. Streamed(a, k) = [x |-> c.x2 - (k \div height), y |-> c.y1 + (k % height)]
  BY DEF Streamed, c
<1>8. Cell(Streamed(a, k)) = [column |-> c.y1 + (k % height),
                              row |-> PanelHeight - 1 - (c.x2 - (k \div height))]
  BY <1>7 DEF Cell
<1>9. PanelHeight \in Int
  BY PanelAssumption DEF PanelAssumption
<1> HIDE DEF height
<1>10. (PanelHeight - 1 - c.x2) + (k \div height) = PanelHeight - 1 - (c.x2 - (k \div height))
  BY <1>1, <1>4, <1>9
<1> QED
  BY <1>6, <1>8, <1>10

\* A finger on the cell of a pixel is read as that pixel.
THEOREM TouchMeetsDisplay ==
  \A p \in Points : LogicalX(Cell(p).row) = p.x /\ LogicalY(Cell(p).column) = p.y
BY PanelAssumption
   DEF Points, Cell, LogicalX, LogicalY, Clamp, LogicalWidth, LogicalHeight, PanelAssumption

\* Whatever the controller reports, LVGL is given a point of the screen.
THEOREM TouchStaysOnScreen ==
  \A raw_x, raw_y \in Int : [x |-> LogicalX(raw_y), y |-> LogicalY(raw_x)] \in Points
BY PanelAssumption
   DEF Points, LogicalX, LogicalY, Clamp, LogicalWidth, LogicalHeight, PanelAssumption

-----------------------------------------------------------------------------
(* Types, and what a touch does.                                           *)

UiStates ==
  [state : Displays, volume : Volumes, state_dirty : BOOLEAN,
   volume_dirty : BOOLEAN, camera : BOOLEAN, camera_dirty : BOOLEAN,
   pending : Volumes \cup {NoVolume}, committed : BOOLEAN, pressed : BOOLEAN,
   actions : BoundedSeq(Actions, QueueCap), ready : BOOLEAN, stop : BOOLEAN]

LEMMA Bounded ==
  ASSUME NEW S, NEW n \in Nat, NEW s
  PROVE  s \in BoundedSeq(S, n) <=> s \in Seq(S) /\ Len(s) <= n
<1>1. BoundedSeq(S, n) = UNION {[1..m -> S] : m \in 0..n}
  BY DEF BoundedSeq, SeqOf
<1>2. ASSUME s \in Seq(S), Len(s) <= n PROVE s \in BoundedSeq(S, n)
  <2>1. Len(s) \in 0..n /\ s \in [1..Len(s) -> S]
    BY <1>2
  <2>2. \A l \in 0..n : [1..l -> S] \subseteq BoundedSeq(S, n)
    BY <1>1
  <2> QED BY <2>1, <2>2
<1>3. ASSUME NEW m \in 0..n, s \in [1..m -> S] PROVE s \in Seq(S) /\ Len(s) <= n
  BY <1>3
<1> QED
  BY <1>1, <1>2, <1>3

\* A queued action is in the queue.
LEMMA Queued ==
  ASSUME NEW u \in UiStates, NEW a \in Actions
  PROVE  \E q \in BoundedSeq(Actions, QueueCap) :
           QueueAction(u, a) = [u EXCEPT !.actions = q] /\ a \in ToSet(q)
<1> DEFINE s == u.actions
<1> DEFINE t == IF Len(s) = QueueCap THEN Tail(s) ELSE s
<1> DEFINE q == Append(t, a)
<1>1. QueueCap \in Nat \ {0}
  BY UiAssumption DEF UiAssumption
<1>2. s \in Seq(Actions) /\ Len(s) <= QueueCap
  BY <1>1, Bounded DEF UiStates
<1> HIDE DEF s
<1>3. t \in Seq(Actions) /\ Len(t) < QueueCap
  BY <1>1, <1>2
<1> HIDE DEF t
<1>4. q \in Seq(Actions) /\ Len(q) <= QueueCap /\ Len(q) \in DOMAIN q /\ q[Len(q)] = a
  BY <1>1, <1>3
<1>5. q \in BoundedSeq(Actions, QueueCap)
  BY <1>1, <1>4, Bounded
<1>6. a \in ToSet(q)
  BY <1>4 DEF ToSet
<1>7. QueueAction(u, a) = [u EXCEPT !.actions = q]
  BY DEF QueueAction, q, t, s
<1> HIDE DEF q
<1> QED
  BY <1>5, <1>6, <1>7

\* A prefix has no element of its own.
LEMMA PrefixKeeps ==
  ASSUME NEW S, NEW s \in Seq(S), NEW t \in Seq(S), IsPrefix(s, t)
  PROVE  ToSet(s) \subseteq ToSet(t)
<1>1. Len(s) <= Len(t) /\ SubSeq(s, 1, Len(s)) = SubSeq(t, 1, Len(s))
  BY DEF IsPrefix
<1>2. ASSUME NEW i \in DOMAIN s PROVE i \in DOMAIN t /\ t[i] = s[i]
  <2>1. SubSeq(s, 1, Len(s))[i] = s[i] /\ SubSeq(t, 1, Len(s))[i] = t[i] /\ i \in DOMAIN t
    BY <1>1
  <2> QED BY <1>1, <2>1
<1> QED
  BY <1>2 DEF ToSet

MotionOf(s) ==
  /\ s.home = (s.page = "home")
  /\ s.voice = IF s.page = "voice" THEN Motion(s.state) ELSE "none"

\* What no touch writes.
Steady(u) ==
  /\ u \in UiStates
  /\ u.state = ui.state /\ u.state_dirty = ui.state_dirty
  /\ u.volume = ui.volume /\ u.volume_dirty = ui.volume_dirty
  /\ u.ready = ui.ready /\ u.stop = ui.stop

SameCamera(u) == u.camera = ui.camera /\ u.camera_dirty = ui.camera_dirty
SameVolume(u) == u.pending = ui.pending /\ u.committed = ui.committed
SamePressed(u) == u.pressed = ui.pressed

\* What all the touches of a finger have in common, from the screen s and the
\* mailboxes u on: who may write which field, and that a volume that is shown
\* is also queued.
Touched(s, u) ==
  /\ s \in Screens /\ MotionOf(s) /\ Steady(u)
  /\ SameCamera(u) \/ (u.camera # ui.camera /\ u.camera_dirty)
  /\ \/ s.volume = scr.volume /\ SameVolume(u) /\ (ui.pressed => u.pressed)
     \/ u.pending = s.volume /\ (u.committed \/ (ui.pressed /\ u.pressed))
  /\ \/ s.state = scr.state
     \/ scr.state = "Speaking" /\ s.state = "Listening" /\ "Interrupt" \in ToSet(u.actions)

\* The screen's functions keep it a screen whose animation matches the page.
LEMMA ScreenSteps ==
  ASSUME NEW s \in Screens, MotionOf(s), NEW state \in Displays, NEW volume \in Volumes
  PROVE  /\ ShowHome(s) \in Screens /\ MotionOf(ShowHome(s))
         /\ ShowHome(s).state = s.state /\ ShowHome(s).volume = s.volume
         /\ \A a \in HomeControls :
              /\ ShowApp(s, a) \in Screens /\ MotionOf(ShowApp(s, a))
              /\ ShowApp(s, a).state = s.state /\ ShowApp(s, a).volume = s.volume
         /\ SetVolume(s, volume) \in Screens /\ MotionOf(SetVolume(s, volume))
         /\ SetVolume(s, volume).state = s.state /\ SetVolume(s, volume).volume = volume
         /\ SetState(s, state) \in Screens /\ MotionOf(SetState(s, state))
         /\ SetState(s, state).state = state /\ SetState(s, state).volume = s.volume
<1> USE ScreenAssumption DEF ScreenAssumption, Screens, MotionOf, Motion, Pages, Displays, Volumes
<1>1. /\ ShowHome(s) \in Screens /\ MotionOf(ShowHome(s))
      /\ ShowHome(s).state = s.state /\ ShowHome(s).volume = s.volume
  BY DEF ShowHome, StartHomeOrbMotion, StopOrbMotion
<1>2. ASSUME NEW a \in HomeControls, NEW t \in Screens, t.voice = "none" \/ MotionOf(t)
      PROVE  /\ ShowApp(t, a) \in Screens /\ MotionOf(ShowApp(t, a))
             /\ ShowApp(t, a).state = t.state /\ ShowApp(t, a).volume = t.volume
  <2>1. PageOf[a] \in Pages \ {"home"} /\ (PageOf[a] = "voice" <=> a = "talk")
    BY DEF HomeControls, PageOf
  <2> DEFINE p == PageOf[a]
  <2>2. p \in Pages \ {"home"} /\ (p = "voice" <=> a = "talk")
    BY <2>1
  <2>3. ShowApp(t, a) = IF a = "talk" THEN UpdateVoice([StopHomeOrbMotion(t) EXCEPT !.page = p])
                        ELSE StopOrbMotion([StopHomeOrbMotion(t) EXCEPT !.page = p])
    BY DEF ShowApp
  <2> HIDE DEF p
  <2>4. CASE a = "talk"
    <3>1. ShowApp(t, a) = [t EXCEPT !.home = FALSE, !.page = "voice", !.voice = Motion(t.state)]
      BY <2>2, <2>3, <2>4 DEF StopHomeOrbMotion, UpdateVoice, StartOrbMotion
    <3>2. ShowApp(t, a) \in Screens
      BY <3>1
    <3>3. /\ ShowApp(t, a).home = FALSE /\ ShowApp(t, a).page = "voice"
          /\ ShowApp(t, a).voice = Motion(t.state)
          /\ ShowApp(t, a).state = t.state /\ ShowApp(t, a).volume = t.volume
      BY <3>1
    <3> QED BY <3>2, <3>3
  <2>5. CASE a # "talk"
    <3>1. ShowApp(t, a) = [t EXCEPT !.home = FALSE, !.page = p, !.voice = "none"]
      BY <2>3, <2>5 DEF StopHomeOrbMotion, StopOrbMotion
    <3>2. ShowApp(t, a) \in Screens
      BY <2>2, <3>1
    <3>3. /\ ShowApp(t, a).home = FALSE /\ ShowApp(t, a).page = p /\ ShowApp(t, a).voice = "none"
          /\ ShowApp(t, a).state = t.state /\ ShowApp(t, a).volume = t.volume
      BY <3>1
    <3> QED BY <2>2, <2>5, <3>2, <3>3
  <2> QED BY <2>4, <2>5
<1>3. SetVolume(s, volume) \in Screens /\ MotionOf(SetVolume(s, volume))
      /\ SetVolume(s, volume).state = s.state /\ SetVolume(s, volume).volume = volume
  BY DEF SetVolume
<1>4. /\ SetState(s, state) \in Screens /\ MotionOf(SetState(s, state))
      /\ SetState(s, state).state = state /\ SetState(s, state).volume = s.volume
  <2> DEFINE t == [s EXCEPT !.state = state]
  <2>1. t \in Screens /\ t.state = state /\ t.volume = s.volume /\ t.page = s.page
        /\ t.home = (t.page = "home") /\ (t.page # "voice" => t.voice = "none")
    OBVIOUS
  <2> HIDE DEF t
  <2>2. CASE state \in Conversation /\ t.page = "home"
    <3>1. t.voice = "none" /\ "talk" \in HomeControls
      BY <2>1, <2>2 DEF HomeControls
    <3>2. /\ ShowApp(t, "talk") \in Screens /\ MotionOf(ShowApp(t, "talk"))
          /\ ShowApp(t, "talk").state = t.state /\ ShowApp(t, "talk").volume = t.volume
      BY <1>2, <2>1, <3>1
    <3>3. SetState(s, state) = UpdateVoice(ShowApp(t, "talk"))
      BY <2>2 DEF SetState, t
    <3> QED
      BY <2>1, <3>2, <3>3 DEF UpdateVoice, StartOrbMotion
  <2>3. CASE ~(state \in Conversation /\ t.page = "home")
    <3>1. SetState(s, state) = UpdateVoice(t)
      BY <2>3 DEF SetState, t
    <3> QED
      BY <2>1, <3>1 DEF UpdateVoice, StartOrbMotion
  <2> QED BY <2>2, <2>3
<1> QED
  BY <1>1, <1>2, <1>3, <1>4

\* What the finger lifts off: the mailboxes, with a swipe or without.
LEMMA QueuedSame ==
  ASSUME NEW u \in UiStates, NEW a \in Actions
  PROVE  /\ QueueAction(u, a) \in UiStates
         /\ a \in ToSet(QueueAction(u, a).actions)
         /\ QueueAction(u, a) = [u EXCEPT !.actions = QueueAction(u, a).actions]
<1>1. PICK q \in BoundedSeq(Actions, QueueCap) :
        QueueAction(u, a) = [u EXCEPT !.actions = q] /\ a \in ToSet(q)
  BY Queued
<1>2. [u EXCEPT !.actions = q] \in UiStates /\ [u EXCEPT !.actions = q].actions = q
  BY DEF UiStates
<1> QED
  BY <1>1, <1>2

Lift(u) == Steady(u) /\ SameCamera(u) /\ SameVolume(u) /\ SamePressed(u)

LEMMA LiftQueued ==
  ASSUME ui \in UiStates, NEW u, Lift(u), NEW a \in Actions
  PROVE  Lift(QueueAction(u, a)) /\ a \in ToSet(QueueAction(u, a).actions)
<1>1. u \in UiStates
  BY DEF Lift, Steady
<1>2. /\ QueueAction(u, a) \in UiStates
      /\ QueueAction(u, a) = [u EXCEPT !.actions = QueueAction(u, a).actions]
      /\ a \in ToSet(QueueAction(u, a).actions)
  BY <1>1, QueuedSame
<1> DEFINE v == QueueAction(u, a)
<1> DEFINE q == QueueAction(u, a).actions
<1>3. v = [u EXCEPT !.actions = q] /\ v \in UiStates
  BY <1>2
<1> HIDE DEF v, q
<1>4. /\ v.state = u.state /\ v.state_dirty = u.state_dirty /\ v.volume = u.volume
      /\ v.volume_dirty = u.volume_dirty /\ v.ready = u.ready /\ v.stop = u.stop
      /\ v.camera = u.camera /\ v.camera_dirty = u.camera_dirty
      /\ v.pending = u.pending /\ v.committed = u.committed /\ v.pressed = u.pressed
  BY <1>1, <1>3 DEF UiStates
<1>5. Lift(v)
  BY <1>3, <1>4 DEF Lift, Steady, SameCamera, SameVolume, SamePressed
<1> QED
  BY <1>2, <1>5 DEF v

LEMMA LiftedStates ==
  ASSUME ui \in UiStates, NEW u \in Lifted
  PROVE  Lift(u)
<1>1. Lift(ui)
  BY DEF Lift, Steady, SameCamera, SameVolume, SamePressed
<1>2. CASE u \in Swiped
  <2>1. PICK a \in Swipes : u = QueueAction(ui, a)
    BY <1>2 DEF Swiped
  <2>2. a \in Actions
    BY DEF Actions
  <2> QED BY <1>1, <2>1, <2>2, LiftQueued
<1> QED
  BY <1>1, <1>2 DEF Lifted

\* The camera page is entered or left.
LEMMA LiftCamera ==
  ASSUME ui \in UiStates, NEW u, Lift(u), NEW active \in BOOLEAN, NEW v,
         v = CameraActivity(u, active)
  PROVE  /\ Steady(v) /\ SameVolume(v) /\ SamePressed(v)
         /\ SameCamera(v) \/ (v.camera # ui.camera /\ v.camera_dirty)
<1> USE DEF Lift, Steady, SameCamera, SameVolume, SamePressed
<1>1. CASE u.camera = active
  BY <1>1 DEF CameraActivity
<1>2. CASE u.camera # active
  <2>1. v = [u EXCEPT !.camera = active, !.camera_dirty = TRUE]
    BY <1>2 DEF CameraActivity
  <2>2. v.camera = active /\ v.camera_dirty /\ active # ui.camera
    BY <1>2, <2>1 DEF UiStates
  <2>3. v \in UiStates
    BY <2>1 DEF UiStates
  <2>4. Steady(v) /\ SameVolume(v) /\ SamePressed(v)
    BY <2>1, <2>3 DEF UiStates
  <2> QED BY <2>2, <2>4
<1> QED
  BY <1>1, <1>2

\* A volume is queued.
LEMMA LiftVolume ==
  ASSUME ui \in UiStates, NEW u, Lift(u), NEW volume \in Volumes, NEW committed \in BOOLEAN,
         NEW v, v = QueueVolumeChange(u, volume, committed)
  PROVE  /\ Steady(v) /\ SameCamera(v) /\ SamePressed(v)
         /\ v.pending = volume /\ (committed => v.committed)
<1> USE DEF Lift, Steady, SameCamera, SameVolume, SamePressed
<1> DEFINE c == u.committed \/ committed
<1>1. c \in BOOLEAN
  BY DEF UiStates
<1>2. v = [u EXCEPT !.pending = volume, !.committed = c]
  BY DEF QueueVolumeChange
<1>3. committed => c
  OBVIOUS
<1> HIDE DEF c
<1>4. Steady(v) /\ SameCamera(v) /\ SamePressed(v) /\ v.pending = volume
  BY <1>1, <1>2, ZenonT(40) DEF UiStates
<1>5. v.committed = c
  BY <1>1, <1>2 DEF UiStates
<1> QED
  BY <1>3, <1>4, <1>5

LEMMA FingerTouches ==
  ASSUME scr \in Screens, MotionOf(scr), ui \in UiStates, Finger
  PROVE  \E s, u : Touch(s, u) /\ Touched(s, u)
<1>0. Lift(ui)
  BY DEF Lift, Steady, SameCamera, SameVolume, SamePressed
<1>1. ASSUME NEW u, Lift(u) PROVE Steady(u) /\ SameCamera(u) /\ SameVolume(u) /\ SamePressed(u)
  BY <1>1 DEF Lift
<1>2. CASE SwipeOnly
  <2>1. PICK u \in Swiped : Touch(scr, u)
    BY <1>2 DEF SwipeOnly
  <2>2. Lift(u)
    BY LiftedStates DEF Lifted
  <2>3. Touched(scr, u)
    BY <1>1, <2>2 DEF Touched, SamePressed
  <2> QED BY <2>1, <2>3
<1>3. CASE AppClicked
  <2>1. PICK a \in HomeControls, u \in Lifted :
          Touch(ShowApp(scr, a), CASE a = "talk"   -> QueueAction(u, "Wake")
                                   [] a = "camera" -> CameraActivity(u, TRUE)
                                   [] OTHER        -> u)
    BY <1>3 DEF AppClicked
  <2>2. Lift(u)
    BY LiftedStates
  <2>3. PICK v \in {u, QueueAction(u, "Wake"), CameraActivity(u, TRUE)} : Touch(ShowApp(scr, a), v)
    BY <2>1
  <2>4. Lift(QueueAction(u, "Wake"))
    BY <2>2, LiftQueued DEF Actions
  <2>5. /\ Steady(v) /\ SameVolume(v) /\ SamePressed(v)
        /\ SameCamera(v) \/ (v.camera # ui.camera /\ v.camera_dirty)
    BY <1>1, <2>2, <2>3, <2>4, LiftCamera
  <2>6. /\ ShowApp(scr, a) \in Screens /\ MotionOf(ShowApp(scr, a))
        /\ ShowApp(scr, a).state = scr.state /\ ShowApp(scr, a).volume = scr.volume
    BY ScreenSteps, ScreenAssumption DEF Screens
  <2>7. Touched(ShowApp(scr, a), v)
    BY <2>5, <2>6 DEF Touched, SamePressed
  <2> QED BY <2>3, <2>7
<1>4. CASE BackClicked
  <2>1. PICK u \in Lifted :
          Touch(ShowHome(scr), IF scr.page = "camera" THEN CameraActivity(u, FALSE) ELSE u)
    BY <1>4 DEF BackClicked
  <2>2. Lift(u)
    BY LiftedStates
  <2>3. PICK v \in {u, CameraActivity(u, FALSE)} : Touch(ShowHome(scr), v)
    BY <2>1
  <2>4. /\ Steady(v) /\ SameVolume(v) /\ SamePressed(v)
        /\ SameCamera(v) \/ (v.camera # ui.camera /\ v.camera_dirty)
    BY <1>1, <2>2, <2>3, LiftCamera
  <2>5. /\ ShowHome(scr) \in Screens /\ MotionOf(ShowHome(scr))
        /\ ShowHome(scr).state = scr.state /\ ShowHome(scr).volume = scr.volume
    BY ScreenSteps, ScreenAssumption DEF Screens
  <2>6. Touched(ShowHome(scr), v)
    BY <2>4, <2>5 DEF Touched, SamePressed
  <2> QED BY <2>3, <2>6
<1>5. CASE MuteClicked
  <2>1. PICK u \in Lifted :
          Touch(SetVolume(scr, MuteTarget(scr)), QueueVolumeChange(u, MuteTarget(scr), TRUE))
    BY <1>5 DEF MuteClicked
  <2>2. Lift(u)
    BY LiftedStates
  <2>3. MuteTarget(scr) \in Volumes /\ scr.state \in Displays
    BY ScreenAssumption DEF MuteTarget, Screens, Volumes, ScreenAssumption
  <2>4. /\ SetVolume(scr, MuteTarget(scr)) \in Screens /\ MotionOf(SetVolume(scr, MuteTarget(scr)))
        /\ SetVolume(scr, MuteTarget(scr)).state = scr.state
        /\ SetVolume(scr, MuteTarget(scr)).volume = MuteTarget(scr)
    BY <2>3, ScreenSteps
  <2> DEFINE v == QueueVolumeChange(u, MuteTarget(scr), TRUE)
  <2>5. Steady(v) /\ SameCamera(v) /\ v.pending = MuteTarget(scr) /\ v.committed
    BY <2>2, <2>3, LiftVolume
  <2> HIDE DEF v
  <2>6. Touched(SetVolume(scr, MuteTarget(scr)), v)
    BY <2>4, <2>5 DEF Touched
  <2> QED BY <2>1, <2>6 DEF v
<1>6. CASE OrbClicked
  <2>1. PICK u \in Lifted : Touch(VoiceClicked(scr), QueueAction(u, "Interrupt"))
    BY <1>6 DEF OrbClicked
  <2>2. Lift(QueueAction(u, "Interrupt"))
        /\ "Interrupt" \in ToSet(QueueAction(u, "Interrupt").actions)
    BY LiftedStates, LiftQueued DEF Actions
  <2>3. \/ VoiceClicked(scr) = scr
        \/ scr.state = "Speaking" /\ VoiceClicked(scr) = SetState(scr, "Listening")
    BY DEF VoiceClicked
  <2>4. /\ SetState(scr, "Listening") \in Screens /\ MotionOf(SetState(scr, "Listening"))
        /\ SetState(scr, "Listening").state = "Listening"
        /\ SetState(scr, "Listening").volume = scr.volume
    BY ScreenSteps, ScreenAssumption DEF Screens, Displays
  <2>5. Touched(VoiceClicked(scr), QueueAction(u, "Interrupt"))
    BY <1>1, <2>2, <2>3, <2>4 DEF Touched, SamePressed
  <2> QED BY <2>1, <2>5
<1>7. CASE SliderPressed
  <2>1. Touched(scr, [ui EXCEPT !.pressed = TRUE])
    BY DEF Touched, Steady, SameCamera, SameVolume, UiStates
  <2> QED BY <1>7, <2>1 DEF SliderPressed
<1>8. CASE SliderDragged
  <2>1. PICK volume \in Volumes :
          ui.pressed /\ Touch(SetVolume(scr, volume), QueueVolumeChange(ui, volume, FALSE))
    BY <1>8 DEF SliderDragged
  <2>2. /\ SetVolume(scr, volume) \in Screens /\ MotionOf(SetVolume(scr, volume))
        /\ SetVolume(scr, volume).state = scr.state /\ SetVolume(scr, volume).volume = volume
    BY ScreenSteps DEF Screens
  <2> DEFINE v == QueueVolumeChange(ui, volume, FALSE)
  <2>3. Steady(v) /\ SameCamera(v) /\ SamePressed(v) /\ v.pending = volume
    BY <1>0, LiftVolume
  <2> HIDE DEF v
  <2>4. Touched(SetVolume(scr, volume), v)
    BY <2>1, <2>2, <2>3 DEF Touched, SamePressed
  <2> QED BY <2>1, <2>4 DEF v
<1>9. CASE SliderReleased
  <2>1. scr.volume \in Volumes
    BY DEF Screens
  <2> DEFINE v == QueueVolumeChange(ui, scr.volume, TRUE)
  <2>2. Steady(v) /\ SameCamera(v) /\ v.pending = scr.volume /\ v.committed
    BY <1>0, <2>1, LiftVolume, ZenonT(40)
  <2> HIDE DEF v
  <2>3. Touched(scr, [v EXCEPT !.pressed = FALSE])
    BY <2>2 DEF Touched, Steady, SameCamera, UiStates
  <2> QED BY <1>9, <2>3 DEF SliderReleased, v
<1> QED
  BY <1>2, <1>3, <1>4, <1>5, <1>6, <1>7, <1>8, <1>9 DEF Finger

-----------------------------------------------------------------------------
(* Type correctness and the animations: inductive together.                *)

ThreadStates ==
  [at : {"init", "failed", "top", "camera", "join_old", "signal", "kill", "join", "apply",
         "lvgl", "ended"},
   state : {Nothing} \cup Displays, volume : Volumes \cup {NoVolume},
   camera : {Nothing, "start", "stop", "end"}]

CamStates ==
  [at : {"none", "start", "forked", "loop", "reading", "closing", "reaping", "reaped", "done"},
   stop : BOOLEAN, known : BOOLEAN, child : {"none", "alive", "dying", "dead"}]

AppStates ==
  [at : {"opening", "volume", "action", "closing", "closed"},
   state : Displays \cup {"CancelPending"}, volume : Volumes, saved : Volumes,
   polled : {<<>>} \cup (Volumes \X BOOLEAN)]

HistStates == [mixed : BOOLEAN, displaced : BOOLEAN]

Typed ==
  /\ scr \in Screens /\ MotionOf(scr) /\ ui \in UiStates /\ thread \in ThreadStates
  /\ cam \in CamStates /\ app \in AppStates /\ hist \in HistStates

LEMMA TypedMeans == Typed /\ scenario \in Scenarios <=> TypeOK /\ MotionMatchesPage
BY DEF Typed, TypeOK, MotionMatchesPage, MotionOf, UiStates, ThreadStates, CamStates, AppStates,
       HistStates

\* What the actor's calls do to ui.
LEMMA SetUi ==
  ASSUME NEW u \in UiStates, NEW state \in Displays, NEW volume \in Volumes
  PROVE  /\ SetUiState(u, state) \in UiStates
         /\ SetUiVolume(u, volume) \in UiStates
BY ZenonT(40) DEF SetUiState, SetUiVolume, UiStates

\* PollUi on one action: a volume that is to be applied is also to be saved, and
\* only an interrupt of something that is heard changes the state.
LEMMA ObeyedOne ==
  ASSUME app \in AppStates, app.polled = <<>>, NEW action \in Actions
  PROVE  LET a == Obeyed(action)
         IN /\ a \in AppStates /\ a.volume = app.volume
            /\ \/ a.polled = <<>> /\ a.saved \in {app.saved, app.volume}
               \/ a.polled # <<>> /\ a.polled[2] /\ a.saved = app.saved
            /\ \/ a.state = app.state /\ (action = "Interrupt" => app.state # "Speaking")
               \/ a.state = "CancelPending"
<1> DEFINE up == IF app.volume = MaxVolume THEN MaxVolume ELSE app.volume + 1
           down == IF app.volume = 0 THEN 0 ELSE app.volume - 1
           Polled(volume) == [app EXCEPT !.polled = <<volume, TRUE>>]
<1>1. up \in Volumes /\ down \in Volumes
  BY ScreenAssumption DEF ScreenAssumption, Volumes, AppStates
<1>2. ASSUME NEW volume \in Volumes
      PROVE  /\ Polled(volume) \in AppStates /\ Polled(volume).volume = app.volume
             /\ Polled(volume).polled # <<>> /\ Polled(volume).polled[2]
             /\ Polled(volume).saved = app.saved /\ Polled(volume).state = app.state
  BY DEF AppStates
<1>3. CASE action = "VolumeUp"
  <2>1. Obeyed(action) = Polled(up)
    BY <1>3 DEF Obeyed
  <2> HIDE DEF up, down, Polled
  <2> QED BY <1>1, <1>2, <1>3, <2>1
<1>4. CASE action = "VolumeDown"
  <2>1. Obeyed(action) = Polled(down)
    BY <1>4 DEF Obeyed
  <2> HIDE DEF up, down, Polled
  <2> QED BY <1>1, <1>2, <1>4, <2>1
<1> HIDE DEF up, down, Polled
<1>5. CASE action = "Brightness"
  <2>1. Obeyed(action) = [app EXCEPT !.saved = app.volume]
    BY <1>5 DEF Obeyed
  <2> QED BY <1>5, <2>1 DEF AppStates
<1>6. CASE action = "Interrupt"
  <2>1. CASE app.state \in {"Speaking", "SpeakingTail"}
    <3>1. Obeyed(action) = [app EXCEPT !.state = "CancelPending"]
      BY <1>6, <2>1 DEF Obeyed
    <3> QED BY <3>1 DEF AppStates
  <2>2. CASE app.state \notin {"Speaking", "SpeakingTail"}
    BY <1>6, <2>2 DEF Obeyed
  <2> QED BY <2>1, <2>2
<1>7. CASE action = "Wake"
  BY <1>7 DEF Obeyed
<1> QED
  BY <1>3, <1>4, <1>5, <1>6, <1>7 DEF Actions, Swipes

LEMMA TypedFinger ==
  ASSUME Typed, Finger
  PROVE  Typed'
<1>1. PICK s, u : Touch(s, u) /\ Touched(s, u)
  BY FingerTouches DEF Typed
<1>2. s \in Screens /\ MotionOf(s) /\ u \in UiStates
  BY <1>1 DEF Touched, Steady
<1>3. hist' \in HistStates
  BY <1>1 DEF Touch, HistStates
<1> QED
  BY <1>1, <1>2, <1>3 DEF Touch, Typed, MotionOf

LEMMA TypedUiThread ==
  ASSUME Typed, UiThread
  PROVE  Typed'
<1> USE DEF Typed, Goes, At
<1>1. CASE Initialize
  <2>1. ui.volume \in Volumes /\ ui.state \in Displays
    BY DEF UiStates
  <2>2. SetState(scr, ui.state) \in Screens /\ MotionOf(SetState(scr, ui.state))
    BY <2>1, ScreenSteps
  <2>3. SetVolume(SetState(scr, ui.state), ui.volume) \in Screens
        /\ MotionOf(SetVolume(SetState(scr, ui.state), ui.volume))
    BY <2>1, <2>2, ScreenSteps
  <2>4. scr' \in Screens /\ MotionOf(scr)'
    BY <1>1, <2>3 DEF Initialize, MotionOf
  <2>5. ui' \in UiStates
    BY <1>1 DEF Initialize, UiStates
  <2>6. thread' \in ThreadStates
    BY <1>1 DEF Initialize, ThreadStates
  <2> QED BY <1>1, <2>4, <2>5, <2>6 DEF Initialize
<1>2. CASE InitializeFails \/ LeaveLoop \/ CameraStays \/ StartCamera \/ FrameDone
  <2>1. thread' \in ThreadStates
    BY <1>2 DEF InitializeFails, LeaveLoop, CameraStays, StartCamera, FrameDone, ThreadStates
  <2>2. UNCHANGED <<scr, ui, cam, app, hist>>
    BY <1>2 DEF InitializeFails, LeaveLoop, CameraStays, StartCamera, FrameDone
  <2> QED BY <2>1, <2>2 DEF MotionOf
<1>3. CASE TakeSnapshot
  <2>1. ui' \in UiStates
    BY <1>3 DEF TakeSnapshot, Snapshot, UiStates
  <2>2. /\ (IF ui.state_dirty THEN ui.state ELSE Nothing) \in {Nothing} \cup Displays
        /\ (IF ui.volume_dirty THEN ui.volume ELSE NoVolume) \in Volumes \cup {NoVolume}
        /\ (IF ~ui.camera_dirty THEN Nothing ELSE IF ui.camera THEN "start" ELSE "stop")
             \in {Nothing, "start", "stop", "end"}
    BY DEF UiStates
  <2>3. thread' \in ThreadStates
    BY <1>3, <2>2 DEF TakeSnapshot, ThreadStates
  <2> QED BY <1>3, <2>1, <2>3 DEF TakeSnapshot, MotionOf
<1>4. CASE JoinOld
  <2>1. thread' \in ThreadStates
    BY <1>4 DEF JoinOld, ThreadStates
  <2>2. NoCamera \in CamStates /\ [NoCamera EXCEPT !.at = "start"] \in CamStates
    BY DEF CamStates, NoCamera
  <2>3. cam' \in CamStates
    BY <1>4, <2>2 DEF JoinOld
  <2>4. hist' \in HistStates
    BY <1>4 DEF JoinOld, HistStates
  <2> QED BY <1>4, <2>1, <2>3, <2>4 DEF JoinOld, MotionOf
<1>5. CASE StopCamera \/ StopSignal \/ StopKill
  <2>1. thread' \in ThreadStates
    BY <1>5 DEF StopCamera, StopSignal, StopKill, ThreadStates
  <2>2. cam' \in CamStates
    BY <1>5 DEF StopCamera, StopSignal, StopKill, CamStates, Terminated, Killed
  <2> QED BY <1>5, <2>1, <2>2 DEF StopCamera, StopSignal, StopKill, MotionOf
<1>6. CASE StopJoin
  <2>1. thread' \in ThreadStates
    BY <1>6 DEF StopJoin, ThreadStates
  <2>2. cam' \in CamStates
    BY <1>6 DEF StopJoin, CamStates
  <2>3. hist' \in HistStates
    BY <1>6 DEF StopJoin, HistStates
  <2>4. ui' \in UiStates
    BY <1>6 DEF StopJoin, UiStates
  <2> QED BY <1>6, <2>1, <2>2, <2>3, <2>4 DEF StopJoin, MotionOf
<1>7. CASE Apply
  <2> DEFINE shown == IF thread.state = Nothing THEN scr ELSE SetState(scr, thread.state)
  <2>1. /\ thread.state # Nothing => thread.state \in Displays
        /\ thread.volume # NoVolume => thread.volume \in Volumes
    BY DEF ThreadStates
  <2>2. shown \in Screens /\ MotionOf(shown)
    BY <2>1, ScreenSteps, ScreenAssumption DEF Volumes, ScreenAssumption
  <2>3. scr' = IF thread.volume = NoVolume THEN shown ELSE SetVolume(shown, thread.volume)
    BY <1>7 DEF Apply
  <2> HIDE DEF shown
  <2>4. "Idle" \in Displays
    BY DEF Displays
  <2>5. scr' \in Screens /\ MotionOf(scr')
    BY <2>1, <2>2, <2>3, <2>4, ScreenSteps
  <2>6. thread' \in ThreadStates
    BY <1>7 DEF Apply, NewThread, ThreadStates
  <2> QED BY <1>7, <2>5, <2>6 DEF Apply, MotionOf
<1>8. CASE FlushFails
  <2>1. thread' \in ThreadStates /\ ui' \in UiStates
    BY <1>8 DEF FlushFails, ThreadStates, UiStates
  <2> QED BY <1>8, <2>1 DEF FlushFails, MotionOf
<1> QED
  BY <1>1, <1>2, <1>3, <1>4, <1>5, <1>6, <1>7, <1>8 DEF UiThread

CameraSteps == CameraThread \/ FrameRead \/ ChildDies("alive") \/ ChildDies("dying")

LEMMA TypedCamera ==
  ASSUME Typed, CameraSteps
  PROVE  Typed'
<1>1. cam' \in CamStates /\ UNCHANGED <<scr, ui, thread, app, hist>>
  BY DEF Typed, CameraSteps, CameraThread, FrameRead, ChildDies, Fork, ForkFails, StoreProcess,
     CheckStop, PipeEnds, CloseCamera, Reap, ForgetProcess, Camera, Next_, Terminated, CamStates
<1> QED
  BY <1>1 DEF Typed, MotionOf

LEMMA TypedApplication ==
  ASSUME Typed, Application
  PROVE  Typed'
<1> USE DEF Typed, Actor, InLoop
<1>1. UNCHANGED <<scr, thread, cam, hist>>
  BY DEF Application, Opened, Close, Closed, Turn, PollVolumeChange, ApplyVolume, PollAction
<1>2. ASSUME app' \in AppStates, ui' \in UiStates
      PROVE  Typed'
  BY <1>1, <1>2 DEF MotionOf
<1>3. CASE Opened
  <2>1. app.volume \in Volumes /\ "Offline" \in Displays
    BY DEF AppStates, Displays
  <2>2. ui' \in UiStates
    BY <1>3, <2>1, SetUi DEF Opened
  <2>3. app' \in AppStates
    BY <1>3 DEF Opened, AppStates
  <2> QED BY <1>2, <2>2, <2>3
<1>4. CASE Close \/ Closed
  <2>1. app' \in AppStates
    BY <1>4 DEF Close, Closed, AppStates
  <2>2. ui' \in UiStates
    BY <1>4 DEF Close, Closed, UiStates
  <2> QED BY <1>2, <2>1, <2>2
<1>5. CASE Turn
  <2>1. PICK state \in Displays \cup {"CancelPending"} :
          /\ app' = [app EXCEPT !.state = state]
          /\ ui' = IF state = "CancelPending" THEN ui ELSE SetUiState(ui, state)
    BY <1>5 DEF Turn
  <2>2. app' \in AppStates
    BY <2>1 DEF AppStates
  <2>3. ui' \in UiStates
    BY <2>1, SetUi, ScreenAssumption DEF Volumes, ScreenAssumption
  <2> QED BY <1>2, <2>2, <2>3
<1>6. CASE PollVolumeChange
  <2>1. ui' \in UiStates
    BY <1>6 DEF PollVolumeChange, UiStates
  <2>2. /\ ui.pending \in Volumes \cup {NoVolume} /\ ui.committed \in BOOLEAN
    BY DEF UiStates
  <2>3. app' \in AppStates
    BY <1>6, <2>2 DEF PollVolumeChange, AppStates
  <2> QED BY <1>2, <2>1, <2>3
<1>7. CASE ApplyVolume
  <2>1. app.polled \in Volumes \X BOOLEAN
    BY <1>7 DEF ApplyVolume, AppStates
  <2>2. app.polled[1] \in Volumes
    BY <2>1
  <2>3. ui' \in UiStates
    BY <1>7, <2>2, SetUi DEF ApplyVolume, Displays
  <2>4. app' \in AppStates
    BY <1>7, <2>2 DEF ApplyVolume, AppStates
  <2> QED BY <1>2, <2>3, <2>4
<1>8. CASE PollAction
  <2>1. CASE ui.actions = <<>>
    <3>1. app' \in AppStates /\ ui' = ui
      BY <1>8, <2>1 DEF PollAction, AppStates
    <3> QED BY <1>2, <3>1
  <2>2. CASE ui.actions # <<>>
    <3>1. QueueCap \in Nat /\ ui.actions \in Seq(Actions) /\ Len(ui.actions) <= QueueCap
      BY UiAssumption, Bounded DEF UiAssumption, UiStates
    <3>2. Head(ui.actions) \in Actions /\ Tail(ui.actions) \in Seq(Actions)
          /\ Len(Tail(ui.actions)) <= QueueCap
      BY <2>2, <3>1
    <3>3. Tail(ui.actions) \in BoundedSeq(Actions, QueueCap)
      BY <3>1, <3>2, Bounded
    <3>4. ui' \in UiStates
      BY <1>8, <2>2, <3>3 DEF PollAction, UiStates
    <3>5. Obeyed(Head(ui.actions)) \in AppStates
      BY <1>8, <3>2, ObeyedOne DEF PollAction
    <3>6. app' \in AppStates
      BY <1>8, <2>2, <3>5 DEF PollAction, AppStates
    <3> QED BY <1>2, <3>4, <3>6
  <2> QED BY <2>1, <2>2
<1> QED
  BY <1>3, <1>4, <1>5, <1>6, <1>7, <1>8 DEF Application

-----------------------------------------------------------------------------
(* The camera.                                                             *)

\* The UI thread holds no news of the camera.
Settled ==
  \/ thread.at \in {"init", "failed", "top", "apply", "lvgl"}
  \/ At("camera") /\ thread.camera = Nothing

\* A worker that runs while the UI thread is settled is wanted, or the wish to
\* stop it waits in the mailbox.
Wanted ==
  Settled /\ Running =>
    /\ ~ui.camera => ui.camera_dirty
    /\ ui.camera /\ ui.camera_dirty => hist.mixed

\* What the snapshot says of the camera is what was asked for, until the next
\* touch; it says "start" to a worker that runs only in the mixed case.
SnapshotHolds ==
  /\ thread.at \in {"camera", "join_old", "signal", "kill", "join", "apply"}
     /\ thread.camera # "end" => ~ui.camera_dirty
  /\ thread.at \in {"camera", "join_old"} /\ thread.camera = "start" =>
       ui.camera /\ (Running => hist.mixed)
  /\ At("join_old") => thread.camera = "start"
  /\ thread.at \in {"signal", "kill", "join"} => thread.camera \in {"stop", "end"}

\* There is a child only while the camera thread is between the fork and the
\* last wait.
ChildOfWorker ==
  /\ cam.at \in {"none", "start", "reaped", "done"} => cam.child = "none"
  /\ At("ended") => cam.at = "none"

CameraInv == Wanted /\ SnapshotHolds /\ ChildOfWorker

LEMMA CameraFinger ==
  ASSUME Typed, CameraInv, Finger
  PROVE  CameraInv'
<1>1. PICK s, u : Touch(s, u) /\ Touched(s, u)
  BY FingerTouches DEF Typed
<1>2. /\ thread.at = "lvgl" /\ thread' = thread /\ cam' = cam
      /\ \/ ui'.camera = ui.camera /\ ui'.camera_dirty = ui.camera_dirty
         \/ ui'.camera # ui.camera /\ ui'.camera_dirty
      /\ hist'.mixed <=> hist.mixed \/ (Running /\ ui.camera_dirty /\ ui'.camera /\ ~ui.camera)
      /\ ui.camera \in BOOLEAN /\ ui'.camera \in BOOLEAN
      /\ ui.camera_dirty \in BOOLEAN /\ ui'.camera_dirty \in BOOLEAN
  BY <1>1 DEF Touch, Touched, SameCamera, Steady, Typed, UiStates
<1> QED
  BY <1>2 DEF CameraInv, Wanted, SnapshotHolds, ChildOfWorker, Settled, Running, At

LEMMA CameraUiThread ==
  ASSUME Typed, CameraInv, UiThread
  PROVE  CameraInv'
<1> USE DEF Typed, CameraInv, Wanted, SnapshotHolds, ChildOfWorker, Settled, Running, At, Goes
<1>1. CASE Initialize
  BY <1>1 DEF Initialize, UiStates, ThreadStates
<1>2. CASE InitializeFails
  BY <1>2 DEF InitializeFails, UiStates, ThreadStates
<1>3. CASE TakeSnapshot
  BY <1>3 DEF TakeSnapshot, Snapshot, UiStates, ThreadStates, Nothing
<1>4. CASE LeaveLoop
  BY <1>4 DEF LeaveLoop, UiStates, ThreadStates
<1>5. CASE CameraStays
  BY <1>5 DEF CameraStays, UiStates, ThreadStates
<1>6. CASE StartCamera
  BY <1>6 DEF StartCamera, UiStates, ThreadStates
<1>7. CASE JoinOld
  BY <1>7 DEF JoinOld, UiStates, ThreadStates, NoCamera, CamStates
<1>8. CASE StopCamera
  BY <1>8 DEF StopCamera, UiStates, ThreadStates, CamStates
<1>9. CASE StopSignal
  BY <1>9 DEF StopSignal, UiStates, ThreadStates, CamStates, Terminated
<1>10. CASE StopKill
  BY <1>10 DEF StopKill, UiStates, ThreadStates, CamStates, Killed
<1>11. CASE StopJoin
  BY <1>11 DEF StopJoin, UiStates, ThreadStates, CamStates
<1>12. CASE Apply
  BY <1>12 DEF Apply, NewThread, UiStates, ThreadStates
<1>13. CASE FrameDone
  BY <1>13 DEF FrameDone, UiStates, ThreadStates
<1>14. CASE FlushFails
  BY <1>14 DEF FlushFails, UiStates, ThreadStates
<1> QED
  BY <1>1, <1>2, <1>3, <1>4, <1>5, <1>6, <1>7, <1>8, <1>9, <1>10, <1>11, <1>12, <1>13, <1>14
     DEF UiThread

LEMMA CameraCamera ==
  ASSUME Typed, CameraInv, CameraSteps
  PROVE  CameraInv'
<1>1. /\ UNCHANGED <<ui, thread, hist>> /\ (Running' => Running) /\ cam.at # "none"
      /\ cam'.at \in {"none", "start", "reaped", "done"} => cam'.child = "none"
  BY DEF Typed, CameraInv, ChildOfWorker, CameraSteps, CameraThread, FrameRead, ChildDies, Fork,
     ForkFails, StoreProcess, CheckStop, PipeEnds, CloseCamera, Reap, ForgetProcess, Camera,
     Next_, Terminated, CamStates, Running
<1> QED
  BY <1>1 DEF CameraInv, Wanted, SnapshotHolds, ChildOfWorker, Settled, At

LEMMA CameraApplication ==
  ASSUME Typed, CameraInv, Application
  PROVE  CameraInv'
<1>1. UNCHANGED <<thread, cam, hist>>
  BY DEF Application, Opened, Close, Closed, Turn, PollVolumeChange, ApplyVolume, PollAction, Actor
<1>2. \A state, volume :
        LET v == SetUiVolume(ui, volume)
            w == SetUiState(v, state)
            x == SetUiState(ui, state)
        IN /\ v.camera = ui.camera /\ v.camera_dirty = ui.camera_dirty
           /\ w.camera = ui.camera /\ w.camera_dirty = ui.camera_dirty
           /\ x.camera = ui.camera /\ x.camera_dirty = ui.camera_dirty
  BY DEF SetUiState, SetUiVolume, UiStates, Typed
<1>3. ui'.camera = ui.camera /\ ui'.camera_dirty = ui.camera_dirty
  <2>1. CASE Opened
    BY <1>2, <2>1 DEF Opened
  <2>2. CASE Close \/ Closed \/ PollVolumeChange \/ PollAction
    BY <2>2 DEF Close, Closed, PollVolumeChange, PollAction, Typed, UiStates
  <2>3. CASE Turn
    BY <1>2, <2>3 DEF Turn
  <2>4. CASE ApplyVolume
    BY <1>2, <2>4 DEF ApplyVolume
  <2> QED
    BY <2>1, <2>2, <2>3, <2>4 DEF Application
<1> QED
  BY <1>1, <1>3 DEF CameraInv, Wanted, SnapshotHolds, ChildOfWorker, Settled, Running, At

-----------------------------------------------------------------------------
(* The volume.                                                             *)

InUse == app.at \in {"volume", "action"}

\* The actor sets the volume of the screen together with its own.
SetTogether ==
  /\ ui.ready /\ InUse => ui.volume = app.volume
  /\ InUse => thread.at \notin {"init", "failed"}

\* Where the volume that ui asks for is, or the newer one that the finger has put
\* on the screen.
VolumeOnItsWay ==
  /\ ui.ready => \/ ui.volume_dirty \/ thread.volume = ui.volume \/ scr.volume = ui.volume
                 \/ ui.pending = scr.volume
                 \/ app.polled # <<>> /\ app.polled[1] = scr.volume
  /\ thread.volume # NoVolume => thread.volume = ui.volume \/ ui.volume_dirty
  /\ thread.at \in {"init", "top", "lvgl"} => thread.volume = NoVolume

CommitWaits == ui.pending # NoVolume /\ ui.committed

\* What still has to happen before the volume is saved; a preview alone is left
\* only under the finger.
SaveOnItsWay ==
  /\ app.saved = app.volume \/ ui.pressed \/ CommitWaits \/ (app.polled # <<>> /\ app.polled[2])
  /\ ui.pending # NoVolume /\ ~ui.committed => ui.pressed
  /\ app.polled # <<>> /\ ~app.polled[2] => ui.pressed \/ CommitWaits

VolumeInv == SetTogether /\ VolumeOnItsWay /\ SaveOnItsWay

LEMMA NoVolumeIsNone == NoVolume \notin Volumes
BY ScreenAssumption DEF ScreenAssumption, NoVolume, Volumes

LEMMA VolumeFinger ==
  ASSUME Typed, VolumeInv, Finger
  PROVE  VolumeInv'
<1>1. PICK s, u : Touch(s, u) /\ Touched(s, u)
  BY FingerTouches DEF Typed
<1>2. s.volume \in Volumes /\ s.volume # NoVolume
  BY <1>1, NoVolumeIsNone DEF Touched, Screens
<1>3. /\ thread' = thread /\ app' = app
      /\ ui'.volume = ui.volume /\ ui'.volume_dirty = ui.volume_dirty /\ ui'.ready = ui.ready
  BY <1>1 DEF Touch, Touched, Steady
<1>4. \/ /\ scr'.volume = scr.volume /\ ui'.pending = ui.pending /\ ui'.committed = ui.committed
         /\ ui.pressed => ui'.pressed
      \/ /\ ui'.pending = scr'.volume /\ ui'.pending # NoVolume
         /\ ui'.committed \/ (ui.pressed /\ ui'.pressed)
  BY <1>1, <1>2 DEF Touch, Touched, SameVolume
<1> QED
  BY <1>3, <1>4 DEF VolumeInv, SetTogether, InUse, VolumeOnItsWay, SaveOnItsWay, CommitWaits

LEMMA VolumeUiThread ==
  ASSUME Typed, VolumeInv, UiThread
  PROVE  VolumeInv'
<1> USE DEF VolumeInv, SetTogether, InUse, VolumeOnItsWay, SaveOnItsWay, CommitWaits, Goes, At
<1>1. /\ ui \in UiStates /\ thread \in ThreadStates /\ ui.volume \in Volumes
      /\ ui.volume # NoVolume /\ scr \in Screens /\ MotionOf(scr)
  BY NoVolumeIsNone DEF Typed, UiStates
<1>2. /\ app' = app /\ ui'.volume = ui.volume /\ ui'.pending = ui.pending
      /\ ui'.committed = ui.committed /\ ui'.pressed = ui.pressed
  BY <1>1, ZenonT(40) DEF UiThread, Initialize, InitializeFails, TakeSnapshot, Snapshot, LeaveLoop,
     CameraStays, StartCamera, JoinOld, StopCamera, StopSignal, StopKill, StopJoin, Apply,
     FrameDone, FlushFails, UiStates
<1>3. CASE Initialize
  <2>1. ui.state \in Displays
    BY <1>1 DEF UiStates
  <2>2. SetState(scr, ui.state) \in Screens /\ MotionOf(SetState(scr, ui.state))
    BY <1>1, <2>1, ScreenSteps
  <2>3. scr'.volume = ui.volume
    BY <1>1, <1>3, <2>1, <2>2, ScreenSteps DEF Initialize
  <2>4. thread'.at = "top" /\ thread'.volume = thread.volume /\ thread.at = "init"
    BY <1>1, <1>3 DEF Initialize, ThreadStates
  <2> QED BY <1>2, <2>3, <2>4
<1>4. CASE TakeSnapshot
  <2>1. /\ thread.at = "top" /\ thread'.at = "camera" /\ scr' = scr /\ ui'.ready = ui.ready
        /\ thread'.volume = IF ui.volume_dirty THEN ui.volume ELSE NoVolume
    BY <1>1, <1>4 DEF TakeSnapshot, Snapshot, UiStates
  <2> QED BY <1>1, <1>2, <2>1
<1>5. CASE Apply
  <2> DEFINE shown == IF thread.state = Nothing THEN scr ELSE SetState(scr, thread.state)
  <2>1. thread.state # Nothing => thread.state \in Displays
    BY <1>1 DEF ThreadStates
  <2>2. shown \in Screens /\ MotionOf(shown) /\ shown.volume = scr.volume
    BY <1>1, <2>1, ScreenSteps
  <2>3. scr' = IF thread.volume = NoVolume THEN shown ELSE SetVolume(shown, thread.volume)
    BY <1>5 DEF Apply
  <2> HIDE DEF shown
  <2>4. "Idle" \in Displays /\ (thread.volume # NoVolume => thread.volume \in Volumes)
    BY <1>1 DEF Displays, ThreadStates
  <2>5. scr'.volume = IF thread.volume = NoVolume THEN scr.volume ELSE thread.volume
    BY <2>2, <2>3, <2>4, ScreenSteps
  <2>6. /\ thread.at = "apply" /\ thread'.at = "lvgl" /\ thread'.volume = NoVolume /\ ui' = ui
    BY <1>5 DEF Apply, NewThread
  <2> QED BY <1>1, <1>2, <2>5, <2>6
<1>6. CASE \/ InitializeFails \/ LeaveLoop \/ CameraStays \/ StartCamera \/ JoinOld \/ StopCamera
           \/ StopSignal \/ StopKill \/ StopJoin \/ FrameDone \/ FlushFails
  <2>1. /\ scr' = scr /\ ui'.volume_dirty = ui.volume_dirty /\ (ui'.ready => ui.ready)
        /\ thread'.volume = thread.volume
    BY <1>1, <1>6 DEF InitializeFails, LeaveLoop, CameraStays, StartCamera, JoinOld, StopCamera,
       StopSignal, StopKill, StopJoin, FrameDone, FlushFails, UiStates, ThreadStates
  <2>2. /\ thread'.at \in {"init", "top", "lvgl"} => thread.at \in {"init", "top", "lvgl"}
        /\ thread.at \in {"init", "failed"} <=> thread'.at \in {"init", "failed"}
    BY <1>1, <1>6 DEF InitializeFails, LeaveLoop, CameraStays, StartCamera, JoinOld, StopCamera,
       StopSignal, StopKill, StopJoin, FrameDone, FlushFails, ThreadStates
  <2> QED BY <1>2, <2>1, <2>2
<1> QED
  BY <1>3, <1>4, <1>5, <1>6 DEF UiThread

LEMMA VolumeApplication ==
  ASSUME Typed, VolumeInv, Application
  PROVE  VolumeInv'
<1> USE DEF VolumeInv, SetTogether, InUse, VolumeOnItsWay, SaveOnItsWay, CommitWaits
<1>1. /\ ui \in UiStates /\ thread \in ThreadStates /\ app \in AppStates
      /\ ui.volume \in Volumes /\ ui.volume # NoVolume /\ scr.volume \in Volumes
      /\ scr.volume # NoVolume
  BY NoVolumeIsNone DEF Typed, UiStates, Screens
<1>2. scr' = scr /\ thread' = thread
  BY DEF Application, Opened, Close, Closed, Turn, PollVolumeChange, ApplyVolume, PollAction, Actor
\* SetState leaves the volume alone, and SetVolume flags what it changes.
<1>3. \A u \in UiStates, state \in Displays :
        LET v == SetUiState(u, state)
        IN /\ v.volume = u.volume /\ v.volume_dirty = u.volume_dirty /\ v.ready = u.ready
           /\ v.pending = u.pending /\ v.committed = u.committed /\ v.pressed = u.pressed
  BY DEF SetUiState, UiStates
<1>4. \A volume \in Volumes :
        LET v == SetUiVolume(ui, volume)
        IN /\ v.ready = ui.ready
           /\ v.pending = ui.pending /\ v.committed = ui.committed /\ v.pressed = ui.pressed
           /\ \/ ~ui.ready /\ v.volume = ui.volume /\ v.volume_dirty = ui.volume_dirty
              \/ v.volume = volume /\ ui.volume = volume /\ v.volume_dirty = ui.volume_dirty
              \/ v.volume = volume /\ v.volume_dirty
  BY <1>1 DEF SetUiVolume, UiStates
<1>5. CASE Opened
  <2>1. app.volume \in Volumes /\ "Offline" \in Displays
    BY <1>1 DEF AppStates, Displays
  <2>2. SetUiVolume(ui, app.volume) \in UiStates
    BY <1>1, <2>1, SetUi
  <2> DEFINE v == SetUiVolume(ui, app.volume)
  <2>3. /\ v.ready = ui.ready
        /\ v.pending = ui.pending /\ v.committed = ui.committed /\ v.pressed = ui.pressed
        /\ \/ ~ui.ready /\ v.volume = ui.volume /\ v.volume_dirty = ui.volume_dirty
           \/ v.volume = app.volume /\ ui.volume = app.volume /\ v.volume_dirty = ui.volume_dirty
           \/ v.volume = app.volume /\ v.volume_dirty
    BY <1>4, <2>1
  <2>4. ui' = SetUiState(v, "Offline")
    BY <1>5 DEF Opened
  <2> HIDE DEF v
  <2>5. /\ ui'.volume = v.volume /\ ui'.volume_dirty = v.volume_dirty /\ ui'.ready = v.ready
        /\ ui'.pending = v.pending /\ ui'.committed = v.committed /\ ui'.pressed = v.pressed
    BY <1>3, <2>1, <2>2, <2>4 DEF v
  <2>6. /\ app'.volume = app.volume /\ app'.saved = app.saved /\ app'.polled = app.polled
        /\ thread.at \notin {"init", "failed"}
    BY <1>1, <1>5 DEF Opened, AppStates
  <2> QED BY <1>1, <1>2, <2>3, <2>5, <2>6
<1>6. CASE Close \/ Closed
  <2>1. /\ app'.at \in {"closing", "closed"}
        /\ app'.volume = app.volume /\ app'.saved = app.saved /\ app'.polled = app.polled
    BY <1>1, <1>6 DEF Close, Closed, AppStates
  <2>2. /\ ui'.volume = ui.volume /\ ui'.volume_dirty = ui.volume_dirty
        /\ ui'.pending = ui.pending /\ ui'.committed = ui.committed /\ ui'.pressed = ui.pressed
        /\ ui'.ready => ui.ready
    BY <1>1, <1>6 DEF Close, Closed, UiStates
  <2> QED BY <1>2, <2>1, <2>2
<1>7. CASE Turn
  <2>1. PICK state \in Displays \cup {"CancelPending"} :
          /\ app' = [app EXCEPT !.state = state]
          /\ ui' = IF state = "CancelPending" THEN ui ELSE SetUiState(ui, state)
    BY <1>7 DEF Turn
  <2>2. /\ app'.at = app.at /\ app'.volume = app.volume /\ app'.saved = app.saved
        /\ app'.polled = app.polled
    BY <1>1, <2>1 DEF AppStates
  <2>3. /\ ui'.volume = ui.volume /\ ui'.volume_dirty = ui.volume_dirty /\ ui'.ready = ui.ready
        /\ ui'.pending = ui.pending /\ ui'.committed = ui.committed /\ ui'.pressed = ui.pressed
    BY <1>1, <1>3, <2>1
  <2> QED BY <1>2, <2>2, <2>3
<1>8. CASE PollVolumeChange
  <2>1. /\ ui'.volume = ui.volume /\ ui'.volume_dirty = ui.volume_dirty /\ ui'.ready = ui.ready
        /\ ui'.pending = NoVolume /\ ui'.pressed = ui.pressed
    BY <1>1, <1>8 DEF PollVolumeChange, UiStates
  <2>2. /\ app.at = "volume" /\ app.polled = <<>>
        /\ app'.at = "action" /\ app'.volume = app.volume /\ app'.saved = app.saved
        /\ app'.polled = IF ui.pending = NoVolume THEN <<>> ELSE <<ui.pending, ui.committed>>
    BY <1>1, <1>8 DEF PollVolumeChange, InLoop, AppStates
  <2> QED BY <1>1, <1>2, <2>1, <2>2
<1>9. CASE ApplyVolume
  <2>1. app.polled # <<>> /\ app.polled[1] \in Volumes
    BY <1>1, <1>9 DEF ApplyVolume, AppStates
  <2>2. /\ app'.at = app.at /\ app'.volume = app.polled[1] /\ app'.polled = <<>>
        /\ app.polled[2] => app'.saved = app'.volume
    BY <1>1, <1>9 DEF ApplyVolume, AppStates
  <2>3. ui' = SetUiVolume(ui, app.polled[1])
    BY <1>9 DEF ApplyVolume
  <2> QED BY <1>1, <1>2, <1>4, <2>1, <2>2, <2>3
<1>10. CASE PollAction
  <2>1. /\ ui'.volume = ui.volume /\ ui'.volume_dirty = ui.volume_dirty /\ ui'.ready = ui.ready
        /\ ui'.pending = ui.pending /\ ui'.committed = ui.committed /\ ui'.pressed = ui.pressed
    BY <1>1, <1>10 DEF PollAction, UiStates
  <2>2. app.at = "action" /\ app.polled = <<>>
    BY <1>10 DEF PollAction, InLoop
  <2>4. ui.actions # <<>> => Head(ui.actions) \in Actions
    BY <1>1, UiAssumption, Bounded DEF UiAssumption, UiStates
  <2>5. \A a \in AppStates :
          LET b == [a EXCEPT !.at = "volume"]
          IN b.at = "volume" /\ b.volume = a.volume /\ b.saved = a.saved /\ b.polled = a.polled
    BY DEF AppStates
  <2>6. /\ app'.at = "volume" /\ app'.volume = app.volume
        /\ \/ app'.polled = <<>> /\ app'.saved \in {app.saved, app.volume}
           \/ app'.polled # <<>> /\ app'.polled[2] /\ app'.saved = app.saved
    <3>1. CASE ui.actions = <<>>
      <4>1. app' = [app EXCEPT !.at = "volume"]
        BY <1>10, <3>1 DEF PollAction
      <4> QED BY <1>1, <2>2, <2>5, <4>1
    <3>2. CASE ui.actions # <<>>
      <4> DEFINE a == Obeyed(Head(ui.actions))
      <4>1. /\ a \in AppStates /\ a.volume = app.volume
            /\ \/ a.polled = <<>> /\ a.saved \in {app.saved, app.volume}
               \/ a.polled # <<>> /\ a.polled[2] /\ a.saved = app.saved
        BY <1>1, <2>2, <2>4, <3>2, ObeyedOne
      <4>2. app' = [a EXCEPT !.at = "volume"]
        BY <1>10, <3>2 DEF PollAction
      <4> HIDE DEF a
      <4> QED BY <2>5, <4>1, <4>2
    <3> QED BY <3>1, <3>2
  <2> QED BY <1>2, <2>1, <2>2, <2>6
<1> QED
  BY <1>5, <1>6, <1>7, <1>8, <1>9, <1>10 DEF Application

-----------------------------------------------------------------------------
(* The state of the dialogue.                                              *)

\* The finger shows Listening before the actor has heard of the interrupt.
Anticipated ==
  /\ scr.state = "Listening" /\ ui.state = "Speaking"
  /\ "Interrupt" \in ToSet(ui.actions) \/ app.state = "CancelPending" \/ hist.displaced

\* Where the state that ui asks for is.
StateOnItsWay ==
  /\ ui.ready => ui.state_dirty \/ thread.state = ui.state \/ scr.state = ui.state \/ Anticipated
  /\ thread.state # Nothing => thread.state = ui.state \/ ui.state_dirty
  /\ thread.at \in {"init", "top", "lvgl"} => thread.state = Nothing

\* What the actor shows is the state it is in.
StateSet ==
  /\ ui.ready /\ InUse /\ app.state # "CancelPending" => ui.state = app.state
  /\ app.at = "opening" => app.state = "Offline"

StateInv == StateOnItsWay /\ StateSet

LEMMA NothingIsNone == Nothing \notin Displays
BY DEF Nothing, Displays

LEMMA StateFinger ==
  ASSUME Typed, StateInv, Finger
  PROVE  StateInv'
<1>1. PICK s, u : Touch(s, u) /\ Touched(s, u)
  BY FingerTouches DEF Typed
<1>2. /\ thread' = thread /\ app' = app /\ thread.at = "lvgl"
      /\ ui'.state = ui.state /\ ui'.state_dirty = ui.state_dirty /\ ui'.ready = ui.ready
  BY <1>1 DEF Touch, Touched, Steady
<1>3. ui.actions \in Seq(Actions) /\ ui'.actions \in Seq(Actions)
  BY <1>1, UiAssumption, Bounded DEF UiAssumption, Touch, Touched, Steady, Typed, UiStates
\* An interrupt that waits goes on waiting, or is displaced.
<1>4. "Interrupt" \in ToSet(ui.actions) \/ hist.displaced =>
        "Interrupt" \in ToSet(ui'.actions) \/ hist'.displaced
  <2>1. hist'.displaced <=> \/ hist.displaced
                            \/ "Interrupt" \in ToSet(ui.actions) /\ ~IsPrefix(ui.actions, ui'.actions)
    BY <1>1 DEF Touch
  <2>2. IsPrefix(ui.actions, ui'.actions) => ToSet(ui.actions) \subseteq ToSet(ui'.actions)
    BY <1>3, PrefixKeeps
  <2> QED BY <2>1, <2>2
<1>5. \/ scr'.state = scr.state
      \/ scr.state = "Speaking" /\ scr'.state = "Listening" /\ "Interrupt" \in ToSet(ui'.actions)
  BY <1>1 DEF Touch, Touched
<1>6. ui.state \in Displays
  BY DEF Typed, UiStates
<1> QED
  BY <1>2, <1>4, <1>5, <1>6, NothingIsNone
     DEF StateInv, StateOnItsWay, StateSet, InUse, Anticipated

LEMMA StateUiThread ==
  ASSUME Typed, VolumeInv, StateInv, UiThread
  PROVE  StateInv'
<1> USE DEF StateInv, StateOnItsWay, StateSet, InUse, Anticipated, Goes, At
<1>1. /\ ui \in UiStates /\ thread \in ThreadStates /\ ui.state \in Displays
      /\ ui.state # Nothing /\ scr \in Screens /\ MotionOf(scr)
  BY NothingIsNone DEF Typed, UiStates
<1>2. app' = app /\ ui'.state = ui.state /\ ui'.actions = ui.actions
  BY <1>1 DEF UiThread, Initialize, InitializeFails, TakeSnapshot, Snapshot, LeaveLoop,
     CameraStays, StartCamera, JoinOld, StopCamera, StopSignal, StopKill, StopJoin, Apply,
     FrameDone, FlushFails, UiStates
<1>3. hist'.displaced = hist.displaced
  BY DEF Typed, HistStates, UiThread, Initialize, InitializeFails, TakeSnapshot, LeaveLoop,
     CameraStays, StartCamera, JoinOld, StopCamera, StopSignal, StopKill, StopJoin, Apply,
     FrameDone, FlushFails
<1>4. CASE Initialize
  <2>1. ui.volume \in Volumes
    BY <1>1 DEF UiStates
  <2>2. SetState(scr, ui.state) \in Screens /\ MotionOf(SetState(scr, ui.state))
        /\ SetState(scr, ui.state).state = ui.state
    BY <1>1, <2>1, ScreenSteps
  <2>3. scr'.state = ui.state
    BY <1>1, <1>4, <2>1, <2>2, ScreenSteps DEF Initialize
  <2>4. thread'.at = "top" /\ thread'.state = thread.state /\ thread.at = "init"
    BY <1>1, <1>4 DEF Initialize, ThreadStates
  <2>5. ~InUse
    BY <2>4 DEF VolumeInv, SetTogether
  <2> QED BY <1>2, <1>3, <2>3, <2>4, <2>5
<1>5. CASE TakeSnapshot
  <2>1. /\ thread.at = "top" /\ thread'.at = "camera" /\ scr' = scr /\ ui'.ready = ui.ready
        /\ thread'.state = IF ui.state_dirty THEN ui.state ELSE Nothing
    BY <1>1, <1>5 DEF TakeSnapshot, Snapshot, UiStates
  <2> QED BY <1>1, <1>2, <1>3, <2>1
<1>6. CASE Apply
  <2> DEFINE shown == IF thread.state = Nothing THEN scr ELSE SetState(scr, thread.state)
  <2>1. 0 \in Volumes /\ (thread.state # Nothing => thread.state \in Displays)
    BY <1>1, ScreenAssumption DEF ThreadStates, ScreenAssumption, Volumes
  <2>2. /\ shown \in Screens /\ MotionOf(shown)
        /\ shown.state = IF thread.state = Nothing THEN scr.state ELSE thread.state
    BY <1>1, <2>1, ScreenSteps
  <2>3. scr' = IF thread.volume = NoVolume THEN shown ELSE SetVolume(shown, thread.volume)
    BY <1>6 DEF Apply
  <2> HIDE DEF shown
  <2>4. thread.volume # NoVolume => thread.volume \in Volumes
    BY <1>1 DEF ThreadStates
  <2>5. scr'.state = IF thread.state = Nothing THEN scr.state ELSE thread.state
    BY <1>1, <2>2, <2>3, <2>4, ScreenSteps
  <2>6. /\ thread.at = "apply" /\ thread'.at = "lvgl" /\ thread'.state = Nothing /\ ui' = ui
    BY <1>6 DEF Apply, NewThread
  <2> QED BY <1>1, <1>2, <1>3, <2>5, <2>6
<1>7. CASE \/ InitializeFails \/ LeaveLoop \/ CameraStays \/ StartCamera \/ JoinOld \/ StopCamera
           \/ StopSignal \/ StopKill \/ StopJoin \/ FrameDone \/ FlushFails
  <2>1. /\ scr' = scr /\ ui'.state_dirty = ui.state_dirty /\ (ui'.ready => ui.ready)
        /\ thread'.state = thread.state
    BY <1>1, <1>7 DEF InitializeFails, LeaveLoop, CameraStays, StartCamera, JoinOld, StopCamera,
       StopSignal, StopKill, StopJoin, FrameDone, FlushFails, UiStates, ThreadStates
  <2>2. thread'.at \in {"init", "top", "lvgl"} => thread.at \in {"init", "top", "lvgl"}
    BY <1>1, <1>7 DEF InitializeFails, LeaveLoop, CameraStays, StartCamera, JoinOld, StopCamera,
       StopSignal, StopKill, StopJoin, FrameDone, FlushFails, ThreadStates
  <2> QED BY <1>2, <1>3, <2>1, <2>2
<1> QED
  BY <1>4, <1>5, <1>6, <1>7 DEF UiThread

LEMMA StateApplication ==
  ASSUME Typed, StateInv, Application
  PROVE  StateInv'
<1> USE DEF StateInv, StateOnItsWay, StateSet, InUse, Anticipated
<1>1. /\ ui \in UiStates /\ thread \in ThreadStates /\ app \in AppStates
      /\ ui.state \in Displays /\ ui.state # Nothing
  BY NothingIsNone DEF Typed, UiStates
<1>2. scr' = scr /\ thread' = thread /\ hist' = hist
  BY DEF Application, Opened, Close, Closed, Turn, PollVolumeChange, ApplyVolume, PollAction, Actor
\* SetVolume leaves the state alone, and SetState flags what it changes.
<1>3. \A volume \in Volumes :
        LET v == SetUiVolume(ui, volume)
        IN /\ v.state = ui.state /\ v.state_dirty = ui.state_dirty /\ v.ready = ui.ready
           /\ v.actions = ui.actions
  BY <1>1 DEF SetUiVolume, UiStates
<1>4. \A u \in UiStates, state \in Displays :
        LET v == SetUiState(u, state)
        IN /\ v.ready = u.ready /\ v.actions = u.actions
           /\ \/ ~u.ready /\ v.state = u.state /\ v.state_dirty = u.state_dirty
              \/ v.state = state /\ u.state = state /\ v.state_dirty = u.state_dirty
              \/ v.state = state /\ v.state_dirty
  BY ZenonT(40) DEF SetUiState, UiStates
<1>5. CASE Opened
  <2> DEFINE v == SetUiVolume(ui, app.volume)
  <2>1. app.volume \in Volumes /\ "Offline" \in Displays
    BY <1>1 DEF AppStates, Displays
  <2>2. v \in UiStates
    BY <1>1, <2>1, SetUi
  <2>3. /\ v.state = ui.state /\ v.state_dirty = ui.state_dirty /\ v.ready = ui.ready
        /\ v.actions = ui.actions
    BY <1>3, <2>1
  <2>4. ui' = SetUiState(v, "Offline")
    BY <1>5 DEF Opened
  <2> HIDE DEF v
  <2>5. /\ ui'.ready = v.ready /\ ui'.actions = v.actions
        /\ \/ ~v.ready /\ ui'.state = v.state /\ ui'.state_dirty = v.state_dirty
           \/ ui'.state = "Offline" /\ v.state = "Offline" /\ ui'.state_dirty = v.state_dirty
           \/ ui'.state = "Offline" /\ ui'.state_dirty
    BY <1>4, <2>1, <2>2, <2>4
  <2>6. app.at = "opening" /\ app'.at = "volume" /\ app'.state = app.state
    BY <1>1, <1>5 DEF Opened, AppStates
  <2> QED BY <1>1, <1>2, <2>3, <2>5, <2>6
<1>6. CASE Close \/ Closed \/ PollVolumeChange
  <2>1. /\ app'.at \in {"closing", "closed"} \/ (app'.at = "action" /\ app.at = "volume")
        /\ app'.state = app.state
    BY <1>1, <1>6 DEF Close, Closed, PollVolumeChange, InLoop, AppStates
  <2>2. /\ ui'.state = ui.state /\ ui'.state_dirty = ui.state_dirty /\ (ui'.ready => ui.ready)
        /\ ui'.actions = ui.actions
    BY <1>1, <1>6 DEF Close, Closed, PollVolumeChange, UiStates
  <2> QED BY <1>2, <2>1, <2>2
<1>7. CASE Turn
  <2>1. PICK state \in Displays \cup {"CancelPending"} :
          /\ app.at = "volume" /\ app' = [app EXCEPT !.state = state]
          /\ state = "Offline" \/ <<app.state, state>> \in Turns
          /\ ui' = IF state = "CancelPending" THEN ui ELSE SetUiState(ui, state)
    BY <1>7 DEF Turn, InLoop
  <2>2. app'.at = "volume" /\ app'.state = state
    BY <1>1, <2>1 DEF AppStates
  <2>3. app.state = "CancelPending" => state # "Speaking"
    BY <2>1 DEF Turns
  <2>4. CASE state = "CancelPending"
    BY <1>2, <2>1, <2>2, <2>4
  <2>5. CASE state # "CancelPending"
    <3>1. /\ ui'.ready = ui.ready /\ ui'.actions = ui.actions
          /\ \/ ~ui.ready /\ ui'.state = ui.state /\ ui'.state_dirty = ui.state_dirty
             \/ ui'.state = state /\ ui.state = state /\ ui'.state_dirty = ui.state_dirty
             \/ ui'.state = state /\ ui'.state_dirty
      BY <1>1, <1>4, <2>1, <2>5
    <3> QED BY <1>1, <1>2, <2>1, <2>2, <2>3, <3>1
  <2> QED BY <2>4, <2>5
<1>8. CASE ApplyVolume
  <2>1. app.polled[1] \in Volumes
    BY <1>1, <1>8 DEF ApplyVolume, AppStates
  <2>2. app'.at = app.at /\ app'.state = app.state
    BY <1>1, <1>8 DEF ApplyVolume, AppStates
  <2>3. /\ ui'.state = ui.state /\ ui'.state_dirty = ui.state_dirty /\ ui'.ready = ui.ready
        /\ ui'.actions = ui.actions
    BY <1>3, <1>8, <2>1 DEF ApplyVolume
  <2> QED BY <1>2, <2>2, <2>3
<1>9. CASE PollAction
  <2>1. ui'.state = ui.state /\ ui'.state_dirty = ui.state_dirty /\ ui'.ready = ui.ready
    BY <1>1, <1>9 DEF PollAction, UiStates
  <2>2. app.at = "action" /\ app.polled = <<>>
    BY <1>9 DEF PollAction, InLoop
  <2>3. \A a \in AppStates :
          LET b == [a EXCEPT !.at = "volume"] IN b.at = "volume" /\ b.state = a.state
    BY DEF AppStates
  <2>4. CASE ui.actions = <<>>
    <3>1. ui' = ui /\ app' = [app EXCEPT !.at = "volume"]
      BY <1>9, <2>4 DEF PollAction
    <3>2. app'.at = "volume" /\ app'.state = app.state
      BY <1>1, <2>3, <3>1
    <3> QED BY <1>2, <2>2, <3>1, <3>2
  <2>5. CASE ui.actions # <<>>
    <3> DEFINE action == Head(ui.actions)
               a == Obeyed(action)
    <3>1. ui.actions \in Seq(Actions)
      BY <1>1, UiAssumption, Bounded DEF UiAssumption, UiStates
    <3>2. action \in Actions /\ ui'.actions = Tail(ui.actions)
      BY <1>1, <1>9, <2>5, <3>1 DEF PollAction, UiStates
    <3>3. "Interrupt" \in ToSet(ui.actions) =>
            action = "Interrupt" \/ "Interrupt" \in ToSet(Tail(ui.actions))
      <4>1. ASSUME NEW i \in DOMAIN ui.actions, i # 1
            PROVE  i - 1 \in DOMAIN Tail(ui.actions) /\ Tail(ui.actions)[i - 1] = ui.actions[i]
        BY <2>5, <3>1, <4>1
      <4>2. action = ui.actions[1]
        BY <2>5, <3>1
      <4>3. ASSUME NEW i \in DOMAIN ui.actions, ui.actions[i] = "Interrupt", action # "Interrupt"
            PROVE  "Interrupt" \in ToSet(Tail(ui.actions))
        BY <4>1, <4>2, <4>3 DEF ToSet
      <4> HIDE DEF action
      <4> QED BY <4>3 DEF ToSet
    <3>4. /\ a \in AppStates
          /\ \/ a.state = app.state /\ (action = "Interrupt" => app.state # "Speaking")
             \/ a.state = "CancelPending"
      BY <1>1, <2>2, <3>2, ObeyedOne
    <3>5. app' = [a EXCEPT !.at = "volume"]
      BY <1>9, <2>5 DEF PollAction
    <3> HIDE DEF a, action
    <3>6. app'.at = "volume" /\ app'.state = a.state
      BY <2>3, <3>4, <3>5
    <3> QED BY <1>1, <1>2, <2>1, <2>2, <3>2, <3>3, <3>4, <3>6
  <2> QED BY <2>4, <2>5
<1> QED
  BY <1>5, <1>6, <1>7, <1>8, <1>9 DEF Application

-----------------------------------------------------------------------------
(* The theorems.                                                           *)

UiInv == Typed /\ scenario \in Scenarios /\ CameraInv /\ VolumeInv /\ StateInv

LEMMA UiInit == Init => UiInv
<1> SUFFICES ASSUME Init PROVE UiInv
  OBVIOUS
<1> USE DEF Init
<1>1. MaxVolume \in Volumes \ {0} /\ QueueCap \in Nat
  BY ScreenAssumption, UiAssumption DEF ScreenAssumption, UiAssumption, Volumes
<1>2. scr \in Screens /\ MotionOf(scr)
  BY <1>1 DEF NewScreen, ShowHome, StartHomeOrbMotion, StopOrbMotion, Screens, MotionOf, Pages,
     Displays
<1>3. <<>> \in BoundedSeq(Actions, QueueCap)
  <2>1. <<>> \in Seq(Actions) /\ Len(<<>>) <= QueueCap
    BY <1>1
  <2> QED BY <1>1, <2>1, Bounded
<1>4. ui \in UiStates
  BY <1>1, <1>3 DEF NewUi, UiStates, Displays
<1>5. thread \in ThreadStates /\ cam \in CamStates /\ hist \in HistStates
  BY DEF NewThread, ThreadStates, NoCamera, CamStates, NoHistory, HistStates
<1>6. PICK volume \in Volumes : app = NewApp(volume)
  OBVIOUS
<1>7. app \in AppStates
  BY <1>6 DEF NewApp, AppStates, Displays
<1>8. CameraInv
  BY DEF CameraInv, Wanted, SnapshotHolds, ChildOfWorker, Running, At, NoCamera, NewThread
<1>9. VolumeInv
  BY <1>6 DEF VolumeInv, SetTogether, InUse, VolumeOnItsWay, SaveOnItsWay, CommitWaits, NewUi,
     NewThread, NewApp
<1>10. StateInv
  BY <1>6 DEF StateInv, StateOnItsWay, StateSet, InUse, NewUi, NewThread, NewApp
<1> QED
  BY <1>2, <1>4, <1>5, <1>7, <1>8, <1>9, <1>10 DEF UiInv, Typed

LEMMA UiNext == UiInv /\ [Next]_vars => UiInv'
<1> SUFFICES ASSUME UiInv, [Next]_vars PROVE UiInv'
  OBVIOUS
<1>1. Typed /\ CameraInv /\ VolumeInv /\ StateInv
  BY DEF UiInv
<1>2. CASE Finger
  <2>1. scenario' = scenario
    BY <1>2 DEF Finger, SwipeOnly, AppClicked, BackClicked, MuteClicked, OrbClicked,
       SliderPressed, SliderDragged, SliderReleased, Touch
  <2> QED
    BY <1>1, <1>2, <2>1, TypedFinger, CameraFinger, VolumeFinger, StateFinger DEF UiInv
<1>3. CASE UiThread
  <2>1. scenario' = scenario
    BY <1>3 DEF UiThread, Initialize, InitializeFails, TakeSnapshot, LeaveLoop, CameraStays,
       StartCamera, JoinOld, StopCamera, StopSignal, StopKill, StopJoin, Apply, FrameDone,
       FlushFails
  <2> QED
    BY <1>1, <1>3, <2>1, TypedUiThread, CameraUiThread, VolumeUiThread, StateUiThread DEF UiInv
<1>4. CASE CameraSteps
  <2>1. UNCHANGED <<scenario, scr, ui, thread, app, hist>>
    BY <1>4 DEF CameraSteps, CameraThread, FrameRead, ChildDies, Fork, ForkFails, StoreProcess,
       CheckStop, PipeEnds, CloseCamera, Reap, ForgetProcess, Camera
  <2>2. VolumeInv'
    BY <1>1, <2>1 DEF VolumeInv, SetTogether, InUse, VolumeOnItsWay, SaveOnItsWay, CommitWaits
  <2>3. StateInv'
    BY <1>1, <2>1 DEF StateInv, StateOnItsWay, StateSet, InUse, Anticipated
  <2> QED
    BY <1>1, <1>4, <2>1, <2>2, <2>3, TypedCamera, CameraCamera DEF UiInv
<1>5. CASE Application
  <2>1. scenario' = scenario
    BY <1>5 DEF Application, Opened, Close, Closed, Turn, PollVolumeChange, ApplyVolume,
       PollAction, Actor
  <2> QED
    BY <1>1, <1>5, <2>1, TypedApplication, CameraApplication, VolumeApplication, StateApplication
       DEF UiInv
<1>6. CASE UNCHANGED vars
  <2>1. Typed' /\ CameraInv'
    BY <1>1, <1>6 DEF vars, Typed, MotionOf, CameraInv, Wanted, SnapshotHolds, ChildOfWorker,
       Settled, Running, At
  <2>2. VolumeInv'
    BY <1>1, <1>6 DEF vars, VolumeInv, SetTogether, InUse, VolumeOnItsWay, SaveOnItsWay,
       CommitWaits
  <2>3. StateInv'
    BY <1>1, <1>6 DEF vars, StateInv, StateOnItsWay, StateSet, InUse, Anticipated
  <2> QED BY <1>6, <2>1, <2>2, <2>3 DEF UiInv, vars
<1> QED
  BY <1>2, <1>3, <1>4, <1>5, <1>6 DEF Next, CameraSteps

LEMMA UiAlways == FairSpec => []UiInv
BY UiInit, UiNext, PTL DEF FairSpec

\* Every page has its own animation; StartCamera waits only for a worker that was
\* told to stop, except when the page was left and entered again between two
\* snapshots; and when Run has left its loop, neither the camera's thread nor its
\* process is left.
THEOREM ScreenAndCameraSound == FairSpec => []UiSound
<1>1. UiInv => UiSound
  <2> SUFFICES ASSUME UiInv PROVE UiSound
    OBVIOUS
  <2>1. TypeOK /\ MotionMatchesPage
    BY TypedMeans DEF UiInv
  <2>2. StartFindsNoWorker /\ NoOrphan
    BY DEF UiInv, CameraInv, SnapshotHolds, ChildOfWorker, StartFindsNoWorker, NoOrphan, At
  <2> QED BY <2>1, <2>2 DEF UiSound
<1> QED
  BY <1>1, UiAlways, PTL

\* Slider, loudspeaker and flash: with nothing under way, the screen shows the
\* volume that plays, and a restart would find it. QueueVolumeChange keeps a
\* commit that a later preview overtakes.
THEOREM VolumeReachesAll == FairSpec => []VolumeAgrees
<1>1. UiInv => VolumeAgrees
  <2> SUFFICES ASSUME UiInv, VolumeQuiet PROVE VolumeAgrees
    BY DEF VolumeAgrees, VolumeSettles, LastVolumeSaved
  <2>1. ui.volume \in Volumes /\ ui.volume # NoVolume /\ scr.volume \in Volumes
        /\ scr.volume # NoVolume
    BY NoVolumeIsNone DEF UiInv, Typed, UiStates, Screens
  <2> QED
    BY <2>1 DEF VolumeAgrees, VolumeSettles, LastVolumeSaved, VolumeQuiet, UiInv, VolumeInv,
       SetTogether, InUse, VolumeOnItsWay, SaveOnItsWay, CommitWaits
<1> QED
  BY <1>1, UiAlways, PTL

\* The screen shows what SetState was given last, or the Listening of an orb that
\* was touched while the interrupt waits, its cancel is under way, or the full
\* queue has dropped it.
THEOREM ScreenShowsState == FairSpec => []ScreenFollows
<1>1. UiInv => ScreenFollows
  <2> SUFFICES ASSUME UiInv PROVE ScreenFollows
    OBVIOUS
  <2>1. ui.state # Nothing
    BY NothingIsNone DEF UiInv, Typed, UiStates
  <2> QED
    BY <2>1 DEF ScreenFollows, UiInv, StateInv, StateOnItsWay, Anticipated
<1> QED
  BY <1>1, UiAlways, PTL
=============================================================================
