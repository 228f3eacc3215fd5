----------------------------- MODULE LvglScreen -----------------------------
(***************************************************************************)
(* The pages of the touch screen (client/src/ui/lvgl_screen.cpp), as       *)
(* functions of a record: what is visible, what can be touched, what moves.*)
(* One thread has it to itself. What the handlers pass on to DeviceUi is   *)
(* there. Layout, texts, fonts and the clock are left out.                 *)
(***************************************************************************)
EXTENDS Naturals

CONSTANT MaxVolume  \* 100 in the code; a swipe is a step of 1 (5 in the code)

ASSUME ScreenAssumption == MaxVolume \in Nat \ {0}

Volumes == 0..MaxVolume
Pages == {"home", "voice", "camera", "wifi", "generic"}

\* DeviceUiState.
Displays == {"Idle", "Listening", "Thinking", "Speaking", "Happy", "Offline", "Error",
             "SpeakingTail"}

\* The view of Offline has amplitude 0: its orb stands still.
Motion(state) == IF state = "Offline" THEN "none" ELSE state

\* volume: volume_percent_, which the slider shows. before: volume_before_mute_.
\* voice: what the orb of the voice page moves for.
Screens ==
  [page : Pages, state : Displays, volume : Volumes, before : Volumes \ {0},
   home : BOOLEAN, voice : {"none"} \cup Displays]

-----------------------------------------------------------------------------
(* What each page lets a finger do.                                        *)

HomeControls == {"talk", "camera", "wifi", "clock"}
VoiceControls == {"back", "mute", "orb", "slider"}
CameraControls == {"back"}
WifiControls == {"back"}
GenericControls == {"back"}

Controls(s) ==
  CASE s.page = "home"    -> HomeControls
    [] s.page = "voice"   -> VoiceControls
    [] s.page = "camera"  -> CameraControls
    [] s.page = "wifi"    -> WifiControls
    [] s.page = "generic" -> GenericControls

-----------------------------------------------------------------------------
StartHomeOrbMotion(s) == [s EXCEPT !.home = TRUE]
StopHomeOrbMotion(s) == [s EXCEPT !.home = FALSE]
StartOrbMotion(s) == [s EXCEPT !.voice = Motion(s.state)]

MutStopOrbMotion(s) == s
StopOrbMotion(s) == [s EXCEPT !.voice = "none"]

UpdateVoice(s) == IF s.page = "voice" THEN StartOrbMotion(s) ELSE s

ShowHome(s) == StartHomeOrbMotion([StopOrbMotion(s) EXCEPT !.page = "home"])

PageOf == [talk |-> "voice", camera |-> "camera", wifi |-> "wifi", clock |-> "generic"]

ShowApp(s, app) ==
  LET shown == [StopHomeOrbMotion(s) EXCEPT !.page = PageOf[app]]
  IN IF app = "talk" THEN UpdateVoice(shown) ELSE StopOrbMotion(shown)

Conversation == {"Listening", "Thinking", "Speaking", "Happy", "SpeakingTail"}

\* A conversation comes to the front, but only from the home page.
SetState(s, state) ==
  LET t == [s EXCEPT !.state = state]
  IN UpdateVoice(IF state \in Conversation /\ t.page = "home" THEN ShowApp(t, "talk") ELSE t)

SetVolume(s, volume) ==
  [s EXCEPT !.volume = volume, !.before = IF volume = 0 THEN @ ELSE volume]

MuteTarget(s) == IF s.volume = 0 THEN s.before ELSE 0

Interruptible(s) == s.state \in {"Speaking", "SpeakingTail"}

MutVoiceClicked(s) == SetState(s, "Listening")

\* Shows at once what the cancel will lead to, except for the tail.
VoiceClicked(s) == IF s.state = "Speaking" THEN SetState(s, "Listening") ELSE s

\* Create: the home page, with nothing said and the volume at 60 of 100.
NewScreen(volume) ==
  ShowHome([page |-> "home", state |-> "Idle", volume |-> volume, before |-> volume,
            home |-> FALSE, voice |-> "none"])
=============================================================================
