---------------------------- MODULE AudioCapture ----------------------------
(***************************************************************************)
(* The capture half of the client's audio engine                           *)
(* (client/src/audio/audio_engine.cpp) and the listener behind it          *)
(* (client/src/platform/rv1106/audio_backend.cpp): a realtime thread reads *)
(* a 20 ms frame, judges it, puts it in a small ring, and between two      *)
(* frames carries out a command that the application waits for.            *)
(*                                                                         *)
(* Looking into the mailbox, carrying out a command and answering it are   *)
(* steps; so is a frame from the device to the ring, for the thread meets  *)
(* no other one in between. What the speech detector says of a frame and   *)
(* whether the loudspeaker's signal was in it are any value; sample rates, *)
(* levels, the wake word's decision and the vendor's echo canceller are    *)
(* left out.                                                               *)
(***************************************************************************)
EXTENDS Naturals, Sequences, SequencesExt

CONSTANTS
  CaptureSlots,  \* kCaptureSlots
  VadStart,      \* kVadStartMs, in frames
  VadEnd,        \* kVadEndMs, in frames
  Warmup,        \* kAecWarmupFrames
  TailFrames          \* kAecTailFrames

ASSUME CaptureAssumption == {CaptureSlots, VadStart, VadEnd, Warmup, TailFrames} \subseteq Nat \ {0}

VARIABLES
  mic,      \* where the capture thread is
  mailbox,  \* capture_command and capture_failed
  capture,  \* the ring of frames
  vad,      \* the speech detector: in_speech, and the frames against it
  aec,      \* playback_session_active, and what suppresses near voice
  pcm       \* the atomics that playback leaves for the capture thread

captureVars == <<mic, mailbox, capture, vad, aec, pcm>>

Commands == {"reset", "prepare"}

\* One frame: near_voice, vad_started or vad_ended, reference_active, discontinuity.
Frame == [near : BOOLEAN, edge : {"none", "started", "ended"},
          reference : BOOLEAN, gap : BOOLEAN]
GapFrame == [near |-> FALSE, edge |-> "none", reference |-> FALSE, gap |-> TRUE]

NewVad == [in_speech |-> FALSE, run |-> 0]
NewAec == [session |-> FALSE, armed |-> FALSE, warmup |-> 0, tail |-> 0]
NewMailbox == [command |-> "none", failed |-> FALSE]

CaptureTypeOK ==
  /\ mic \in {"top", "apply", "done", "failing", "read", "gone"}
  /\ mailbox \in [command : Commands \cup {"none"}, failed : BOOLEAN]
  /\ capture \in Seq(Frame) /\ Len(capture) <= CaptureSlots
  /\ vad \in [in_speech : BOOLEAN, run : Nat]
  /\ aec \in [session : BOOLEAN, armed : BOOLEAN, warmup : 0..Warmup, tail : 0..TailFrames]
  /\ pcm \in [started : BOOLEAN, ended : BOOLEAN, interrupted : BOOLEAN]

CaptureInit ==
  /\ mic = "top" /\ mailbox = NewMailbox /\ capture = <<>>
  /\ vad = NewVad /\ aec = NewAec
  /\ pcm = [started |-> FALSE, ended |-> FALSE, interrupted |-> FALSE]

-----------------------------------------------------------------------------
(* RunCaptureCommand, on the application's thread: it asks, and waits for  *)
(* the answer, for a failure of the capture thread, or 100 ms.             *)

Request(command) ==
  /\ ~mailbox.failed /\ mailbox.command = "none"
  /\ mailbox' = [mailbox EXCEPT !.command = command]

Refused == mailbox.failed \/ mailbox.command # "none"
Answered == mailbox.failed \/ mailbox.command = "none"
Succeeded == ~mailbox.failed

TimesOut ==
  /\ ~Answered
  /\ mailbox' = [mailbox EXCEPT !.failed = TRUE]
  /\ UNCHANGED <<mic, capture, vad, aec, pcm>>

-----------------------------------------------------------------------------
(* ApplyCaptureCommand.                                                    *)

LookForCommand ==
  /\ mic = "top" /\ Refused
  /\ mic' = IF mailbox.failed THEN "gone" ELSE "apply"
  /\ UNCHANGED <<mailbox, capture, vad, aec, pcm>>

PrepareAec == [session |-> TRUE, armed |-> TRUE, warmup |-> 0, tail |-> 0]
NewPcm == [started |-> FALSE, ended |-> FALSE, interrupted |-> FALSE]

MutPreparePlayback ==
  /\ aec' = PrepareAec
  /\ pcm' = [pcm EXCEPT !.started = FALSE, !.interrupted = FALSE]
  /\ UNCHANGED vad

\* PreparePlayback of the backend: it arms the warm-up for the reference to come.
PreparePlayback == aec' = PrepareAec /\ pcm' = NewPcm /\ UNCHANGED vad

ResetListener == vad' = NewVad /\ UNCHANGED <<aec, pcm>>

\* The backend's part, outside the lock; a failure leaves its state as it was.
CarryOut ==
  /\ mic = "apply"
  /\ \/ /\ mailbox.command = "reset" /\ ResetListener /\ mic' = "done"
     \/ /\ mailbox.command = "prepare" /\ PreparePlayback /\ mic' = "done"
     \/ /\ mic' = "failing" /\ UNCHANGED <<vad, aec, pcm>>
  /\ UNCHANGED <<mailbox, capture>>

MutUndecided(frames) == frames
\* ClearQueuedListenerDecisions: frames taken before the reset stay, what was
\* decided of them does not.
Undecided(frames) == [i \in DOMAIN frames |-> [frames[i] EXCEPT !.near = FALSE, !.edge = "none"]]

\* The answer. A failed command also ends the thread. That it tells so in a
\* section of its own is left out, for its caller has command_succeeded and
\* another would only wait for it.
Answer ==
  /\ mic \in {"done", "failing"}
  /\ capture' = IF mailbox.command = "reset" THEN Undecided(capture) ELSE capture
  /\ mailbox' = [mailbox EXCEPT !.command = "none", !.failed = @ \/ mic = "failing"]
  /\ mic' = IF mic = "done" THEN "read" ELSE "gone"
  /\ UNCHANGED <<vad, aec, pcm>>

-----------------------------------------------------------------------------
(* A frame.                                                                *)

\* UpdateVad: it turns over after VadStart frames of speech in a row, or after
\* VadEnd without; run counts the frames of the row so far.
UpdateVad(now) ==
  IF now = vad.in_speech THEN [vad EXCEPT !.run = 0]
  ELSE IF vad.run + 1 = (IF now THEN VadStart ELSE VadEnd)
  THEN [in_speech |-> now, run |-> 0]
  ELSE [vad EXCEPT !.run = @ + 1]

Edge(v) ==
  IF v.in_speech = vad.in_speech THEN "none" ELSE IF v.in_speech THEN "started" ELSE "ended"

\* UpdateNearVoice, before its counters run down: the end of a playback opens
\* the gate at once when it was interrupted, else after the room has gone
\* quiet; the warm-up starts with the first reference.
Gated(reference) ==
  IF pcm.ended
  THEN [NewAec EXCEPT !.tail = IF pcm.interrupted THEN 0 ELSE TailFrames]
  ELSE IF aec.armed /\ pcm.started /\ reference
  THEN [aec EXCEPT !.armed = FALSE, !.warmup = Warmup]
  ELSE aec

Suppresses(a) == a.armed \/ a.warmup # 0 \/ a.tail # 0

\* The last frame of a suppression: what the detector heard in it is forgotten.
Expires(a) == a.warmup = 1 \/ a.tail = 1

Less(n) == IF n = 0 THEN 0 ELSE n - 1
RunDown(a) == [a EXCEPT !.warmup = Less(@), !.tail = Less(@)]

\* A frame behind a gap, or that finds the ring full, replaces what is there.
Push(f) ==
  capture' = IF f.gap \/ Len(capture) = CaptureSlots
             THEN <<[f EXCEPT !.gap = TRUE]>> ELSE Append(capture, f)

Reading == mic = "read" \/ (mic = "top" /\ ~Refused)

Hear(now, reference) ==
  LET v == UpdateVad(now)
      a == Gated(reference)
  IN /\ Reading
     /\ vad' = IF Expires(a) THEN NewVad ELSE v
     /\ aec' = RunDown(a)
     /\ pcm' = [pcm EXCEPT !.ended = FALSE]
     /\ Push([near |-> now /\ ~Suppresses(a), edge |-> Edge(v),
              reference |-> reference, gap |-> FALSE])
     /\ mic' = "top"
     /\ UNCHANGED mailbox

\* ALSA lost frames: the front end starts anew, and its echo canceller with it.
HearGap ==
  /\ Reading
  /\ vad' = NewVad
  /\ aec' = IF aec.session THEN [aec EXCEPT !.armed = TRUE, !.warmup = 0] ELSE aec
  /\ Push(GapFrame)
  /\ mic' = "top"
  /\ UNCHANGED <<mailbox, pcm>>

MutCaptureFails ==
  /\ Reading
  /\ mic' = "gone"
  /\ UNCHANGED <<mailbox, capture, vad, aec, pcm>>

\* The device or one of the listener's parts fails.
CaptureFails ==
  /\ Reading
  /\ mic' = "gone"
  /\ mailbox' = [mailbox EXCEPT !.failed = TRUE]
  /\ UNCHANGED <<capture, vad, aec, pcm>>

\* Close has set stop and interrupted the device.
CaptureStops ==
  /\ Reading
  /\ mic' = "gone"
  /\ UNCHANGED <<mailbox, capture, vad, aec, pcm>>

-----------------------------------------------------------------------------
(* What playback tells the capture thread.                                 *)

RenderStarted(audible) == [pcm EXCEPT !.started = @ \/ audible]
DeviceEnded == [pcm EXCEPT !.ended = TRUE, !.started = FALSE]
Interrupted == [started |-> FALSE, ended |-> TRUE, interrupted |-> TRUE]
=============================================================================
