---------------------------- MODULE MCAudioEngine ----------------------------
(* AudioEngine for TLC; the configuration gives the bounds. The voice       *)
(* adapter of the capture backend is checked beside it, with samples taken  *)
(* 64 at a time: frames of 5, blocks of 4, room for 8 and 10.               *)
EXTENDS AudioEngine, VoiceDsp, SequencesExt

MCScopes == {"filling", "calling", "talking"}

\* Frames whose samples are all different; the alignment of frames and blocks
\* repeats after four of them.
Numbered(k) == [i \in 1..FrameSize |-> FrameSize * k + i]
FirstFrames(k) == [j \in 1..k |-> Numbered(j)]

\* The adapter after some calls.
Fed(frames) == FoldLeft(After, Opened, frames)

\* Every call of a long session succeeds and returns the frame of the call
\* before it, the first one silence.
ASSUME DspOneFrameLate ==
  \A k \in 0..10 :
    LET dsp == Fed(FirstFrames(k))
        last == IF k = 0 THEN Opened.output ELSE Numbered(k)
    IN Holds(dsp, last) /\ OneFrameLate(dsp, last, Numbered(k + 1))

\* The room is needed: with one sample less, some call of the session fails.
ASSUME DspRoomNeeded ==
  /\ \E k \in 0..10 : Len(Fed(FirstFrames(k)).input) = InputRoom - FrameSize
  /\ \E k \in 0..10 : Len(Produced(Fed(FirstFrames(k)), Numbered(k + 1))) > OutputRoom - BlockSize
=============================================================================
