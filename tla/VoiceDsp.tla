------------------------------ MODULE VoiceDsp ------------------------------
(***************************************************************************)
(* The adapter between the frames of the product (20 ms) and the blocks of *)
(* the vendor's voice library, which do not divide each other: two fixed   *)
(* FIFOs join them, and the output starts with a frame of silence, so that *)
(* each call takes a frame and returns one. The capture backend relies on  *)
(* the answer being exactly one frame late when it pairs it with the       *)
(* levels of that period (audio_backend.cpp:453-456).                      *)
(*                                                                         *)
(* Pure operators: a state of the FIFOs and a frame in, the next state and *)
(* a frame out. What the library makes of a sample is left to it; a sample *)
(* stands for what comes of it, at its own position.                       *)
(***************************************************************************)
EXTENDS Integers, Sequences

CONSTANTS
  FrameSize,   \* samples of a frame
  BlockSize,   \* samples the library takes and returns at once
  InputRoom,   \* room of the input FIFO, in samples
  OutputRoom,  \* room of the output FIFO
  Silence      \* the sample the output is primed with

\* The sizes of rockchip_voice_dsp.h, 320, 256, 512 and 640, in the unit both
\* frames and blocks are whole numbers of, 64 samples: 5, 4, 8 and 10. A block
\* is no longer than a frame; the input holds a frame and what can be left of
\* a block, the output two frames.
ASSUME DspAssumption ==
  /\ FrameSize \in Nat /\ BlockSize \in 1..FrameSize
  /\ InputRoom \in Nat /\ InputRoom >= FrameSize + BlockSize - 1
  /\ OutputRoom \in Nat /\ OutputRoom >= 2 * FrameSize

\* Open, and ResetFifos(true): one frame of silence.
Opened == [input |-> <<>>, output |-> [i \in 1..FrameSize |-> Silence]]

\* What the loop of Process hands to the library: every whole block.
Whole(n) == n - (n % BlockSize)

Filled(dsp, frame) == dsp.input \o frame
Taken(dsp, frame) == Whole(Len(Filled(dsp, frame)))
Produced(dsp, frame) == dsp.output \o SubSeq(Filled(dsp, frame), 1, Taken(dsp, frame))

\* Process refuses a frame its input has no room for, and closes the adapter
\* when the output has no room for a block or holds less than a frame.
Accepts(dsp, frame) ==
  /\ Len(dsp.input) <= InputRoom - FrameSize
  /\ Len(Produced(dsp, frame)) <= OutputRoom
  /\ Len(Produced(dsp, frame)) >= FrameSize

Returned(dsp, frame) == SubSeq(Produced(dsp, frame), 1, FrameSize)

After(dsp, frame) ==
  [input  |-> SubSeq(Filled(dsp, frame), Taken(dsp, frame) + 1, Len(Filled(dsp, frame))),
   output |-> SubSeq(Produced(dsp, frame), FrameSize + 1, Len(Produced(dsp, frame)))]

-----------------------------------------------------------------------------
(* Properties.                                                             *)

\* The FIFOs hold the last frame and nothing else: its finished samples, and
\* then what is left of it for the next block.
Holds(dsp, last) ==
  /\ Len(dsp.input) < BlockSize
  /\ dsp.output \o dsp.input = last

\* The adapter never fails for its own sizes, and returns each frame one call
\* later, unchanged in length and order (rockchip_voice_dsp.h:27-29).
OneFrameLate(dsp, last, frame) ==
  Holds(dsp, last) =>
    /\ Accepts(dsp, frame)
    /\ Returned(dsp, frame) = last
    /\ Holds(After(dsp, frame), frame)
=============================================================================
