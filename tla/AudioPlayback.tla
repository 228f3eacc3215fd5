---------------------------- MODULE AudioPlayback ----------------------------
(***************************************************************************)
(* The playback half of the client's audio engine                          *)
(* (client/src/audio/audio_engine.cpp): the application begins, fills,     *)
(* ends, drops and closes a playback; a realtime thread takes 20 ms slots  *)
(* from a fixed ring, renders them outside the lock, and finishes.         *)
(*                                                                         *)
(* Sections under Impl::mutex are single steps; Render, drain and drop of  *)
(* the ALSA device are steps of their own. Samples are numbered within a   *)
(* playback; a slot is its first sample and how many follow. Gains and     *)
(* error texts are left out, and so is the capture thread: the command     *)
(* that prepares the device succeeds or fails.                             *)
(***************************************************************************)
EXTENDS Naturals, Sequences, FiniteSets, SequencesExt

CONSTANTS
  Slots,         \* kTtsSlots
  SlotSamples,   \* kTts24FrameSamples
  InitialSlots,  \* kInitialTtsSlots
  RebufferSlots, \* kRebufferTtsSlots
  MaxPacket,     \* samples of one packet (bound of the model)
  MaxSamples     \* samples of one playback (bound of the model)

ASSUME PlaybackAssumption ==
  /\ {Slots, SlotSamples, InitialSlots, RebufferSlots, MaxPacket, MaxSamples}
       \subseteq Nat \ {0}
  /\ InitialSlots <= Slots /\ RebufferSlots <= Slots

Index == 0..(Slots - 1)
Slot == [first : Nat, used : 0..SlotSamples]
EmptySlot == [first |-> 0, used |-> 0]

VARIABLES
  tts, tts_head, tts_tail, tts_count, queued_samples,      \* the ring
  active, ending, started, rebuffering, drop, sequence_set,
  stop, open, is_done, playback_failed,
  thread,    \* the playback thread: [at, slot, finish, discard, failed]
  accepted,  \* history: samples queued in this playback
  rendered,  \* history: samples rendered in this playback
  asked,     \* history: what the application asked of it: "end", "drop"
  late       \* history: slots rendered after a drop

ring == <<tts, tts_head, tts_tail, tts_count, queued_samples>>
flags == <<active, ending, started, rebuffering, drop, sequence_set>>
results == <<is_done, playback_failed>>
history == <<accepted, rendered, asked, late>>
playbackVars == <<tts, tts_head, tts_tail, tts_count, queued_samples,
                  active, ending, started, rebuffering, drop, sequence_set,
                  stop, open, is_done, playback_failed, thread,
                  accepted, rendered, asked, late>>

At(place) == [at |-> place, slot |-> EmptySlot, finish |-> FALSE,
              discard |-> FALSE, failed |-> FALSE]

PlaybackTypeOK ==
  /\ tts \in [Index -> Slot] /\ tts_head \in Index /\ tts_tail \in Index
  /\ tts_count \in 0..Slots /\ queued_samples \in 0..(Slots * SlotSamples)
  /\ {active, ending, started, rebuffering, drop, sequence_set, stop, open,
      is_done, playback_failed} \subseteq BOOLEAN
  /\ thread \in [at : {"top", "wait", "render", "finish", "device", "done", "gone"},
                 slot : Slot, finish : BOOLEAN, discard : BOOLEAN, failed : BOOLEAN]
  /\ accepted \in 0..MaxSamples /\ rendered \in 0..MaxSamples
  /\ asked \in SUBSET {"end", "drop"}
  /\ late \in Nat

PlaybackInit ==
  /\ tts = [i \in Index |-> EmptySlot] /\ tts_head = 0 /\ tts_tail = 0
  /\ tts_count = 0 /\ queued_samples = 0
  /\ active = FALSE /\ ending = FALSE /\ started = FALSE /\ rebuffering = FALSE
  /\ drop = FALSE /\ sequence_set = FALSE /\ stop = FALSE /\ open = TRUE
  /\ is_done = TRUE /\ playback_failed = FALSE /\ thread = At("top")
  /\ accepted = 0 /\ rendered = 0 /\ asked = {} /\ late = 0

ClearQueue ==
  /\ tts' = [i \in Index |-> EmptySlot]
  /\ tts_head' = 0 /\ tts_tail' = 0 /\ tts_count' = 0 /\ queued_samples' = 0

-----------------------------------------------------------------------------
(* The application.                                                        *)

\* The application's thread is not inside Close.
Calls == open /\ ~stop

\* RunCaptureCommand has succeeded; when it fails only the queue is cleared.
BeginPlayback ==
  /\ Calls /\ ~active
  /\ ClearQueue
  /\ active' = TRUE
  /\ ending' = FALSE /\ started' = FALSE /\ rebuffering' = FALSE
  /\ drop' = FALSE /\ sequence_set' = FALSE
  /\ is_done' = FALSE /\ playback_failed' = FALSE
  /\ accepted' = 0 /\ rendered' = 0 /\ asked' = {} /\ late' = 0
  /\ UNCHANGED <<stop, open, thread>>

BeginFails ==
  /\ Calls /\ ~active
  /\ ClearQueue
  /\ UNCHANGED <<flags, stop, open, results, thread, history>>

LastSlot(r) == (r.tail + Slots - 1) % Slots

MutPutSample(r, n) ==
  LET s == IF r.count = 0 \/ r.tts[LastSlot(r)].used = SlotSamples
           THEN [r EXCEPT !.tail = (@ + 1) % Slots, !.count = @ + 1] ELSE r
      i == s.tail
  IN [s EXCEPT !.tts[i] = [first |-> IF @.used = 0 THEN n ELSE @.first,
                           used |-> @.used + 1]]

\* One sample of the copy loop: a full or missing last slot makes a new one.
PutSample(r, n) ==
  LET s == IF r.count = 0 \/ r.tts[LastSlot(r)].used = SlotSamples
           THEN [r EXCEPT !.tail = (@ + 1) % Slots, !.count = @ + 1] ELSE r
      i == LastSlot(s)
  IN [s EXCEPT !.tts[i] = [first |-> IF @.used = 0 THEN n ELSE @.first,
                           used |-> @.used + 1]]

MutFits(samples) == samples <= Slots * SlotSamples - queued_samples + 1

Fits(samples) == samples <= Slots * SlotSamples - queued_samples

\* The packet is refused when the queue is closed or full, or the sequence
\* number does not follow.
QueueTts24k(samples, follows) ==
  LET start == [tts |-> tts, tail |-> tts_tail, count |-> tts_count]
      after == FoldLeft(PutSample, start, [i \in 1..samples |-> accepted + i - 1])
  IN /\ Calls /\ active /\ ~ending /\ Fits(samples)
     /\ sequence_set => follows
     /\ accepted + samples <= MaxSamples
     /\ tts' = after.tts /\ tts_tail' = after.tail /\ tts_count' = after.count
     /\ queued_samples' = queued_samples + samples
     /\ sequence_set' = TRUE
     /\ accepted' = accepted + samples
     /\ UNCHANGED <<tts_head, active, ending, started, rebuffering, drop, stop, open,
                    results, thread, rendered, asked, late>>

EndPlayback ==
  /\ Calls /\ active /\ ~ending
  /\ ending' = TRUE
  /\ asked' = asked \cup {"end"}
  /\ UNCHANGED <<ring, active, started, rebuffering, drop, sequence_set, stop, open,
                 results, thread, accepted, rendered, late>>

MutDropPlayback ==
  /\ Calls /\ active
  /\ ClearQueue
  /\ asked' = asked \cup {"drop"}
  /\ UNCHANGED <<flags, stop, open, results, thread, accepted, rendered, late>>

\* The queue is cleared and the device interrupted under the lock.
DropPlayback ==
  /\ Calls /\ active
  /\ drop' = TRUE
  /\ ClearQueue
  /\ asked' = asked \cup {"drop"}
  /\ UNCHANGED <<active, ending, started, rebuffering, sequence_set, stop, open,
                 results, thread, accepted, rendered, late>>

\* Close: stop and wake the thread, join it, reset everything.
Close ==
  /\ Calls
  /\ stop' = TRUE
  /\ UNCHANGED <<ring, flags, open, results, thread, history>>

Joined ==
  /\ stop /\ thread.at = "gone"
  /\ ClearQueue
  /\ active' = FALSE /\ ending' = FALSE /\ started' = FALSE /\ rebuffering' = FALSE
  /\ drop' = FALSE /\ sequence_set' = FALSE /\ stop' = FALSE /\ open' = FALSE
  /\ is_done' = TRUE /\ playback_failed' = FALSE
  /\ accepted' = 0 /\ rendered' = 0 /\ asked' = {} /\ late' = 0
  /\ UNCHANGED thread

Open ==
  /\ ~open
  /\ open' = TRUE /\ thread' = At("top")
  /\ UNCHANGED <<ring, flags, stop, results, history>>

-----------------------------------------------------------------------------
(* PlaybackLoop.                                                           *)

Starved == active /\ started /\ tts_count = 0 /\ ~ending /\ ~drop /\ ~rebuffering

\* Either the grace time passes, or its wait ends early or was not needed.
GraceExpires ==
  /\ thread.at = "top" /\ Starved /\ ~stop
  /\ rebuffering' = TRUE
  /\ thread' = At("wait")
  /\ UNCHANGED <<ring, active, ending, started, drop, sequence_set, stop, open, results, history>>

\* The history of a playback that is over ends here.
NotStarved ==
  /\ thread.at = "top" /\ (~Starved \/ stop)
  /\ thread' = At("wait")
  /\ IF active THEN UNCHANGED history
     ELSE accepted' = 0 /\ rendered' = 0 /\ asked' = {} /\ late' = 0
  /\ UNCHANGED <<ring, flags, stop, open, results>>

MutBufferReady ==
  IF started THEN ~rebuffering \/ queued_samples >= RebufferSlots * SlotSamples
  ELSE queued_samples >= InitialSlots * SlotSamples

BufferReady ==
  IF started THEN ~rebuffering \/ queued_samples >= RebufferSlots * SlotSamples \/ ending
  ELSE queued_samples >= InitialSlots * SlotSamples \/ ending

HeadReady == tts_count # 0 /\ (tts[tts_head].used = SlotSamples \/ ending) /\ BufferReady

HeadTaken == [tts EXCEPT ![tts_head] = EmptySlot]

MutLastTaken == ending
LastTaken == ending /\ tts_count = 1

\* The wait is over: take a slot, notice a drop or the end, or stop.
TakeSlot ==
  /\ thread.at = "wait" /\ ~stop
  /\ drop \/ (active /\ (HeadReady \/ (ending /\ tts_count = 0)))
  /\ IF ~drop /\ tts_count # 0
     THEN /\ tts' = HeadTaken
          /\ tts_head' = (tts_head + 1) % Slots
          /\ tts_count' = tts_count - 1
          /\ queued_samples' = queued_samples - tts[tts_head].used
          /\ started' = TRUE /\ rebuffering' = FALSE
          /\ thread' = [At("render") EXCEPT !.slot = tts[tts_head],
                                            !.finish = LastTaken]
          /\ UNCHANGED tts_tail
     ELSE /\ thread' = [At("finish") EXCEPT !.discard = drop]
          /\ UNCHANGED <<ring, started, rebuffering>>
  /\ UNCHANGED <<active, ending, drop, sequence_set, stop, open, results, history>>

MutStopSeen ==
  /\ thread.at = "wait" /\ stop
  /\ thread' = At(IF active THEN "gone" ELSE "top")
  /\ UNCHANGED <<ring, flags, stop, open, results, history>>

StopSeen ==
  /\ thread.at = "wait" /\ stop
  /\ thread' = At("gone")
  /\ UNCHANGED <<ring, flags, stop, open, results, history>>

\* Render20ms, outside the lock, succeeds or fails.
Render ==
  /\ thread.at = "render"
  /\ \/ /\ rendered' = rendered + thread.slot.used
        /\ late' = IF "drop" \in asked THEN late + 1 ELSE late
        /\ thread' = IF thread.finish THEN At("finish") ELSE At("top")
     \/ /\ thread' = [At("finish") EXCEPT !.failed = TRUE]
        /\ UNCHANGED <<rendered, late>>
  /\ UNCHANGED <<ring, flags, stop, open, results, accepted, asked>>

-----------------------------------------------------------------------------
(* FinishPlayback.                                                         *)

\* A drop that came while the last slot was rendered.
FinishLooks ==
  /\ thread.at = "finish"
  /\ thread' = [thread EXCEPT !.at = "device", !.discard = @ \/ drop,
                              !.failed = @ /\ ~drop]
  /\ UNCHANGED <<ring, flags, stop, open, results, history>>

\* The device is dropped, or drained; a drain can fail.
FinishDevice ==
  /\ thread.at = "device"
  /\ IF thread.discard \/ thread.failed THEN thread' = [thread EXCEPT !.at = "done"]
     ELSE \E failed \in BOOLEAN : thread' = [thread EXCEPT !.at = "done", !.failed = failed]
  /\ UNCHANGED <<ring, flags, stop, open, results, history>>

MutFinishDone ==
  /\ thread.at = "done"
  /\ active' = FALSE /\ ending' = FALSE /\ drop' = FALSE
  /\ started' = FALSE /\ rebuffering' = FALSE
  /\ ClearQueue
  /\ playback_failed' = thread.failed
  /\ is_done' = TRUE
  /\ thread' = At("top")
  /\ UNCHANGED <<sequence_set, stop, open, history>>

\* A drop that came during the drain still turns its failure into a drop.
FinishDone ==
  /\ thread.at = "done"
  /\ active' = FALSE /\ ending' = FALSE /\ drop' = FALSE
  /\ started' = FALSE /\ rebuffering' = FALSE
  /\ ClearQueue
  /\ playback_failed' = (thread.failed /\ ~(drop /\ ~thread.discard))
  /\ is_done' = TRUE
  /\ thread' = At("top")
  /\ UNCHANGED <<sequence_set, stop, open, history>>

-----------------------------------------------------------------------------
(* Properties.                                                             *)

\* The ring's indices, its count and its sample total agree, only the newest
\* slot can be short, and the slots hold consecutive samples: the arithmetic
\* modulo the number of slots never overwrites or skips one.
RingSound ==
  LET slot(k) == tts[(tts_head + k) % Slots]
  IN /\ tts_tail = (tts_head + tts_count) % Slots
     /\ \A k \in 0..(Slots - 1) : k >= tts_count => slot(k).used = 0
     /\ \A k \in 0..(Slots - 1) : k + 1 < tts_count => slot(k).used = SlotSamples
     /\ tts_count # 0 =>
          /\ slot(tts_count - 1).used > 0
          /\ queued_samples = (tts_count - 1) * SlotSamples + slot(tts_count - 1).used
          /\ slot(tts_count - 1).first + slot(tts_count - 1).used = accepted
     /\ \A k \in 0..(Slots - 1) : k + 1 < tts_count =>
          slot(k + 1).first = slot(k).first + SlotSamples

\* What is rendered is what comes next: no sample is skipped or repeated.
RendersInOrder == thread.at = "render" => thread.slot.first = rendered

\* A playback that was ended, not dropped, and is reported done and not
\* failed has rendered every sample it accepted.
DoneMeansAllRendered ==
  is_done /\ ~playback_failed /\ asked = {"end"} => rendered = accepted

\* A drop by the application is never reported as a failure of the device,
\* at whatever point of rendering, draining or failing it arrives.
DropIsNotFailure == is_done /\ "drop" \in asked => ~playback_failed

\* After a drop at most the slot already taken is still heard.
AtMostOneSlotAfterDrop == late <= 1
=============================================================================
