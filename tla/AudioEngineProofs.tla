-------------------------- MODULE AudioEngineProofs --------------------------
(***************************************************************************)
(* The audio engine of the client and the actor that uses it, proved for   *)
(* every size of its queues, thresholds and waits: an utterance that cuts  *)
(* an answer is sent whole, the two threads share ring and device without  *)
(* harm, no counter leaves its range, no frame is taken for the user's     *)
(* voice while the echo canceller adapts, and a turn that is captured will *)
(* hear its end, for the times that DetectorAssumption relates. And the    *)
(* voice adapter returns every frame one call later, for all sizes of      *)
(* frames, blocks and rooms that satisfy DspAssumption.                    *)
(***************************************************************************)
EXTENDS AudioEngine, VoiceDsp, SequenceTheorems, WellFoundedInduction, TLAPS

\* Less than a block is left over when the whole blocks are taken.
LEMMA WholeLeavesLess ==
  ASSUME NEW n \in Nat
  PROVE  /\ Whole(n) \in 0..n
         /\ n - Whole(n) < BlockSize
<1>1. BlockSize \in Nat /\ BlockSize > 0
  BY DspAssumption DEF DspAssumption
<1>2. (n % BlockSize) \in 0..(BlockSize - 1)
  BY <1>1
<1>3. (n % BlockSize) <= n
  BY <1>1
<1> QED BY <1>1, <1>2, <1>3 DEF Whole

\* A sequence is its two parts, joined.
LEMMA PartsJoin ==
  ASSUME NEW S, NEW s \in Seq(S), NEW k \in 0..Len(s), NEW a \in Seq(S), NEW b \in Seq(S),
         Len(a) = k, \A i \in 1..k : a[i] = s[i],
         Len(b) = Len(s) - k, \A i \in 1..(Len(s) - k) : b[i] = s[k + i]
  PROVE  a \o b = s
<1>1. /\ a \o b \in Seq(S) /\ Len(a \o b) = Len(s)
      /\ \A i \in 1..Len(a) + Len(b) : (a \o b)[i] = IF i <= Len(a) THEN a[i] ELSE b[i - Len(a)]
  BY ConcatProperties
<1>2. ASSUME NEW i \in 1..Len(s), i <= k PROVE (a \o b)[i] = s[i]
  BY <1>1, <1>2
<1>3. ASSUME NEW i \in 1..Len(s), i > k PROVE (a \o b)[i] = s[i]
  <2>1. (a \o b)[i] = b[i - k]
    BY <1>1, <1>3
  <2>2. i - k \in 1..(Len(s) - k) /\ k + (i - k) = i
    BY <1>3
  <2> QED BY <2>1, <2>2
<1>4. \A i \in 1..Len(s) : (a \o b)[i] = s[i]
  BY <1>2, <1>3
<1> QED BY <1>1, <1>4, SeqEqual

\* A FIFO read from the front is the part read and the part left.
LEMMA Cut ==
  ASSUME NEW S, NEW s \in Seq(S), NEW k \in 0..Len(s)
  PROVE  /\ SubSeq(s, 1, k) \in Seq(S)
         /\ SubSeq(s, k + 1, Len(s)) \in Seq(S)
         /\ Len(SubSeq(s, 1, k)) = k
         /\ Len(SubSeq(s, k + 1, Len(s))) = Len(s) - k
         /\ SubSeq(s, 1, k) \o SubSeq(s, k + 1, Len(s)) = s
<1>1. /\ SubSeq(s, 1, k) \in Seq(S) /\ Len(SubSeq(s, 1, k)) = k
      /\ \A i \in 1..k : SubSeq(s, 1, k)[i] = s[i]
  BY SMT
<1>2. /\ SubSeq(s, k + 1, Len(s)) \in Seq(S) /\ Len(SubSeq(s, k + 1, Len(s))) = Len(s) - k
      /\ \A i \in 1..(Len(s) - k) : SubSeq(s, k + 1, Len(s))[i] = s[k + i]
  BY SMT
<1> DEFINE a == SubSeq(s, 1, k)
           b == SubSeq(s, k + 1, Len(s))
<1>3. a \o b = s
  <2> HIDE DEF a, b
  <2>1. /\ a \in Seq(S) /\ Len(a) = k /\ \A i \in 1..k : a[i] = s[i]
    BY <1>1 DEF a
  <2>2. /\ b \in Seq(S) /\ Len(b) = Len(s) - k /\ \A i \in 1..(Len(s) - k) : b[i] = s[k + i]
    BY <1>2 DEF b
  <2> QED BY <2>1, <2>2, PartsJoin
<1> QED BY <1>1, <1>2, <1>3

\* Two joined sequences that are equal and whose first parts are as long as
\* each other have the same parts.
LEMMA SameParts ==
  ASSUME NEW S, NEW a \in Seq(S), NEW b \in Seq(S), NEW c \in Seq(S), NEW d \in Seq(S),
         a \o b = c \o d, Len(a) = Len(c)
  PROVE  a = c /\ b = d
<1>1. /\ Len(a \o b) = Len(a) + Len(b)
      /\ \A i \in 1..Len(a) + Len(b) : (a \o b)[i] = IF i <= Len(a) THEN a[i] ELSE b[i - Len(a)]
  BY ConcatProperties
<1>2. /\ Len(c \o d) = Len(c) + Len(d)
      /\ \A i \in 1..Len(c) + Len(d) : (c \o d)[i] = IF i <= Len(c) THEN c[i] ELSE d[i - Len(c)]
  BY ConcatProperties
<1>3. Len(b) = Len(d)
  BY <1>1, <1>2
<1>4. \A i \in 1..Len(a) : a[i] = c[i]
  BY <1>1, <1>2, <1>3
<1>5. \A i \in 1..Len(b) : b[i] = d[i]
  <2> SUFFICES ASSUME NEW i \in 1..Len(b) PROVE b[i] = d[i]
    OBVIOUS
  <2>1. Len(a) + i \in 1..Len(a) + Len(b) /\ Len(a) + i \in 1..Len(c) + Len(d)
    BY <1>3
  <2>2. (a \o b)[Len(a) + i] = b[i]
    BY <1>1, <2>1
  <2>3. (c \o d)[Len(a) + i] = d[i]
    BY <1>2, <2>1
  <2> QED BY <2>2, <2>3
<1> QED BY <1>3, <1>4, <1>5, SeqEqual

\* Joining under a name of its own: the provers have rules of their own for
\* \o that rewrite chains of joins without end.
Join(s, t) == s \o t

LEMMA JoinRegroups ==
  ASSUME NEW S, NEW s \in Seq(S), NEW t \in Seq(S), NEW u \in Seq(S)
  PROVE  /\ Join(s, t) \in Seq(S)
         /\ Join(Join(s, t), u) = Join(s, Join(t, u))
<1>1. s \o t \in Seq(S)
  BY ConcatProperties
<1>2. (s \o t) \o u = s \o (t \o u)
  BY ConcatAssociative
<1> QED BY <1>1, <1>2 DEF Join

\* What stands in the FIFOs when the whole blocks have moved on: the output o
\* with the blocks a, and the rest b, are what o and i held, then the frame f.
LEMMA Moved ==
  ASSUME NEW S, NEW o \in Seq(S), NEW i \in Seq(S), NEW f \in Seq(S),
         NEW a \in Seq(S), NEW b \in Seq(S), Join(a, b) = Join(i, f)
  PROVE  Join(Join(o, a), b) = Join(Join(o, i), f)
<1>1. Join(Join(o, a), b) = Join(o, Join(a, b))
  BY JoinRegroups
<1>2. Join(Join(o, i), f) = Join(o, Join(i, f))
  BY JoinRegroups
<1> QED BY <1>1, <1>2

\* Reading r, as long as l, from the front of such FIFOs returns l.
LEMMA ReadFront ==
  ASSUME NEW S, NEW r \in Seq(S), NEW t \in Seq(S), NEW b \in Seq(S),
         NEW l \in Seq(S), NEW f \in Seq(S),
         Join(Join(r, t), b) = Join(l, f), Len(r) = Len(l)
  PROVE  r = l /\ Join(t, b) = f
<1> DEFINE tb == Join(t, b)
<1>1. tb \in Seq(S) /\ Join(r, tb) = Join(l, f)
  BY JoinRegroups
<1>2. tb \in Seq(S) /\ r \o tb = l \o f
  <2> HIDE DEF tb
  <2> QED BY <1>1 DEF Join
<1>3. r = l /\ tb = f
  <2> HIDE DEF tb
  <2> QED BY <1>2, SameParts
<1> QED BY <1>3

\* Once opened, the FIFOs hold a frame of silence.
THEOREM OpenedHolds == Holds(Opened, [i \in 1..FrameSize |-> Silence])
<1>1. FrameSize \in Nat /\ BlockSize \in Nat /\ BlockSize > 0
  BY DspAssumption DEF DspAssumption
<1>2. Opened.output \in Seq({Silence}) /\ Opened.input = <<>>
  BY <1>1 DEF Opened
<1>3. Opened.output \o <<>> = Opened.output
  BY <1>2, ConcatEmptySeq
<1> QED BY <1>1, <1>2, <1>3 DEF Holds, Opened

\* Every call succeeds, returns the frame of the call before it and leaves
\* the FIFOs holding its own (rockchip_voice_dsp.h:26-28): no alignment of
\* frames and blocks runs into the end of a FIFO, and none loses, doubles or
\* delays a sample by anything else than a frame.
THEOREM NeverSkews ==
  ASSUME NEW S, NEW dsp \in [input : Seq(S), output : Seq(S)],
         NEW last \in Seq(S), Len(last) = FrameSize,
         NEW frame \in Seq(S), Len(frame) = FrameSize
  PROVE  OneFrameLate(dsp, last, frame)
<1> SUFFICES ASSUME Holds(dsp, last)
             PROVE  /\ Accepts(dsp, frame)
                    /\ Returned(dsp, frame) = last
                    /\ Holds(After(dsp, frame), frame)
  BY DEF OneFrameLate
<1> DEFINE F == Filled(dsp, frame)
           n == Taken(dsp, frame)
           A == SubSeq(F, 1, n)
           B == SubSeq(F, n + 1, Len(F))
           P == Produced(dsp, frame)
           R == SubSeq(P, 1, FrameSize)
           T == SubSeq(P, FrameSize + 1, Len(P))
<1>0. /\ FrameSize \in Nat /\ BlockSize \in Nat /\ BlockSize <= FrameSize
      /\ InputRoom \in Nat /\ InputRoom >= FrameSize + BlockSize - 1
      /\ OutputRoom \in Nat /\ OutputRoom >= 2 * FrameSize
  BY DspAssumption DEF DspAssumption
<1>1. /\ dsp.input \in Seq(S) /\ dsp.output \in Seq(S)
      /\ Len(dsp.input) < BlockSize /\ dsp.output \o dsp.input = last
  BY DEF Holds
<1>2. F \in Seq(S) /\ Len(F) = Len(dsp.input) + FrameSize
  <2>1. F = dsp.input \o frame
    BY DEF Filled
  <2> HIDE DEF F
  <2> QED BY <1>1, <2>1, ConcatProperties
<1>3. n \in 0..Len(F) /\ Len(F) - n < BlockSize
  BY <1>2, WholeLeavesLess DEF Taken
<1>4. /\ A \in Seq(S) /\ B \in Seq(S) /\ A \o B = F
      /\ Len(A) = n /\ Len(B) = Len(F) - n
  <2> HIDE DEF F, n
  <2> QED BY <1>2, <1>3, Cut, ZenonT(40)
<1>5. P = dsp.output \o A
  BY DEF Produced
<1>6. P \in Seq(S) /\ Len(P) = Len(dsp.output) + n
  <2> HIDE DEF P, A, n, F
  <2> QED BY <1>1, <1>4, <1>5, ConcatProperties
<1>7. FrameSize = Len(dsp.output) + Len(dsp.input)
  BY <1>1, ConcatProperties
<1>8. FrameSize <= Len(P) /\ Len(P) <= 2 * FrameSize
  <2> HIDE DEF P, n, F
  <2> QED BY SMTT(30), <1>0, <1>1, <1>2, <1>3, <1>6, <1>7
<1>9. Accepts(dsp, frame)
  <2> HIDE DEF P, n, F
  <2>1. Len(dsp.input) <= InputRoom - FrameSize
    BY <1>0, <1>1
  <2>2. Len(P) <= OutputRoom /\ Len(P) >= FrameSize
    BY <1>0, <1>6, <1>8
  <2> QED BY <2>1, <2>2 DEF Accepts, P
\* What is left in the FIFOs after the call, behind what it returned, is what
\* they held followed by the frame.
<1>10. Join(P, B) = Join(last, frame)
  <2> HIDE DEF P, A, B, n
  <2>1. Join(A, B) = Join(dsp.input, frame)
    BY <1>4 DEF Filled, Join
  <2>2. dsp.output \in Seq(S) /\ dsp.input \in Seq(S) /\ A \in Seq(S) /\ B \in Seq(S)
    BY <1>1, <1>4
  <2>3. Join(Join(dsp.output, A), B) = Join(Join(dsp.output, dsp.input), frame)
    BY <2>1, <2>2, Moved
  <2>4. Join(dsp.output, A) = P /\ Join(dsp.output, dsp.input) = last
    BY <1>1, <1>5 DEF Join
  <2> QED BY <2>3, <2>4
<1>11. /\ R \in Seq(S) /\ T \in Seq(S) /\ R \o T = P
       /\ Len(R) = FrameSize
  <2> HIDE DEF P
  <2>1. P \in Seq(S) /\ FrameSize \in 0..Len(P)
    BY <1>0, <1>6, <1>8
  <2> QED BY <2>1, Cut, Zenon
<1>12. R = last /\ T \o B = frame
  <2> HIDE DEF P, R, T, B
  <2>1. R \in Seq(S) /\ T \in Seq(S) /\ B \in Seq(S) /\ Len(R) = Len(last)
    BY <1>4, <1>11
  <2>2. Join(R, T) = P
    BY <1>11 DEF Join
  <2>3. Join(Join(R, T), B) = Join(last, frame)
    BY <1>10, <2>2
  <2>4. R = last /\ Join(T, B) = frame
    BY <2>1, <2>3, ReadFront
  <2> QED BY <2>4 DEF Join
<1>13. Returned(dsp, frame) = last
  BY <1>12 DEF Returned
<1>14. After(dsp, frame).input = B /\ After(dsp, frame).output = T
  BY DEF After
<1>15. Len(B) < BlockSize
  <2> HIDE DEF B, n, F
  <2> QED BY <1>3, <1>4
<1>16. Holds(After(dsp, frame), frame)
  <2> HIDE DEF B, T
  <2> QED BY <1>12, <1>14, <1>15 DEF Holds
<1> QED BY <1>9, <1>13, <1>16
-----------------------------------------------------------------------------
(* The user's utterance.                                                   *)

ActorType ==
  [state : States, probe : {"idle", "low", "clear", "verify"}, frames : Nat, cooldown : Nat,
   quiet : Nat, silence : Nat, admitted : BOOLEAN, ended : BOOLEAN, full : BOOLEAN,
   finish : BOOLEAN, follow : Nat, pre : Nat, spoken : Nat, missed : BOOLEAN]

\* What a stage of the probe has saved by its frames: the utterance and no
\* other frame, as much as the stages before it and this one can be long.
Kept(a, before, length) ==
  /\ a.pre = a.spoken /\ ~a.missed
  /\ a.pre <= before + a.frames /\ a.frames < length

\* What the pre-roll holds of the utterance, state by state: a candidate has
\* as many frames as it counts, a probe and a confirmed utterance have nothing
\* else and fit the buffer, and outside an answer nothing is counted.
ActorInv(a) ==
  /\ a.spoken <= a.pre
  /\ a.admitted => a.state = "CancelPending" /\ a.pre <= BargeBuffer
  /\ a.admitted /\ ~a.full => a.pre = a.spoken /\ ~a.missed
  /\ a.state \notin Answering => a.probe = "idle" /\ a.frames = 0 /\ a.cooldown = 0
  /\ a.state \in {"Capturing", "Response"} => a.spoken = 0 /\ ~a.missed
  /\ a.state \in Answering /\ a.probe = "idle" /\ a.cooldown = 0 =>
       a.spoken = a.frames /\ a.frames < BargeCandidate /\ ~a.missed
  /\ a.probe = "idle" /\ a.cooldown # 0 => a.frames = 0
  /\ a.probe = "low" => Kept(a, BargeCandidate, BargeReferenceWait + 1)
  /\ a.probe = "clear" => Kept(a, BargeCandidate + BargeReferenceWait, BargeEchoClear)
  /\ a.probe = "verify" =>
       Kept(a, BargeCandidate + BargeReferenceWait + BargeEchoClear, BargeConfirm)

Good(a) == a \in ActorType /\ ActorInv(a)

\* The members a handler leaves alone.
SameCounts(a, b) ==
  /\ b.state = a.state /\ b.probe = a.probe /\ b.frames = a.frames
  /\ b.cooldown = a.cooldown /\ b.admitted = a.admitted

LEMMA Sizes ==
  /\ BargeCandidate \in Nat /\ BargeCandidate > 0
  /\ BargeReferenceWait \in Nat /\ BargeReferenceWait > 0
  /\ BargeReferenceLow \in Nat /\ BargeReferenceLow > 0
  /\ BargeEchoClear \in Nat /\ BargeEchoClear > 0
  /\ BargeConfirm \in Nat /\ BargeConfirm > 0
  /\ BargeTailFreeze \in Nat /\ BargeTailFreeze > 0
  /\ BargeRetryCooldown \in Nat /\ BargeRetryCooldown > 0
  /\ FollowUpNear \in Nat /\ FollowUpNear > 0
  /\ PreRoll \in Nat /\ PreRoll > 0
  /\ BargeBuffer \in Nat /\ BargeBuffer > 0
  /\ BargeCandidate <= PreRoll
  /\ BargeCandidate + BargeReferenceWait + BargeEchoClear + BargeConfirm <= BargeBuffer
BY BargeAssumption DEF BargeAssumption

LEMMA NewActorGood == Good(NewActor)
<1>1. NewActor \in ActorType
  BY DEF NewActor, ActorType, States
<1>2. ActorInv(NewActor)
  BY DEF NewActor, ActorInv, Answering
<1> QED BY <1>1, <1>2 DEF Good

\* A probe that is given up outside an answer, or into its cooldown.
LEMMA ResetsGood ==
  ASSUME NEW a \in ActorType
  PROVE  LET b == ResetBargeTurn(ResetBargeProbe(a))
         IN /\ b \in ActorType
            /\ b.state = a.state /\ b.pre = a.pre /\ b.spoken = a.spoken /\ b.missed = a.missed
            /\ b.frames = 0 /\ b.cooldown = 0 /\ b.probe = "idle" /\ ~b.admitted
BY DEF ActorType, ResetBargeTurn, ResetBargeProbe, States

LEMMA NoPreRollGood ==
  ASSUME NEW a \in ActorType
  PROVE  LET b == NoPreRoll(a)
         IN /\ b \in ActorType /\ SameCounts(a, b) /\ b.full = a.full /\ b.ended = a.ended
            /\ b.pre = 0 /\ b.spoken = 0 /\ ~b.missed
BY DEF ActorType, NoPreRoll, SameCounts, States

\* The ends of a turn leave no probe and nothing admitted.
LEMMA LeavesGood ==
  ASSUME NEW a \in ActorType, a.spoken <= a.pre
  PROVE  /\ Good(FollowUp(a)) /\ FollowUp(a).state = "FollowUp" /\ ~FollowUp(a).admitted
         /\ Good(AbortCurrent(a).actor) /\ AbortCurrent(a).actor.state = "CancelPending"
         /\ AbortCurrent(a).does = {"drop", "unmute"}
<1> DEFINE b == ResetBargeTurn(ResetBargeProbe(a))
           c == [b EXCEPT !.follow = 0, !.finish = FALSE, !.state = "FollowUp"]
           d == [b EXCEPT !.finish = TRUE, !.state = "CancelPending"]
<1>1. /\ b \in ActorType
      /\ b.pre = a.pre /\ b.spoken = a.spoken
      /\ b.frames = 0 /\ b.cooldown = 0 /\ b.probe = "idle" /\ ~b.admitted
  BY ResetsGood
<1>2. FollowUp(a) = c /\ AbortCurrent(a) = Result(d, {"drop", "unmute"})
  BY DEF FollowUp, AbortCurrent
<1>3. /\ c \in ActorType /\ c.state = "FollowUp" /\ c.pre = b.pre /\ c.spoken = b.spoken
      /\ c.frames = 0 /\ c.cooldown = 0 /\ c.probe = "idle" /\ ~c.admitted
  <2> HIDE DEF b
  <2> QED BY <1>1 DEF ActorType, States
<1>4. /\ d \in ActorType /\ d.state = "CancelPending" /\ d.pre = b.pre /\ d.spoken = b.spoken
      /\ d.frames = 0 /\ d.cooldown = 0 /\ d.probe = "idle" /\ ~d.admitted
  <2> HIDE DEF b
  <2> QED BY <1>1 DEF ActorType, States
<1> HIDE DEF b, c, d
<1>5. Good(c) /\ Good(d)
  BY <1>1, <1>3, <1>4 DEF Good, ActorInv, Answering
<1>6. Result(d, {"drop", "unmute"}).actor = d /\ Result(d, {"drop", "unmute"}).does = {"drop", "unmute"}
  BY DEF Result
<1> QED BY <1>2, <1>3, <1>4, <1>5, <1>6

LEMMA StartTurnGood ==
  ASSUME NEW a \in ActorType, NEW ended \in BOOLEAN,
         a.probe = "idle" /\ a.frames = 0 /\ a.cooldown = 0
  PROVE  LET b == StartTurn(a, ended)
         IN /\ b \in ActorType /\ b.state = (IF ended THEN "Response" ELSE "Capturing")
            /\ b.pre = 0 /\ b.spoken = 0 /\ ~b.missed
            /\ b.probe = "idle" /\ b.frames = 0 /\ b.cooldown = 0 /\ b.admitted = a.admitted
            /\ b.full = a.full /\ b.ended = a.ended
<1> DEFINE n == NoPreRoll(a)
<1>1. /\ n \in ActorType /\ SameCounts(a, n) /\ n.full = a.full /\ n.ended = a.ended
      /\ n.pre = 0 /\ n.spoken = 0 /\ ~n.missed
  BY NoPreRollGood
<1> HIDE DEF n
<1> QED BY <1>1 DEF ActorType, StartTurn, SameCounts, States, n

\* The first frame of the user's voice after a pause is never frozen.
LEMMA UnfrozenGood ==
  ASSUME NEW a \in ActorType, NEW f \in Frame
  PROVE  LET u == Unfrozen(a, f)
         IN /\ u \in ActorType /\ SameCounts(a, u)
            /\ u.pre = a.pre /\ u.spoken = a.spoken /\ u.missed = a.missed /\ u.full = a.full
            /\ u.ended = a.ended
            /\ Frozen(u) /\ f.near => u.ended
BY Sizes DEF ActorType, Unfrozen, Frozen, SameCounts, States, Frame

\* What SavePreRoll does with a frame that belongs to the utterance, and with
\* one that does not; a buffer that a confirmed utterance fills says so.
LEMMA SaveGood ==
  ASSUME NEW a \in ActorType, NEW belongs \in BOOLEAN, a.spoken <= a.pre
  PROVE  LET b == Save(a, belongs)
             limit == IF a.probe # "idle" \/ Waiting(a) THEN BargeBuffer ELSE PreRoll
         IN /\ b \in ActorType /\ SameCounts(a, b) /\ b.ended = a.ended
            /\ b.spoken <= b.pre /\ b.pre <= a.pre + 1
            /\ Waiting(a) /\ a.pre = BargeBuffer => b.full /\ b.pre = a.pre
            /\ ~(Waiting(a) /\ a.pre = BargeBuffer) =>
                 /\ b.full = a.full
                 /\ a.pre < limit => b.pre = a.pre + 1
                 /\ ~belongs => b.spoken = 0 /\ ~b.missed
                 /\ belongs /\ (a.pre < limit \/ a.spoken < a.pre) =>
                      b.spoken = a.spoken + 1 /\ b.missed = a.missed
<1> DEFINE limit == IF a.probe # "idle" \/ Waiting(a) THEN BargeBuffer ELSE PreRoll
           said == IF belongs THEN a.spoken + 1 ELSE 0
           kept == IF a.pre < limit THEN a.pre + 1 ELSE a.pre
           over == IF said > kept THEN kept ELSE said
           miss == belongs /\ (a.missed \/ said > kept)
           x == [a EXCEPT !.full = TRUE]
           y == [a EXCEPT !.pre = kept, !.spoken = over, !.missed = miss]
<1>1. Save(a, belongs) = IF Waiting(a) /\ a.pre = BargeBuffer THEN x ELSE y
  BY DEF Save
<1>2. /\ x \in ActorType /\ SameCounts(a, x) /\ x.ended = a.ended /\ x.pre = a.pre
      /\ x.spoken = a.spoken /\ x.full
  BY DEF ActorType, SameCounts, States
<1>3. /\ a.pre \in Nat /\ a.spoken \in Nat /\ a.missed \in BOOLEAN /\ limit \in Nat
  BY Sizes DEF ActorType
<1>4. said \in Nat /\ kept \in Nat /\ over \in Nat /\ miss \in BOOLEAN
  <2> HIDE DEF limit
  <2> QED BY <1>3
<1>5. /\ y \in ActorType /\ SameCounts(a, y) /\ y.ended = a.ended /\ y.full = a.full
      /\ y.pre = kept /\ y.spoken = over /\ y.missed = miss
  <2> HIDE DEF kept, over, miss
  <2> QED BY <1>4 DEF ActorType, SameCounts, States
<1>6. over <= kept /\ kept <= a.pre + 1
  <2> HIDE DEF limit
  <2> QED BY <1>3
<1>7. a.pre < limit => kept = a.pre + 1
  OBVIOUS
<1>8. ~belongs => over = 0 /\ ~miss
  <2> HIDE DEF limit
  <2> QED BY <1>3
<1>9. belongs /\ (a.pre < limit \/ a.spoken < a.pre) => over = a.spoken + 1 /\ miss = a.missed
  <2> HIDE DEF limit
  <2> QED BY <1>3
<1> HIDE DEF limit, x, y, kept, over, miss
<1>10. CASE Waiting(a) /\ a.pre = BargeBuffer
  <2>1. Save(a, belongs) = x
    BY <1>1, <1>10
  <2> QED BY <1>2, <1>3, <2>1, <1>10
<1>11. CASE ~(Waiting(a) /\ a.pre = BargeBuffer)
  <2>1. Save(a, belongs) = y
    BY <1>1, <1>11
  <2>2. /\ y.pre < a.pre + 2 /\ y.spoken <= y.pre
    BY <1>3, <1>4, <1>5, <1>6
  <2> QED BY <1>3, <1>4, <1>5, <1>6, <1>7, <1>8, <1>9, <2>1, <2>2, <1>11 DEF limit
<1> QED BY <1>10, <1>11

\* What SavePreRoll makes of the members, for each state they can be in.
SavedWell(a, b, loud) ==
  /\ b \in ActorType /\ SameCounts(a, b) /\ b.ended = a.ended /\ b.spoken <= b.pre
  /\ a.state \in {"Capturing", "Response"} => b.spoken = 0 /\ ~b.missed
  /\ a.state \in Answering /\ a.probe = "idle" /\ a.cooldown = 0 =>
       ~b.missed /\ b.spoken = IF loud THEN a.frames + 1 ELSE 0
  /\ a.probe = "idle" /\ a.cooldown # 0 => b.spoken = 0 /\ ~b.missed
  /\ a.probe # "idle" => b.pre = b.spoken /\ ~b.missed /\ b.pre = a.pre + 1
  /\ b.admitted => b.pre <= BargeBuffer
  /\ b.admitted /\ ~b.full => b.pre = b.spoken /\ ~b.missed

LEMMA SavedGood ==
  ASSUME NEW a, Good(a), NEW f \in Frame, NEW loud \in BOOLEAN
  PROVE  SavedWell(a, Saved(a, f, loud), loud)
<1> DEFINE u == Unfrozen(a, f)
           waits == [u EXCEPT !.missed = @ \/ (f.near /\ ~u.ended)]
           s == Save(u, Belongs(u, loud))
<1>1. a \in ActorType /\ ActorInv(a)
  BY DEF Good
<1>2. /\ u \in ActorType /\ SameCounts(a, u)
      /\ u.pre = a.pre /\ u.spoken = a.spoken /\ u.missed = a.missed /\ u.full = a.full
      /\ u.ended = a.ended
      /\ Frozen(u) /\ f.near => u.ended
  BY <1>1, UnfrozenGood
<1>3. Saved(a, f, loud) = IF u.state = "Capturing" THEN u ELSE IF Frozen(u) THEN waits ELSE s
  BY DEF Saved
<1>4. Belongs(u, loud) \in BOOLEAN
  BY <1>2 DEF Belongs, Waiting, ActorType
<1>5. /\ s \in ActorType /\ SameCounts(u, s) /\ s.ended = u.ended
      /\ s.spoken <= s.pre /\ s.pre <= u.pre + 1
      /\ Waiting(u) /\ u.pre = BargeBuffer => s.full /\ s.pre = u.pre
      /\ ~(Waiting(u) /\ u.pre = BargeBuffer) =>
           /\ s.full = u.full
           /\ u.pre < (IF u.probe # "idle" \/ Waiting(u) THEN BargeBuffer ELSE PreRoll) =>
                s.pre = u.pre + 1
           /\ ~Belongs(u, loud) => s.spoken = 0 /\ ~s.missed
           /\ Belongs(u, loud) /\ (u.pre < (IF u.probe # "idle" \/ Waiting(u) THEN BargeBuffer
                                            ELSE PreRoll)
                                   \/ u.spoken < u.pre) =>
                s.spoken = u.spoken + 1 /\ s.missed = u.missed
  <2> HIDE DEF u
  <2>1. u.spoken <= u.pre
    BY <1>1, <1>2 DEF ActorInv
  <2> QED BY <1>2, <1>4, <2>1, SaveGood
<1> HIDE DEF u, s
<1>6. CASE u.state = "Capturing"
  <2>1. Saved(a, f, loud) = u
    BY <1>3, <1>6
  <2> QED BY <1>1, <1>2, <1>6, <2>1 DEF SavedWell, SameCounts, ActorInv, Answering
<1>7. CASE u.state # "Capturing" /\ Frozen(u)
  <2>1. u.state = "CancelPending" /\ waits.missed = u.missed
    BY <1>2, <1>7 DEF Frozen, ActorType, Frame
  <2>2. waits \in ActorType /\ SameCounts(u, waits) /\ waits.ended = u.ended
        /\ waits.pre = u.pre /\ waits.spoken = u.spoken /\ waits.full = u.full
    BY <1>2 DEF ActorType, SameCounts, States, Frame
  <2>3. Saved(a, f, loud) = waits
    BY <1>3, <1>7
  <2> HIDE DEF waits
  <2> QED BY <1>1, <1>2, <2>1, <2>2, <2>3 DEF SavedWell, SameCounts, ActorInv, Answering
<1>8. CASE u.state # "Capturing" /\ ~Frozen(u)
  <2>1. Saved(a, f, loud) = s
    BY <1>3, <1>8
  <2>2. /\ s \in ActorType /\ SameCounts(a, s) /\ s.ended = a.ended /\ s.spoken <= s.pre
    BY <1>2, <1>5 DEF SameCounts
  <2>3. ASSUME a.state \in {"Capturing", "Response"} PROVE s.spoken = 0 /\ ~s.missed
    BY <1>1, <1>2, <1>5, <2>3 DEF Belongs, Waiting, Answering, SameCounts
  <2>4. ASSUME a.state \in Answering, a.probe = "idle", a.cooldown = 0
        PROVE  ~s.missed /\ s.spoken = IF loud THEN a.frames + 1 ELSE 0
    <3>1. ~Waiting(u) /\ (Belongs(u, loud) <=> loud)
      BY <1>2, <2>4 DEF Belongs, Waiting, Answering, SameCounts
    <3>2. /\ u.spoken = a.frames /\ a.frames < BargeCandidate /\ ~u.missed /\ u.spoken <= u.pre
      BY <1>1, <1>2, <2>4 DEF ActorInv
    <3>3. u.pre < PreRoll \/ u.spoken < u.pre
      BY <1>2, <3>2, Sizes DEF ActorType
    <3> QED BY <1>2, <1>5, <2>4, <3>1, <3>2, <3>3 DEF SameCounts
  <2>5. ASSUME a.probe = "idle", a.cooldown # 0 PROVE s.spoken = 0 /\ ~s.missed
    <3>1. a.state \in Answering
      BY <1>1, <2>5 DEF ActorInv
    <3> QED BY <1>2, <1>5, <2>5, <3>1 DEF Belongs, Waiting, Answering, SameCounts
  <2>6. ASSUME a.probe # "idle"
        PROVE  s.pre = s.spoken /\ ~s.missed /\ s.pre = a.pre + 1
    <3>1. a.state \in Answering
      BY <1>1, <2>6 DEF ActorInv
    <3>2. ~Waiting(u) /\ Belongs(u, loud) /\ u.probe # "idle"
      BY <1>2, <2>6, <3>1 DEF Belongs, Waiting, Answering, SameCounts
    <3>3. u.pre = u.spoken /\ ~u.missed /\ u.pre < BargeBuffer
      <4>1. a.pre \in Nat /\ a.frames \in Nat /\ a.probe \in {"low", "clear", "verify"}
        BY <1>1, <2>6 DEF ActorType
      <4> QED BY <1>1, <1>2, <4>1, Sizes DEF ActorInv, Kept
    <3> QED BY <1>2, <1>5, <3>2, <3>3 DEF SameCounts
  <2>7. ASSUME s.admitted
        PROVE  s.pre <= BargeBuffer /\ (~s.full => s.pre = s.spoken /\ ~s.missed)
    <3>1. /\ a.admitted /\ a.state = "CancelPending" /\ a.pre <= BargeBuffer
          /\ ~a.full => a.pre = a.spoken /\ ~a.missed
      BY <1>1, <2>2, <2>7 DEF ActorInv, SameCounts
    <3>2. Waiting(u) /\ Belongs(u, loud)
      BY <1>2, <3>1 DEF Waiting, Belongs, SameCounts
    <3>3. a.pre \in Nat
      BY <1>1 DEF ActorType
    <3>4. CASE u.pre = BargeBuffer
      BY <1>2, <1>5, <3>2, <3>4, Sizes
    <3>5. CASE u.pre # BargeBuffer
      <4>1. u.pre < BargeBuffer
        BY <1>2, <3>1, <3>3, <3>5, Sizes
      <4>2. s.full = u.full /\ s.pre = u.pre + 1 /\ s.spoken = u.spoken + 1 /\ s.missed = u.missed
        BY <1>5, <3>2, <3>5, <4>1
      <4> QED BY <1>2, <3>1, <3>3, <4>1, <4>2, Sizes
    <3> QED BY <3>4, <3>5
  <2> QED BY <2>1, <2>2, <2>3, <2>4, <2>5, <2>6, <2>7 DEF SavedWell
<1> QED BY <1>6, <1>7, <1>8
-----------------------------------------------------------------------------
(* The handlers of the actor.                                              *)

\* A handler leaves the members in order; it mutes only to probe, and a probe
\* that ends is unmuted, or the playback is dropped.
Outcome(a, r) ==
  /\ Good(r.actor)
  /\ r.actor.probe = "idle" => "mute" \notin r.does
  /\ r.actor.probe = "idle" /\ a.probe # "idle" => r.does \cap {"drop", "unmute"} # {}

LEMMA ResultIs ==
  ASSUME NEW a, NEW does
  PROVE  /\ Result(a, does).actor = a /\ Result(a, does).does = does
         /\ Stay(a).actor = a /\ Stay(a).does = {}
BY DEF Result, Stay

LEMMA ProbeGood ==
  ASSUME NEW c \in ActorType, c.state \in Answering, ~c.admitted, c.probe # "idle",
         c.pre = c.spoken,
         c.probe = "low" => Kept(c, BargeCandidate, BargeReferenceWait + 1),
         c.probe = "clear" => Kept(c, BargeCandidate + BargeReferenceWait, BargeEchoClear),
         c.probe = "verify" =>
           Kept(c, BargeCandidate + BargeReferenceWait + BargeEchoClear, BargeConfirm)
  PROVE  Good(c)
<1>1. c.pre \in Nat /\ c.spoken \in Nat
  BY DEF ActorType
<1> QED BY <1>1 DEF Good, ActorInv, Answering

LEMMA RejectedGood ==
  ASSUME NEW a, Good(a), NEW b, NEW loud, SavedWell(a, b, loud), a.probe # "idle"
  PROVE  Outcome(a, Rejected(b))
<1> DEFINE c == ResetBargeTurn(ResetBargeProbe(b))
           d == [c EXCEPT !.cooldown = BargeRetryCooldown]
<1>1. b \in ActorType /\ b.spoken <= b.pre /\ b.state = a.state
  BY DEF SavedWell, SameCounts
<1>2. /\ c \in ActorType
      /\ c.state = b.state /\ c.pre = b.pre /\ c.spoken = b.spoken
      /\ c.frames = 0 /\ c.cooldown = 0 /\ c.probe = "idle" /\ ~c.admitted
  BY <1>1, ResetsGood
<1>3. a.state \in Answering
  BY DEF Good, ActorInv
<1> HIDE DEF c
<1>4. /\ d \in ActorType
      /\ d.state = a.state /\ d.pre = b.pre /\ d.spoken = b.spoken
      /\ d.frames = 0 /\ d.cooldown = BargeRetryCooldown /\ d.probe = "idle" /\ ~d.admitted
  BY <1>1, <1>2, Sizes DEF ActorType
<1>5. Rejected(b) = Result(d, {"unmute"})
  BY DEF Rejected, c
<1> HIDE DEF d
<1>6. Good(d)
  BY <1>1, <1>3, <1>4, Sizes DEF Good, ActorInv, Answering
<1>7. Rejected(b).actor = d /\ Rejected(b).does = {"unmute"}
  BY <1>5, ResultIs
<1> QED BY <1>4, <1>6, <1>7 DEF Outcome

LEMMA CandidateGood ==
  ASSUME NEW a, Good(a), NEW loud \in BOOLEAN, NEW b, SavedWell(a, b, loud),
         a.state \in Answering, a.probe = "idle"
  PROVE  Outcome(a, Candidate(b, loud))
<1> DEFINE c1 == [b EXCEPT !.cooldown = @ - 1]
           c2 == [b EXCEPT !.frames = 0]
           c3 == [b EXCEPT !.frames = @ + 1]
           k == KeepNewest(b, BargeCandidate)
           r == ResetBargeTurn(k)
           c4 == [r EXCEPT !.frames = 0, !.probe = "low"]
<1>1. /\ a \in ActorType /\ ActorInv(a)
      /\ b \in ActorType /\ SameCounts(a, b) /\ b.spoken <= b.pre
      /\ b.state \in Answering /\ b.probe = "idle" /\ ~b.admitted
      /\ b.pre \in Nat /\ b.frames \in Nat /\ b.cooldown \in Nat
  BY DEF Good, SavedWell, SameCounts, ActorInv, Answering, ActorType
<1>2. b.cooldown = 0 => /\ ~b.missed /\ b.spoken = (IF loud THEN b.frames + 1 ELSE 0)
                        /\ b.frames < BargeCandidate
  BY <1>1 DEF SavedWell, SameCounts, ActorInv
<1>3. b.cooldown # 0 => b.frames = 0 /\ b.spoken = 0 /\ ~b.missed
  BY <1>1 DEF SavedWell, SameCounts, ActorInv
<1>4. CASE b.cooldown # 0
  <2>1. /\ c1 \in ActorType /\ c1.state = b.state /\ c1.probe = "idle" /\ c1.frames = 0
        /\ c1.admitted = b.admitted /\ c1.spoken = 0 /\ ~c1.missed /\ c1.pre = b.pre
    BY <1>1, <1>3, <1>4 DEF ActorType
  <2>2. Candidate(b, loud) = Stay(c1)
    BY <1>4 DEF Candidate
  <2> HIDE DEF c1
  <2>3. Good(c1)
    BY <1>1, <2>1, Sizes DEF Good, ActorInv, Answering
  <2> QED BY <1>1, <2>1, <2>2, <2>3, ResultIs DEF Outcome
<1>5. CASE b.cooldown = 0 /\ ~loud
  <2>1. /\ c2 \in ActorType /\ c2.state = b.state /\ c2.probe = "idle" /\ c2.frames = 0
        /\ c2.admitted = b.admitted /\ c2.spoken = 0 /\ ~c2.missed /\ c2.pre = b.pre
    BY <1>1, <1>2, <1>5 DEF ActorType
  <2>2. Candidate(b, loud) = Stay(c2)
    BY <1>5 DEF Candidate
  <2> HIDE DEF c2
  <2>3. Good(c2)
    BY <1>1, <2>1, Sizes DEF Good, ActorInv, Answering
  <2> QED BY <1>1, <2>1, <2>2, <2>3, ResultIs DEF Outcome
<1>6. CASE b.cooldown = 0 /\ loud /\ b.frames + 1 < BargeCandidate
  <2>1. /\ c3 \in ActorType /\ c3.state = b.state /\ c3.probe = "idle"
        /\ c3.frames = b.frames + 1 /\ c3.cooldown = 0
        /\ c3.admitted = b.admitted /\ c3.spoken = b.frames + 1 /\ ~c3.missed /\ c3.pre = b.pre
    BY <1>1, <1>2, <1>6 DEF ActorType
  <2>2. Candidate(b, loud) = Stay(c3)
    BY <1>6 DEF Candidate
  <2> HIDE DEF c3
  <2>3. Good(c3)
    BY <1>1, <1>2, <1>6, <2>1 DEF Good, ActorInv, Answering
  <2> QED BY <1>1, <2>1, <2>2, <2>3, ResultIs DEF Outcome
<1>7. CASE b.cooldown = 0 /\ loud /\ ~(b.frames + 1 < BargeCandidate)
  <2>1. b.frames + 1 = BargeCandidate /\ b.spoken = BargeCandidate /\ ~b.missed
    BY <1>1, <1>2, <1>7, Sizes DEF ActorType
  <2>2. /\ k \in ActorType /\ k.state = b.state /\ k.pre = BargeCandidate
        /\ k.spoken = b.spoken /\ k.missed = b.missed /\ k.probe = "idle"
    BY <1>1, <2>1, Sizes DEF ActorType, KeepNewest
  <2> HIDE DEF k
  <2>3. /\ r \in ActorType /\ r.state = k.state /\ r.pre = k.pre
        /\ r.spoken = k.spoken /\ r.missed = k.missed /\ ~r.admitted
    BY <2>2 DEF ActorType, ResetBargeTurn
  <2> HIDE DEF r
  <2>4. /\ c4 \in ActorType /\ c4.state = b.state /\ c4.pre = BargeCandidate
        /\ c4.spoken = BargeCandidate /\ ~c4.missed /\ ~c4.admitted /\ c4.frames = 0
        /\ c4.probe = "low"
    BY <2>1, <2>2, <2>3 DEF ActorType
  <2>5. Candidate(b, loud) = Result(c4, {"mute"})
    BY <1>7 DEF Candidate, r, k
  <2> HIDE DEF c4
  <2>6. Good(c4)
    BY <1>1, <2>4, Sizes DEF Good, ActorInv, Answering, Kept
  <2> QED BY <2>4, <2>5, <2>6, ResultIs DEF Outcome
<1> QED BY <1>4, <1>5, <1>6, <1>7

LEMMA AwaitReferenceLowGood ==
  ASSUME NEW a, Good(a), NEW loud, NEW f \in Frame, NEW b, SavedWell(a, b, loud), a.probe = "low"
  PROVE  Outcome(a, AwaitReferenceLow(b, f))
<1> DEFINE low == IF f.reference THEN 0 ELSE b.quiet + 1
           c1 == [b EXCEPT !.frames = b.frames + 1, !.quiet = low]
           c2 == [b EXCEPT !.frames = 0, !.quiet = low, !.probe = "clear"]
<1>1. /\ a \in ActorType /\ Kept(a, BargeCandidate, BargeReferenceWait + 1) /\ a.state \in Answering
      /\ b \in ActorType /\ SameCounts(a, b) /\ b.pre = b.spoken /\ b.pre = a.pre + 1
      /\ ~b.missed /\ ~a.admitted
  BY DEF Good, SavedWell, ActorInv, Answering
<1>2. /\ b \in ActorType /\ b.state \in Answering /\ b.probe = "low" /\ ~b.admitted
      /\ b.pre = b.spoken /\ ~b.missed
  BY <1>1 DEF SameCounts
<1>3. /\ b.pre \in Nat /\ b.frames \in Nat /\ b.frames + 1 \in Nat /\ b.quiet \in Nat /\ low \in Nat
      /\ 0 \in Nat
  BY <1>1 DEF ActorType
<1>4. b.pre <= BargeCandidate + b.frames + 1 /\ b.frames < BargeReferenceWait + 1
  <2>1. a.pre \in Nat /\ a.pre <= BargeCandidate + b.frames /\ b.frames < BargeReferenceWait + 1
    BY <1>1 DEF ActorType, Kept, SameCounts
  <2> QED BY <1>1, <1>3, <2>1, Sizes
<1> HIDE DEF low
<1>5. CASE b.frames + 1 > BargeReferenceWait
  <2>1. AwaitReferenceLow(b, f) = Rejected(b)
    BY <1>5 DEF AwaitReferenceLow
  <2> QED BY <2>1, RejectedGood
<1>6. CASE ~(b.frames + 1 > BargeReferenceWait) /\ low < BargeReferenceLow
  <2>1. /\ c1 \in ActorType /\ c1.state = b.state /\ c1.probe = "low"
        /\ c1.frames = b.frames + 1 /\ c1.admitted = b.admitted
        /\ c1.pre = b.pre /\ c1.spoken = b.spoken /\ ~c1.missed
    BY <1>2, <1>3 DEF ActorType
  <2>2. AwaitReferenceLow(b, f) = Stay(c1)
    BY <1>6 DEF AwaitReferenceLow, low
  <2> HIDE DEF c1
  <2>3. Good(c1)
    <3>1. Kept(c1, BargeCandidate, BargeReferenceWait + 1)
      BY <1>2, <1>3, <1>4, <1>6, <2>1, Sizes DEF Kept
    <3> QED BY <1>2, <2>1, <3>1, ProbeGood
  <2> QED BY <2>1, <2>2, <2>3, ResultIs DEF Outcome
<1>7. CASE ~(b.frames + 1 > BargeReferenceWait) /\ ~(low < BargeReferenceLow)
  <2>1. /\ c2 \in ActorType /\ c2.state = b.state /\ c2.probe = "clear"
        /\ c2.frames = 0 /\ c2.admitted = b.admitted
        /\ c2.pre = b.pre /\ c2.spoken = b.spoken /\ ~c2.missed
    BY <1>2, <1>3 DEF ActorType
  <2>2. AwaitReferenceLow(b, f) = Stay(c2)
    BY <1>7 DEF AwaitReferenceLow, low
  <2> HIDE DEF c2
  <2>3. Good(c2)
    <3>1. Kept(c2, BargeCandidate + BargeReferenceWait, BargeEchoClear)
      BY <1>2, <1>3, <1>4, <1>7, <2>1, Sizes DEF Kept
    <3> QED BY <1>2, <2>1, <3>1, ProbeGood
  <2> QED BY <2>1, <2>2, <2>3, ResultIs DEF Outcome
<1> QED BY <1>5, <1>6, <1>7

LEMMA AwaitEchoClearGood ==
  ASSUME NEW a, Good(a), NEW loud, NEW f, NEW b, SavedWell(a, b, loud), a.probe = "clear"
  PROVE  Outcome(a, AwaitEchoClear(b, f))
<1> DEFINE c1 == [b EXCEPT !.frames = b.frames + 1]
           c2 == [b EXCEPT !.frames = 0, !.probe = "verify"]
<1>1. /\ a \in ActorType /\ Kept(a, BargeCandidate + BargeReferenceWait, BargeEchoClear) /\ a.state \in Answering
      /\ b \in ActorType /\ SameCounts(a, b) /\ b.pre = b.spoken /\ b.pre = a.pre + 1
      /\ ~b.missed /\ ~a.admitted
  BY DEF Good, SavedWell, ActorInv, Answering
<1>2. /\ b \in ActorType /\ b.state \in Answering /\ b.probe = "clear" /\ ~b.admitted
      /\ b.pre = b.spoken /\ ~b.missed
  BY <1>1 DEF SameCounts
<1>3. /\ b.pre \in Nat /\ b.frames \in Nat /\ b.frames + 1 \in Nat /\ b.quiet \in Nat
      /\ 0 \in Nat
  BY <1>1 DEF ActorType
<1>4. b.pre <= BargeCandidate + BargeReferenceWait + b.frames + 1 /\ b.frames < BargeEchoClear
  <2>1. a.pre \in Nat /\ a.pre <= BargeCandidate + BargeReferenceWait + b.frames /\ b.frames < BargeEchoClear
    BY <1>1 DEF ActorType, Kept, SameCounts
  <2> QED BY <1>1, <1>3, <2>1, Sizes
<1>5. CASE f.reference
  <2>1. AwaitEchoClear(b, f) = Rejected(b)
    BY <1>5 DEF AwaitEchoClear
  <2> QED BY <2>1, RejectedGood
<1>6. CASE ~f.reference /\ b.frames + 1 < BargeEchoClear
  <2>1. /\ c1 \in ActorType /\ c1.state = b.state /\ c1.probe = "clear"
        /\ c1.frames = b.frames + 1 /\ c1.admitted = b.admitted
        /\ c1.pre = b.pre /\ c1.spoken = b.spoken /\ ~c1.missed
    BY <1>2, <1>3 DEF ActorType
  <2>2. AwaitEchoClear(b, f) = Stay(c1)
    BY <1>6 DEF AwaitEchoClear
  <2> HIDE DEF c1
  <2>3. Good(c1)
    <3>1. Kept(c1, BargeCandidate + BargeReferenceWait, BargeEchoClear)
      BY <1>2, <1>3, <1>4, <1>6, <2>1, Sizes DEF Kept
    <3> QED BY <1>2, <2>1, <3>1, ProbeGood
  <2> QED BY <2>1, <2>2, <2>3, ResultIs DEF Outcome
<1>7. CASE ~f.reference /\ ~(b.frames + 1 < BargeEchoClear)
  <2>1. /\ c2 \in ActorType /\ c2.state = b.state /\ c2.probe = "verify"
        /\ c2.frames = 0 /\ c2.admitted = b.admitted
        /\ c2.pre = b.pre /\ c2.spoken = b.spoken /\ ~c2.missed
    BY <1>2, <1>3 DEF ActorType
  <2>2. AwaitEchoClear(b, f) = Stay(c2)
    BY <1>7 DEF AwaitEchoClear
  <2> HIDE DEF c2
  <2>3. Good(c2)
    <3>1. Kept(c2, BargeCandidate + BargeReferenceWait + BargeEchoClear, BargeConfirm)
      BY <1>2, <1>3, <1>4, <1>7, <2>1, Sizes DEF Kept
    <3> QED BY <1>2, <2>1, <3>1, ProbeGood
  <2> QED BY <2>1, <2>2, <2>3, ResultIs DEF Outcome
<1> QED BY <1>5, <1>6, <1>7

LEMMA VerifyGood ==
  ASSUME NEW a, Good(a), NEW loud \in BOOLEAN, NEW f, NEW b, SavedWell(a, b, loud),
         a.probe = "verify"
  PROVE  Outcome(a, Verify(b, f, loud))
<1> DEFINE c1 == [b EXCEPT !.frames = b.frames + 1]
           r == ResetBargeProbe(b)
           c2 == [r EXCEPT !.admitted = TRUE, !.ended = FALSE, !.silence = 0,
                           !.full = FALSE, !.finish = FALSE, !.state = "CancelPending"]
<1>1. /\ a \in ActorType /\ Kept(a, BargeCandidate + BargeReferenceWait + BargeEchoClear, BargeConfirm) /\ a.state \in Answering
      /\ b \in ActorType /\ SameCounts(a, b) /\ b.pre = b.spoken /\ b.pre = a.pre + 1
      /\ ~b.missed /\ ~a.admitted
  BY DEF Good, SavedWell, ActorInv, Answering
<1>2. /\ b \in ActorType /\ b.state \in Answering /\ b.probe = "verify" /\ ~b.admitted
      /\ b.pre = b.spoken /\ ~b.missed
  BY <1>1 DEF SameCounts
<1>3. /\ b.pre \in Nat /\ b.frames \in Nat /\ b.frames + 1 \in Nat /\ b.quiet \in Nat
      /\ 0 \in Nat
  BY <1>1 DEF ActorType
<1>4. b.pre <= BargeCandidate + BargeReferenceWait + BargeEchoClear + b.frames + 1 /\ b.frames < BargeConfirm
  <2>1. a.pre \in Nat /\ a.pre <= BargeCandidate + BargeReferenceWait + BargeEchoClear + b.frames /\ b.frames < BargeConfirm
    BY <1>1 DEF ActorType, Kept, SameCounts
  <2> QED BY <1>1, <1>3, <2>1, Sizes
<1>5. CASE f.reference \/ ~loud
  <2>1. Verify(b, f, loud) = Rejected(b)
    BY <1>5 DEF Verify
  <2> QED BY <2>1, RejectedGood
<1>6. CASE ~(f.reference \/ ~loud) /\ b.frames + 1 < BargeConfirm
  <2>1. /\ c1 \in ActorType /\ c1.state = b.state /\ c1.probe = "verify"
        /\ c1.frames = b.frames + 1 /\ c1.admitted = b.admitted
        /\ c1.pre = b.pre /\ c1.spoken = b.spoken /\ ~c1.missed
    BY <1>2, <1>3 DEF ActorType
  <2>2. Verify(b, f, loud) = Stay(c1)
    BY <1>6 DEF Verify
  <2> HIDE DEF c1
  <2>3. Good(c1)
    <3>1. Kept(c1, BargeCandidate + BargeReferenceWait + BargeEchoClear, BargeConfirm)
      BY <1>2, <1>3, <1>4, <1>6, <2>1, Sizes DEF Kept
    <3> QED BY <1>2, <2>1, <3>1, ProbeGood
  <2> QED BY SMTT(30), <2>1, <2>2, <2>3, ResultIs DEF Outcome
<1>7. CASE ~(f.reference \/ ~loud) /\ ~(b.frames + 1 < BargeConfirm)
  <2>1. /\ r \in ActorType /\ r.frames = 0 /\ r.cooldown = 0 /\ r.probe = "idle"
        /\ r.pre = b.pre /\ r.spoken = b.spoken /\ ~r.missed
    BY <1>2 DEF ActorType, ResetBargeProbe
  <2> HIDE DEF r
  <2>2. /\ c2 \in ActorType /\ c2.state = "CancelPending" /\ c2.probe = "idle"
        /\ c2.frames = 0 /\ c2.cooldown = 0 /\ c2.admitted
        /\ c2.pre = b.pre /\ c2.spoken = b.spoken /\ ~c2.missed
    BY <2>1 DEF ActorType, States
  <2>3. Verify(b, f, loud) = Result(c2, {"drop", "unmute"})
    BY <1>7 DEF Verify, ConfirmBarge, r
  <2> HIDE DEF c2
  <2>4. Good(c2)
    BY <1>2, <1>3, <1>4, <2>1, <2>2, Sizes DEF Good, ActorInv, Answering
  <2> QED BY <2>2, <2>3, <2>4, ResultIs DEF Outcome
<1> QED BY <1>5, <1>6, <1>7

LEMMA HandleBargeGood ==
  ASSUME NEW a, Good(a), NEW loud \in BOOLEAN, NEW f \in Frame, NEW b, SavedWell(a, b, loud),
         a.state \in Answering
  PROVE  Outcome(a, HandleBarge(b, f, loud))
<1>1. b.probe = a.probe /\ a.probe \in {"idle", "low", "clear", "verify"}
  BY DEF SavedWell, SameCounts, Good, ActorType
<1>2. CASE a.probe = "idle"
  BY <1>1, <1>2, CandidateGood DEF HandleBarge
<1>3. CASE a.probe = "low"
  BY <1>1, <1>3, AwaitReferenceLowGood DEF HandleBarge
<1>4. CASE a.probe = "clear"
  BY <1>1, <1>4, AwaitEchoClearGood DEF HandleBarge
<1>5. CASE a.probe = "verify"
  BY <1>1, <1>5, VerifyGood DEF HandleBarge
<1> QED BY <1>1, <1>2, <1>3, <1>4, <1>5

LEMMA DiscontinuityGood ==
  ASSUME NEW a, Good(a)
  PROVE  Outcome(a, Discontinuity(a))
<1> DEFINE n == NoPreRoll(a)
           r == ResetBargeTurn(n)
           c1 == [r EXCEPT !.finish = TRUE]
           c2 == [n EXCEPT !.state = "Wake"]
<1>1. a \in ActorType /\ ActorInv(a)
  BY DEF Good
<1>2. n \in ActorType /\ SameCounts(a, n) /\ n.pre = 0 /\ n.spoken = 0 /\ ~n.missed
  BY <1>1, NoPreRollGood
<1> HIDE DEF n
<1>3. CASE a.state = "CancelPending"
  <2>1. /\ r \in ActorType /\ r.state = n.state /\ r.probe = n.probe /\ r.frames = n.frames
        /\ r.cooldown = n.cooldown /\ ~r.admitted /\ r.pre = 0 /\ r.spoken = 0 /\ ~r.missed
    BY <1>2 DEF ActorType, ResetBargeTurn
  <2> HIDE DEF r
  <2>2. /\ c1 \in ActorType /\ c1.state = n.state /\ c1.probe = n.probe /\ c1.frames = n.frames
        /\ c1.cooldown = n.cooldown /\ ~c1.admitted /\ c1.pre = 0 /\ c1.spoken = 0 /\ ~c1.missed
    BY <2>1 DEF ActorType
  <2>3. Discontinuity(a) = Stay(c1)
    BY <1>3 DEF Discontinuity, r, n, Answering
  <2> HIDE DEF c1
  <2>4. Good(c1) /\ c1.probe = a.probe /\ a.probe = "idle"
    BY <1>1, <1>2, <1>3, <2>2 DEF Good, ActorInv, SameCounts, Answering
  <2> QED BY <2>3, <2>4, ResultIs DEF Outcome
<1>4. CASE a.state \in Answering \cup {"Capturing", "Response"}
  <2>1. Discontinuity(a) = AbortCurrent(n)
    BY <1>4 DEF Discontinuity, n, Answering
  <2>2. /\ Good(AbortCurrent(n).actor) /\ AbortCurrent(n).actor.state = "CancelPending"
        /\ AbortCurrent(n).does = {"drop", "unmute"}
    BY <1>2, LeavesGood
  <2> QED BY <2>1, <2>2 DEF Outcome
<1>5. CASE a.state \notin Answering \cup {"Capturing", "Response", "CancelPending"}
  <2>1. /\ c2 \in ActorType /\ c2.state = "Wake" /\ c2.probe = n.probe /\ c2.frames = n.frames
        /\ c2.cooldown = n.cooldown /\ c2.admitted = n.admitted
        /\ c2.pre = 0 /\ c2.spoken = 0 /\ ~c2.missed
    BY <1>2 DEF ActorType, States
  <2>2. Discontinuity(a) = Result(c2, {"drop", "reset"})
    <3>1. a.state # "CancelPending" /\ ~(a.state \in Answering \cup {"Capturing", "Response"})
      BY <1>5
    <3> QED BY <3>1 DEF Discontinuity, n
  <2> HIDE DEF c2
  <2>3. Good(c2) /\ c2.probe = "idle"
    BY <1>1, <1>2, <1>5, <2>1 DEF Good, ActorInv, SameCounts, Answering
  <2> QED BY <2>2, <2>3, ResultIs DEF Outcome
<1> QED BY <1>3, <1>4, <1>5

\* Outside an answer there is no probe to keep, and a new state that is none
\* of an answer and does not ask for an empty pre-roll is as good as the old.
LEMMA PlainGood ==
  ASSUME NEW a \in ActorType, a.spoken <= a.pre,
         a.admitted => a.state = "CancelPending" /\ a.pre <= BargeBuffer,
         a.admitted /\ ~a.full => a.pre = a.spoken /\ ~a.missed,
         a.state \notin Answering,
         a.probe = "idle", a.frames = 0, a.cooldown = 0,
         a.state \in {"Capturing", "Response"} => a.spoken = 0 /\ ~a.missed
  PROVE  Good(a)
BY DEF Good, ActorInv, Answering

\* What OnFrame does in each state once the frame is saved.
LEMMA OnFrameGood ==
  ASSUME NEW a, Good(a), NEW f \in Frame, NEW loud \in BOOLEAN, NEW wake \in BOOLEAN
  PROVE  Outcome(a, OnFrame(a, f, loud, wake))
<1> DEFINE b == Saved(a, f, loud)
<1>1. a \in ActorType /\ ActorInv(a)
  BY DEF Good
<1>2. SavedWell(a, b, loud)
  BY SavedGood
<1>3. /\ b \in ActorType /\ b.state = a.state /\ b.probe = a.probe /\ b.frames = a.frames
      /\ b.cooldown = a.cooldown /\ b.admitted = a.admitted /\ b.spoken <= b.pre
      /\ b.pre \in Nat /\ b.spoken \in Nat
  BY <1>2 DEF SavedWell, SameCounts, ActorType
<1> HIDE DEF b
<1>4. CASE f.gap
  <2>1. OnFrame(a, f, loud, wake) = Discontinuity(a)
    BY <1>4 DEF OnFrame
  <2> QED BY <2>1, DiscontinuityGood
<1>5. CASE ~f.gap /\ a.state \in Answering
  <2>1. OnFrame(a, f, loud, wake) = HandleBarge(b, f, loud)
    BY <1>3, <1>5 DEF OnFrame, b, Answering
  <2> QED BY <1>2, <1>5, <2>1, HandleBargeGood
\* In the other states nothing is probed, and nothing is muted.
<1>6. ASSUME ~f.gap, a.state \notin Answering
      PROVE  /\ a.probe = "idle" /\ b.probe = "idle" /\ b.frames = 0 /\ b.cooldown = 0
             /\ a.state # "CancelPending" => ~b.admitted
  BY <1>1, <1>3, <1>6 DEF ActorInv, ActorType
<1>7. ASSUME a.state \notin Answering, a.probe = "idle",
             NEW c, Good(c), NEW does \in SUBSET {"reset"},
             OnFrame(a, f, loud, wake) = Result(c, does)
      PROVE  Outcome(a, OnFrame(a, f, loud, wake))
  BY <1>7, ResultIs DEF Outcome
<1>8. CASE ~f.gap /\ a.state = "Wake"
  <2> DEFINE c == [b EXCEPT !.state = "Speech"]
  <2>1. /\ c \in ActorType /\ c.state = "Speech" /\ c.probe = "idle" /\ c.frames = 0
        /\ c.cooldown = 0 /\ ~c.admitted /\ c.spoken <= c.pre
    BY <1>3, <1>6, <1>8 DEF ActorType, States, Answering
  <2>2. OnFrame(a, f, loud, wake) = IF wake THEN Result(c, {"reset"}) ELSE Stay(b)
    BY <1>3, <1>8 DEF OnFrame, b, Answering
  <2> HIDE DEF c
  <2>3. Good(c)
    BY <2>1, PlainGood DEF Answering
  <2>4. Good(b)
    BY <1>3, <1>6, <1>8, PlainGood DEF Answering
  <2> QED BY <1>6, <1>7, <1>8, <2>2, <2>3, <2>4 DEF Answering, Stay
<1>9. CASE ~f.gap /\ a.state = "Speech"
  <2> DEFINE c == StartTurn(b, FALSE)
  <2>1. /\ c \in ActorType /\ c.state = "Capturing" /\ c.pre = 0 /\ c.spoken = 0 /\ ~c.missed
        /\ c.probe = "idle" /\ c.frames = 0 /\ c.cooldown = 0 /\ ~c.admitted
    BY <1>3, <1>6, <1>9, StartTurnGood DEF Answering
  <2>2. OnFrame(a, f, loud, wake) = Stay(IF f.edge = "started" THEN c ELSE b)
    BY <1>3, <1>9 DEF OnFrame, b, Answering
  <2> HIDE DEF c
  <2>3. Good(c)
    BY <2>1, PlainGood DEF Answering
  <2>4. Good(b)
    BY <1>3, <1>6, <1>9, PlainGood DEF Answering
  <2> QED BY <1>6, <1>7, <1>9, <2>2, <2>3, <2>4 DEF Answering, Stay
<1>10. CASE ~f.gap /\ a.state = "FollowUp"
  <2> DEFINE c1 == [b EXCEPT !.follow = 0]
             c2 == [b EXCEPT !.follow = @ + 1]
             s == StartTurn(b, FALSE)
             c3 == [s EXCEPT !.follow = 0]
  <2>1. /\ s \in ActorType /\ s.state = "Capturing" /\ s.pre = 0 /\ s.spoken = 0 /\ ~s.missed
        /\ s.probe = "idle" /\ s.frames = 0 /\ s.cooldown = 0 /\ ~s.admitted
    BY <1>3, <1>6, <1>10, StartTurnGood DEF Answering
  <2> HIDE DEF s
  <2>2. /\ c3 \in ActorType /\ c3.state = "Capturing" /\ c3.pre = 0 /\ c3.spoken = 0 /\ ~c3.missed
        /\ c3.probe = "idle" /\ c3.frames = 0 /\ c3.cooldown = 0 /\ ~c3.admitted
    BY <2>1 DEF ActorType
  <2>3. /\ c1 \in ActorType /\ c1.state = "FollowUp" /\ c1.probe = "idle" /\ c1.frames = 0
        /\ c1.cooldown = 0 /\ ~c1.admitted /\ c1.spoken <= c1.pre
    BY <1>3, <1>6, <1>10 DEF ActorType, Answering
  <2>4. /\ c2 \in ActorType /\ c2.state = "FollowUp" /\ c2.probe = "idle" /\ c2.frames = 0
        /\ c2.cooldown = 0 /\ ~c2.admitted /\ c2.spoken <= c2.pre
    BY <1>3, <1>6, <1>10 DEF ActorType, Answering
  <2>5. OnFrame(a, f, loud, wake) = AwaitFollowUp(b, f)
    BY <1>3, <1>10 DEF OnFrame, b, Answering
  <2>6. AwaitFollowUp(b, f) \in {Stay(c1), Stay(c2), Stay(c3)}
    BY DEF AwaitFollowUp, s
  <2> HIDE DEF c1, c2, c3
  <2>7. Good(c1) /\ Good(c2) /\ Good(c3)
    BY <2>2, <2>3, <2>4, PlainGood DEF Answering
  <2> QED BY <1>6, <1>7, <1>10, <2>5, <2>6, <2>7 DEF Answering, Stay
<1>11. CASE ~f.gap /\ a.state = "Capturing"
  <2> DEFINE c == [b EXCEPT !.ended = FALSE, !.state = "Response"]
  <2>1. b.spoken = 0 /\ ~b.missed
    BY <1>2, <1>11 DEF SavedWell
  <2>2. /\ c \in ActorType /\ c.state = "Response" /\ c.probe = "idle" /\ c.frames = 0
        /\ c.cooldown = 0 /\ ~c.admitted /\ c.spoken = 0 /\ ~c.missed
    BY <1>3, <1>6, <1>11, <2>1 DEF ActorType, States, Answering
  <2>3. OnFrame(a, f, loud, wake) = Stay(IF b.ended \/ f.edge = "ended" THEN c ELSE b)
    BY <1>3, <1>11 DEF OnFrame, b, Answering
  <2> HIDE DEF c
  <2>4. c.pre \in Nat
    BY <2>2 DEF ActorType
  <2>5. Good(c)
    BY <2>2, <2>4, PlainGood DEF Answering
  <2>6. Good(b)
    BY <1>3, <1>6, <1>11, <2>1, PlainGood DEF Answering
  <2> QED BY <1>6, <1>7, <1>11, <2>3, <2>5, <2>6 DEF Answering, Stay
<1>12. CASE ~f.gap /\ a.state = "CancelPending"
  <2> DEFINE q == IF f.near THEN 0 ELSE IF b.silence < BargeTailFreeze THEN b.silence + 1
                                       ELSE b.silence
             e == b.ended \/ f.edge = "ended"
             c == [b EXCEPT !.silence = q, !.ended = e]
  <2>1. q \in Nat /\ e \in BOOLEAN
    BY <1>3 DEF ActorType
  <2>2. OnFrame(a, f, loud, wake) = Track(b, f)
    BY <1>3, <1>12 DEF OnFrame, b, Answering
  <2>q. Track(b, f) = Stay(c)
    BY DEF Track
  <2> HIDE DEF q, e
  <2>3. /\ c \in ActorType /\ c.state = "CancelPending" /\ c.probe = "idle" /\ c.frames = 0
        /\ c.cooldown = 0 /\ c.admitted = b.admitted /\ c.full = b.full /\ c.pre = b.pre
        /\ c.spoken = b.spoken /\ c.missed = b.missed
    BY <1>3, <1>6, <1>12, <2>1 DEF ActorType, Answering
  <2> HIDE DEF c
  <2>4. /\ b.admitted => b.pre <= BargeBuffer
        /\ b.admitted /\ ~b.full => b.pre = b.spoken /\ ~b.missed
    BY <1>2 DEF SavedWell
  <2>5. Good(c)
    BY <1>3, <2>3, <2>4, PlainGood DEF Answering
  <2> QED BY <1>6, <1>7, <1>12, <2>2, <2>q, <2>5 DEF Answering, Stay
<1>13. CASE ~f.gap /\ a.state = "Response"
  <2>1. OnFrame(a, f, loud, wake) = Result(b, {})
    BY <1>3, <1>13 DEF OnFrame, b, Stay, Answering
  <2>2. Good(b)
    BY <1>2, <1>3, <1>6, <1>13, PlainGood DEF Answering, SavedWell
  <2> QED BY <1>6, <1>7, <1>13, <2>1, <2>2 DEF Answering
<1>14. a.state \in States /\ f.gap \in BOOLEAN
  BY <1>1 DEF ActorType, Frame
<1> QED
  BY <1>4, <1>5, <1>8, <1>9, <1>10, <1>11, <1>12, <1>13, <1>14 DEF States, Answering

LEMMA FinishTurnGood ==
  ASSUME NEW a \in ActorType, a.spoken <= a.pre, NEW normal, NEW b
  PROVE  Outcome(b, FinishTurn(a, normal))
<1>1. Good(FollowUp(a)) /\ FollowUp(a).state = "FollowUp"
  BY LeavesGood
<1>2. FinishTurn(a, normal).actor = FollowUp(a)
  BY ResultIs DEF FinishTurn
<1>3. /\ "unmute" \in FinishTurn(a, normal).does /\ "mute" \notin FinishTurn(a, normal).does
  BY ResultIs DEF FinishTurn
<1>4. FinishTurn(a, normal).does \cap {"drop", "unmute"} # {}
  BY <1>3
<1> QED BY <1>1, <1>2, <1>3, <1>4 DEF Outcome

LEMMA AbortCurrentGood ==
  ASSUME NEW a \in ActorType, a.spoken <= a.pre, NEW b
  PROVE  Outcome(b, AbortCurrent(a))
<1>1. Good(AbortCurrent(a).actor) /\ AbortCurrent(a).does = {"drop", "unmute"}
  BY LeavesGood
<1> QED BY <1>1 DEF Outcome

LEMMA LoseConnectionGood ==
  ASSUME NEW a, NEW b
  PROVE  Outcome(b, LoseConnection(a))
<1>1. LoseConnection(a).actor = NewActor /\ LoseConnection(a).does = {"drop", "unmute", "reset"}
  BY ResultIs DEF LoseConnection
<1> QED BY <1>1, NewActorGood DEF Outcome

LEMMA CompleteCancelGood ==
  ASSUME NEW a, Good(a), a.state = "CancelPending"
  PROVE  Outcome(a, CompleteCancel(a))
<1>1. a \in ActorType /\ a.spoken <= a.pre /\ a.probe = "idle" /\ a.frames = 0 /\ a.cooldown = 0
      /\ a.ended \in BOOLEAN
  BY DEF Good, ActorInv, Answering, ActorType
<1>2. CASE a.finish
  BY <1>1, <1>2, FinishTurnGood DEF CompleteCancel
<1>3. CASE ~a.finish /\ a.admitted /\ ~a.full
  <2> DEFINE s == StartTurn(a, a.ended)
             c == [s EXCEPT !.admitted = FALSE, !.ended = FALSE, !.finish = FALSE]
  <2>1. /\ s \in ActorType /\ s.state \in {"Response", "Capturing"}
        /\ s.pre = 0 /\ s.spoken = 0 /\ ~s.missed
        /\ s.probe = "idle" /\ s.frames = 0 /\ s.cooldown = 0
    BY <1>1, StartTurnGood
  <2>2. CompleteCancel(a) = Result(c, {"drop"})
    BY <1>3 DEF CompleteCancel, ResumeAfterBarge
  <2> HIDE DEF s
  <2>3. /\ c \in ActorType /\ c.state = s.state /\ ~c.admitted
        /\ c.pre = 0 /\ c.spoken = 0 /\ ~c.missed
        /\ c.probe = "idle" /\ c.frames = 0 /\ c.cooldown = 0
    BY <2>1 DEF ActorType
  <2> HIDE DEF c
  <2>4. Good(c)
    BY <2>1, <2>3, PlainGood DEF Answering
  <2> QED BY <1>1, <2>2, <2>4, ResultIs DEF Outcome
<1>4. CASE ~a.finish /\ ~(a.admitted /\ ~a.full)
  <2>1. CompleteCancel(a) = FinishTurn(NoPreRoll(a), FALSE)
    BY <1>4 DEF CompleteCancel
  <2>2. NoPreRoll(a) \in ActorType /\ NoPreRoll(a).spoken <= NoPreRoll(a).pre
    BY <1>1, NoPreRollGood
  <2> QED BY <2>1, <2>2, FinishTurnGood
<1> QED BY <1>2, <1>3, <1>4

LEMMA NobodySpeaksGood ==
  ASSUME NEW a, Good(a), a.state \in {"Speech", "FollowUp"}
  PROVE  Outcome(a, Result([NoPreRoll(a) EXCEPT !.state = "Wake"], {"reset"}))
<1> DEFINE n == NoPreRoll(a)
           c == [n EXCEPT !.state = "Wake"]
<1>1. a \in ActorType /\ a.probe = "idle" /\ a.frames = 0 /\ a.cooldown = 0 /\ ~a.admitted
  BY DEF Good, ActorInv, Answering
<1>2. /\ n \in ActorType /\ n.probe = "idle" /\ n.frames = 0 /\ n.cooldown = 0 /\ ~n.admitted
      /\ n.pre = 0 /\ n.spoken = 0
  BY <1>1, NoPreRollGood DEF SameCounts
<1> HIDE DEF n
<1>3. /\ c \in ActorType /\ c.probe = "idle" /\ c.frames = 0 /\ c.cooldown = 0 /\ ~c.admitted
      /\ c.pre = 0 /\ c.spoken = 0 /\ c.state = "Wake"
  BY <1>2 DEF ActorType, States
<1> HIDE DEF c
<1>4. Good(c)
  BY <1>3, PlainGood DEF Answering
<1>5. Outcome(a, Result(c, {"reset"}))
  BY <1>1, <1>4, ResultIs DEF Outcome
<1> QED BY <1>5 DEF c, n

-----------------------------------------------------------------------------
(* The engine's steps.                                                     *)

\* What is in the ring and in the actor's hand are frames.
FramesInv ==
  /\ held \in Seq(Frame) /\ Len(held) <= 1
  /\ capture \in Seq(Frame)
  /\ vad \in [in_speech : BOOLEAN, run : Nat]

\* The actor's part of the engine: nobody but the client in conversation
\* changes it, a playback is prepared between two states of an answer, and a
\* muted one is being probed.
UtteranceInv ==
  /\ Good(act)
  /\ Anyone => act.state = "Wake"
  /\ caller = "prepare" /\ ~Anyone => act.state = "Response"
  /\ MutedOnlyWhileProbing

LEMMA UtteranceInit == Init => FramesInv /\ UtteranceInv
<1> SUFFICES ASSUME Init PROVE FramesInv /\ UtteranceInv
  OBVIOUS
<1>1. FramesInv
  BY DEF Init, CaptureInit, FramesInv, NewVad
<1>2. Good(act) /\ act.state = "Wake" /\ caller = "none" /\ ~muted
  BY NewActorGood DEF Init, NewActor
<1> QED BY <1>1, <1>2 DEF UtteranceInv, MutedOnlyWhileProbing

LEMMA CaptureSizes ==
  /\ CaptureSlots \in Nat /\ CaptureSlots > 0 /\ VadStart \in Nat /\ VadStart > 0
  /\ VadEnd \in Nat /\ VadEnd > 0 /\ Warmup \in Nat /\ Warmup > 0
  /\ TailFrames \in Nat /\ TailFrames > 0
BY CaptureAssumption DEF CaptureAssumption

LEMMA UpdateVadType ==
  ASSUME vad \in [in_speech : BOOLEAN, run : Nat], NEW now \in BOOLEAN
  PROVE  UpdateVad(now) \in [in_speech : BOOLEAN, run : Nat]
BY DEF UpdateVad

\* Push leaves frames in the ring.
LEMMA PushFrames ==
  ASSUME capture \in Seq(Frame), NEW f \in Frame, Push(f)
  PROVE  capture' \in Seq(Frame)
<1>1. [f EXCEPT !.gap = TRUE] \in Frame
  BY DEF Frame
<1>2. <<[f EXCEPT !.gap = TRUE]>> \in Seq(Frame) /\ Append(capture, f) \in Seq(Frame)
  BY <1>1
<1> QED BY <1>2 DEF Push

LEMMA UndecidedFrames ==
  ASSUME NEW s \in Seq(Frame)
  PROVE  /\ Undecided(s) \in Seq(Frame) /\ Len(Undecided(s)) = Len(s)
         /\ \A i \in 1..Len(s) :
              /\ ~Undecided(s)[i].near /\ Undecided(s)[i].edge = "none"
              /\ Undecided(s)[i].gap = s[i].gap
<1> DEFINE u(x) == [x EXCEPT !.near = FALSE, !.edge = "none"]
<1>1. DOMAIN s = 1..Len(s) /\ Len(s) \in Nat /\ \A i \in 1..Len(s) : s[i] \in Frame
  OBVIOUS
<1>2. ASSUME NEW x \in Frame
      PROVE  u(x) \in Frame /\ ~u(x).near /\ u(x).edge = "none" /\ u(x).gap = x.gap
  BY DEF Frame
<1>3. Undecided(s) = [i \in 1..Len(s) |-> u(s[i])]
  BY <1>1 DEF Undecided
<1> HIDE DEF u
<1>4. \A i \in 1..Len(s) : u(s[i]) \in Frame
  BY <1>1, <1>2
<1>5. /\ Undecided(s) \in Seq(Frame) /\ Len(Undecided(s)) = Len(s)
      /\ \A i \in 1..Len(s) : Undecided(s)[i] = u(s[i])
  BY <1>1, <1>3, <1>4
<1> QED BY <1>1, <1>2, <1>5

LEMMA FramesNext == FramesInv /\ [Next]_vars => FramesInv'
<1> SUFFICES ASSUME FramesInv, [Next]_vars PROVE FramesInv'
  OBVIOUS
<1> USE DEF FramesInv
<1>0. CASE UNCHANGED vars
  BY <1>0 DEF vars, captureVars, actorVars
<1>a. ASSUME UNCHANGED <<held, capture, vad>> PROVE FramesInv'
  BY <1>a
<1>1. CASE Reply \/ CommandTimesOut
  BY <1>1, <1>a DEF Reply, CommandTimesOut, captureVars, TimesOut, actorVars
<1>2. CASE AnyCall
  BY <1>2, <1>a DEF AnyCall, AskPlayback, CaptureRests, captureVars, actorVars
<1>3. CASE CloseEngine \/ OpenEngine
  BY <1>3, <1>a DEF CloseEngine, OpenEngine, CaptureRests, captureVars, actorVars
<1>4. CASE EngineJoined
  BY <1>4 DEF EngineJoined, NewVad, actorVars
<1>5. CASE Conversation
  <2>1. CASE TakeFrame
    <3>1. capture \in Seq(Frame) /\ capture # <<>> /\ vad' = vad
          /\ held' = <<Head(capture)>> /\ capture' = Tail(capture)
      BY <2>1 DEF TakeFrame
    <3>2. Head(capture) \in Frame /\ Tail(capture) \in Seq(Frame)
      BY <3>1
    <3> QED BY <3>1, <3>2
  <2>2. CASE HandleFrame \/ DrainEnds \/ CancelTimeout \/ TurnTimeout \/ NobodySpeaks
    <3>1. held' = <<>> /\ capture' = capture /\ vad' = vad
      BY <2>2 DEF HandleFrame, DrainEnds, CancelTimeout, TurnTimeout, NobodySpeaks, Deadline,
                  CaptureRests
    <3> QED BY <3>1
  <2>3. CASE Cancelled \/ ServerError \/ TouchInterrupt \/ LateStart
    BY <2>3, <1>a DEF Cancelled, ServerError, TouchInterrupt, LateStart, Event, CaptureRests
  <2>4. CASE AudioStart
    BY <2>4, <1>a DEF AudioStart, AskPlayback, CaptureRests, actorVars
  <2>5. CASE Audio
    BY <2>5, <1>a DEF Audio, captureVars, actorVars
  <2>6. CASE Done
    BY <2>6, <1>a DEF Done, captureVars
  <2> QED BY <1>5, <2>1, <2>2, <2>3, <2>4, <2>5, <2>6 DEF Conversation
<1>6. CASE PlaybackThread
  BY <1>6, <1>a DEF PlaybackThread, CaptureRests, actorVars
<1>7. CASE CaptureThread
  <2>1. held' = held
    BY <1>7 DEF CaptureThread
  <2>2. CASE HearFrame
    <3>1. CASE HearGap
      <4>1. GapFrame \in Frame /\ NewVad \in [in_speech : BOOLEAN, run : Nat]
        BY DEF GapFrame, Frame, NewVad
      <4>2. Push(GapFrame) /\ vad' = NewVad
        BY <3>1 DEF HearGap
      <4> QED BY <2>1, <4>1, <4>2, PushFrames
    <3>2. ASSUME NEW now \in BOOLEAN, NEW reference \in {FALSE, active /\ ~drop},
                 Hear(now, reference)
          PROVE  FramesInv'
      <4> DEFINE f == [near |-> now /\ ~Suppresses(Gated(reference)), edge |-> Edge(UpdateVad(now)),
                       reference |-> reference, gap |-> FALSE]
      <4>1. Push(f) /\ vad' \in {NewVad, UpdateVad(now)}
        BY <3>2 DEF Hear
      <4>2. f \in Frame
        <5>1. Edge(UpdateVad(now)) \in {"none", "started", "ended"}
          BY DEF Edge
        <5>2. reference \in BOOLEAN
          OBVIOUS
        <5>3. (now /\ ~Suppresses(Gated(reference))) \in BOOLEAN
          OBVIOUS
        <5> QED BY <5>1, <5>2, <5>3 DEF Frame
      <4>3. vad' \in [in_speech : BOOLEAN, run : Nat]
        <5>1. UpdateVad(now) \in [in_speech : BOOLEAN, run : Nat]
          BY UpdateVadType
        <5>2. NewVad \in [in_speech : BOOLEAN, run : Nat]
          BY DEF NewVad
        <5> QED BY <4>1, <5>1, <5>2
      <4> QED BY <2>1, <4>1, <4>2, <4>3, PushFrames
    <3> QED BY <2>2, <3>1, <3>2 DEF HearFrame
  <2>3. CASE LookForCommand \/ NoFrame \/ CaptureFails \/ CaptureStops
    BY <2>1, <2>3, <1>a DEF LookForCommand, NoFrame, CaptureFails, CaptureStops
  <2>4. CASE CarryOut
    <3>1. capture' = capture /\ vad' \in {vad, NewVad}
      BY <2>4 DEF CarryOut, ResetListener, PreparePlayback
    <3>2. NewVad \in [in_speech : BOOLEAN, run : Nat]
      BY DEF NewVad
    <3>3. vad' \in [in_speech : BOOLEAN, run : Nat]
      BY <3>1, <3>2
    <3> QED BY <2>1, <3>1, <3>3
  <2>5. CASE Answer
    <3>1. vad' = vad /\ capture' \in {capture, Undecided(capture)}
      BY <2>5 DEF Answer
    <3>2. capture' \in Seq(Frame)
      BY <3>1, UndecidedFrames
    <3> QED BY <2>1, <3>1, <3>2
  <2> QED BY <1>7, <2>2, <2>3, <2>4, <2>5 DEF CaptureThread
<1> QED BY <1>0, <1>1, <1>2, <1>3, <1>4, <1>5, <1>6, <1>7 DEF Next

\* What a handler of the actor does to it, to the engine and to its command.
LEMMA DoesGood ==
  ASSUME UtteranceInv, NEW r, Outcome(act, r), Does(r), Talks
  PROVE  UtteranceInv'
<1>1. /\ act' = r.actor /\ scope' = scope
      /\ muted' = ("mute" \in r.does \/ (muted /\ "unmute" \notin r.does))
      /\ caller' \in {"none", "reset"}
  BY DEF Does, Talks, Free, Ask
<1>2. Good(act') /\ ~Anyone'
  BY <1>1 DEF Outcome, Talks, Anyone
<1>3. MutedOnlyWhileProbing'
  <2> SUFFICES ASSUME muted', active', ~drop' PROVE act'.probe # "idle"
    BY DEF MutedOnlyWhileProbing
  <2>1. CASE "drop" \in r.does /\ active
    BY <2>1 DEF Does, Drops, DropPlayback
  <2>2. CASE ~("drop" \in r.does /\ active)
    <3>1. active' = active /\ drop' = drop
      BY <2>2 DEF Does, playbackVars
    <3>2. "drop" \notin r.does
      BY <2>2, <3>1
    <3>3. ASSUME act'.probe = "idle" PROVE FALSE
      <4>1. "mute" \notin r.does
        BY <1>1, <3>3 DEF Outcome
      <4>2. muted /\ "unmute" \notin r.does
        BY <1>1, <4>1
      <4>3. act.probe # "idle"
        BY <3>1, <4>2 DEF UtteranceInv, MutedOnlyWhileProbing
      <4>4. r.does \cap {"drop", "unmute"} # {}
        BY <1>1, <3>3, <4>3 DEF Outcome
      <4> QED BY <3>2, <4>2, <4>4
    <3> QED BY <3>3
  <2> QED BY <2>1, <2>2
<1> QED BY <1>1, <1>2, <1>3 DEF UtteranceInv

\* BeginPlayback returns: the answer begins with no candidate.
LEMMA BeginsGood ==
  ASSUME UtteranceInv, caller = "prepare", caller' = "none", scope' = scope, muted' = FALSE,
         act' = [ResetBargeProbe(act) EXCEPT !.state = IF Anyone THEN @ ELSE "Playing"]
  PROVE  UtteranceInv'
<1> DEFINE b == ResetBargeProbe(act)
           state == IF Anyone THEN b.state ELSE "Playing"
           c == [b EXCEPT !.state = state]
<1>1. act \in ActorType /\ ActorInv(act)
  BY DEF UtteranceInv, Good
<1>2. /\ b \in ActorType /\ b.state = act.state /\ b.admitted = act.admitted /\ b.pre = act.pre
      /\ b.spoken = act.spoken /\ b.missed = act.missed
      /\ b.frames = 0 /\ b.cooldown = 0 /\ b.probe = "idle"
  BY <1>1 DEF ActorType, ResetBargeProbe
<1>3. act' = c
  OBVIOUS
<1>4. state \in {"Wake", "Playing"} /\ (state = "Playing" => act.state = "Response" /\ ~Anyone)
      /\ (state = "Wake" => Anyone /\ act.state = "Wake")
  BY <1>2 DEF UtteranceInv
<1> HIDE DEF b, state
<1>5. /\ c \in ActorType /\ c.state = state /\ c.admitted = b.admitted /\ c.pre = b.pre
      /\ c.spoken = b.spoken /\ (~b.missed => ~c.missed)
      /\ c.frames = 0 /\ c.cooldown = 0 /\ c.probe = "idle"
  BY <1>2, <1>4 DEF ActorType, States
<1> HIDE DEF c
<1>6. Good(c)
  <2>1. ~c.admitted /\ c.spoken <= c.pre
    BY <1>1, <1>2, <1>4, <1>5 DEF ActorInv
  <2>2. c.state = "Playing" => c.spoken = 0 /\ ~c.missed
    BY <1>1, <1>2, <1>4, <1>5 DEF ActorInv
  <2> QED BY <1>4, <1>5, <2>1, <2>2, Sizes DEF Good, ActorInv, Answering
<1>7. Anyone' = Anyone /\ (Anyone => c.state = "Wake")
  BY <1>4, <1>5 DEF Anyone
<1> QED BY <1>3, <1>6, <1>7 DEF UtteranceInv, MutedOnlyWhileProbing

LEMMA ConversationUtterance ==
  ASSUME FramesInv, UtteranceInv, Conversation
  PROVE  UtteranceInv'
<1>1. act \in ActorType /\ act.spoken <= act.pre /\ Good(act)
  BY DEF UtteranceInv, Good, ActorInv
<1>2. CASE TakeFrame
  BY <1>2 DEF TakeFrame, UtteranceInv, MutedOnlyWhileProbing, playbackVars, Anyone
<1>3. CASE HandleFrame
  <2>1. PICK loud \in {held[1].near, FALSE}, wake \in BOOLEAN :
          Does(OnFrame(act, held[1], loud, wake))
    BY <1>3 DEF HandleFrame
  <2>2. held[1] \in Frame
    BY <1>3 DEF HandleFrame, FramesInv
  <2>3. loud \in BOOLEAN
    BY <2>2 DEF Frame
  <2>4. Outcome(act, OnFrame(act, held[1], loud, wake))
    BY <1>1, <2>2, <2>3, OnFrameGood
  <2> QED BY <1>3, <2>1, <2>4, DoesGood DEF HandleFrame
<1>4. ASSUME NEW states, NEW r, Event(states, r) \/ Deadline(states, r),
             act.state \in states => Outcome(act, r)
      PROVE  UtteranceInv'
  <2>1. Talks /\ act.state \in states /\ Does(r)
    BY <1>4 DEF Event, Deadline
  <2> QED BY <1>4, <2>1, DoesGood
<1>5. CASE Cancelled
  <2>1. act.state \in {"CancelPending"} => Outcome(act, CompleteCancel(act))
    BY <1>1, CompleteCancelGood
  <2> QED BY <1>4, <1>5, <2>1 DEF Cancelled
<1>6. CASE ServerError
  <2>1. Outcome(act, FinishTurn(act, FALSE))
    BY <1>1, FinishTurnGood
  <2> QED BY <1>4, <1>6, <2>1 DEF ServerError
<1>7. CASE TouchInterrupt \/ TurnTimeout
  <2>1. Outcome(act, AbortCurrent(act))
    BY <1>1, AbortCurrentGood
  <2> QED BY <1>4, <1>7, <2>1 DEF TouchInterrupt, TurnTimeout
<1>8. CASE LateStart \/ CancelTimeout
  <2>1. Outcome(act, LoseConnection(act))
    BY LoseConnectionGood
  <2> QED BY <1>4, <1>8, <2>1 DEF LateStart, CancelTimeout
<1>9. CASE AudioStart
  BY <1>9 DEF AudioStart, AskPlayback, UtteranceInv, MutedOnlyWhileProbing, flags, Anyone,
              actorVars
<1>10. CASE Audio
  BY <1>10 DEF Audio, QueueTts24k, UtteranceInv, MutedOnlyWhileProbing, Anyone, actorVars,
               captureVars
<1>11. CASE Done
  <2> DEFINE c == [act EXCEPT !.state = "Draining"]
  <2>1. /\ act.state \in {"Playing", "Response"} /\ act' = c
        /\ UNCHANGED <<scope, caller, muted>> /\ Talks
        /\ active' = active /\ drop' = drop
    BY <1>11 DEF Done, EndPlayback, playbackVars
  <2>2. /\ c \in ActorType /\ c.state = "Draining" /\ c.probe = act.probe
        /\ c.frames = act.frames /\ c.cooldown = act.cooldown /\ c.admitted = act.admitted
        /\ c.full = act.full /\ c.pre = act.pre /\ c.spoken = act.spoken
        /\ c.missed = act.missed
    BY <1>1 DEF ActorType, States
  <2> HIDE DEF c
  <2>3. ActorInv(act) /\ act.missed \in BOOLEAN
    BY <1>1 DEF Good, ActorType
  <2>4. CASE act.state = "Playing"
    <3>1. Good(c)
      BY <2>2, <2>3, <2>4 DEF Good, ActorInv, Answering, Kept
    <3> QED BY <2>1, <2>2, <3>1 DEF UtteranceInv, MutedOnlyWhileProbing, Anyone, Talks, Free
  <2>5. CASE act.state = "Response"
    <3>1. /\ c.spoken = 0 /\ ~c.missed /\ ~c.admitted /\ c.frames = 0 /\ c.cooldown = 0
          /\ c.probe = "idle" /\ c.spoken <= c.pre
      BY <2>2, <2>3, <2>5 DEF ActorInv, Answering
    <3>2. Good(c)
      BY <2>2, <3>1, Sizes DEF Good, ActorInv, Answering
    <3> QED BY <2>1, <2>2, <3>2 DEF UtteranceInv, MutedOnlyWhileProbing, Anyone, Talks, Free
  <2> QED BY <2>1, <2>4, <2>5
<1>12. CASE DrainEnds
  <2>1. Outcome(act, FinishTurn(act, TRUE))
    BY <1>1, FinishTurnGood
  <2> QED BY <1>4, <1>12, <2>1 DEF DrainEnds
<1>13. CASE NobodySpeaks
  <2>1. act.state \in {"Speech", "FollowUp"} =>
          Outcome(act, Result([NoPreRoll(act) EXCEPT !.state = "Wake"], {"reset"}))
    BY <1>1, NobodySpeaksGood
  <2> QED BY <1>4, <1>13, <2>1 DEF NobodySpeaks
<1> QED
  BY <1>2, <1>3, <1>5, <1>6, <1>7, <1>8, <1>9, <1>10, <1>11, <1>12, <1>13 DEF Conversation

\* What a packet in the queue leaves alone.
LEMMA QueueKeeps ==
  ASSUME NEW samples, NEW follows, QueueTts24k(samples, follows)
  PROVE  /\ UNCHANGED <<active, ending, started, rebuffering, drop, stop, open,
                         results, thread, asked, late>>
         /\ Calls /\ active
<1> DEFINE start == [tts |-> tts, tail |-> tts_tail, count |-> tts_count]
           after == FoldLeft(PutSample, start, [i \in 1..samples |-> accepted + i - 1])
<1>1. /\ Calls /\ active /\ ~ending /\ Fits(samples)
      /\ sequence_set => follows
      /\ accepted + samples <= MaxSamples
      /\ tts' = after.tts /\ tts_tail' = after.tail /\ tts_count' = after.count
      /\ queued_samples' = queued_samples + samples
      /\ sequence_set' = TRUE
      /\ accepted' = accepted + samples
      /\ UNCHANGED <<tts_head, active, ending, started, rebuffering, drop, stop, open,
                      results, thread, rendered, asked, late>>
  BY Zenon DEF QueueTts24k
<1> HIDE DEF after
<1> QED BY <1>1, Zenon

\* The playback thread gives the device back.
LEMMA FinishDeviceKeeps ==
  ASSUME FinishDevice
  PROVE  /\ thread.at = "device" /\ UNCHANGED <<ring, flags, stop, open, results, history>>
         /\ thread' \in {[thread EXCEPT !.at = "done"]} \cup
              {[thread EXCEPT !.at = "done", !.failed = TRUE],
               [thread EXCEPT !.at = "done", !.failed = FALSE]}
         /\ thread.discard \/ thread.failed => thread' = [thread EXCEPT !.at = "done"]
<1>1. CASE thread.discard \/ thread.failed
  BY <1>1, Zenon DEF FinishDevice
<1>2. CASE ~(thread.discard \/ thread.failed)
  BY <1>2, Zenon DEF FinishDevice
<1> QED BY <1>1, <1>2

LEMMA UtteranceNext == FramesInv /\ UtteranceInv /\ [Next]_vars => UtteranceInv'
<1> SUFFICES ASSUME FramesInv, UtteranceInv, [Next]_vars PROVE UtteranceInv'
  OBVIOUS
<1>a. ASSUME UNCHANGED <<act, scope, caller, muted>>,
             active' /\ ~drop' => active /\ ~drop
      PROVE  UtteranceInv'
  BY <1>a DEF UtteranceInv, MutedOnlyWhileProbing, Anyone
<1>0. CASE UNCHANGED vars
  BY <1>0, <1>a DEF vars, playbackVars, actorVars
<1>1. CASE Reply
  <2>1. CASE caller = "prepare" /\ Succeeded
    BY <1>1, <2>1, BeginsGood DEF Reply
  <2>2. CASE ~(caller = "prepare" /\ Succeeded)
    <3>1. UNCHANGED <<act, scope, muted>> /\ caller' = "none" /\ active' = active /\ drop' = drop
      BY <1>1, <2>2 DEF Reply, BeginFails, playbackVars, flags
    <3> QED BY <3>1 DEF UtteranceInv, MutedOnlyWhileProbing, Anyone
  <2> QED BY <2>1, <2>2
<1>2. CASE CommandTimesOut
  BY <1>2, <1>a DEF CommandTimesOut, playbackVars, actorVars
<1>3. CASE AnyCall
  <2>1. /\ Anyone /\ UNCHANGED <<act, scope, muted>>
        /\ active' /\ ~drop' => active /\ ~drop
    <3>1. CASE AskPlayback
      BY <1>3, <3>1 DEF AnyCall, AskPlayback, flags, actorVars
    <3>2. CASE UNCHANGED <<playbackVars, pcm, scope, actorVars, muted, restless>>
      BY <1>3, <3>2 DEF AnyCall, playbackVars, actorVars
    <3>3. CASE /\ EndPlayback \/ \E samples \in 1..MaxPacket, follows \in BOOLEAN :
                                  QueueTts24k(samples, follows)
               /\ UNCHANGED <<captureVars, scope, caller, actorVars, muted, restless>>
      <4>1. Anyone
        BY <1>3 DEF AnyCall
      <4>2. CASE EndPlayback
        BY <3>3, <4>1, <4>2 DEF EndPlayback, actorVars
      <4>3. CASE \E samples \in 1..MaxPacket, follows \in BOOLEAN : QueueTts24k(samples, follows)
        BY <3>3, <4>1, <4>3, QueueKeeps DEF actorVars
      <4> QED BY <3>3, <4>2, <4>3
    <3>4. CASE Drops /\ UNCHANGED <<mailbox, scope, caller, actorVars, muted>>
      BY <1>3, <3>4 DEF AnyCall, Drops, DropPlayback, actorVars
    <3> QED BY <1>3, <3>1, <3>2, <3>3, <3>4 DEF AnyCall
  <2> QED BY <2>1 DEF UtteranceInv, MutedOnlyWhileProbing, Anyone
<1>4. CASE CloseEngine
  BY <1>4, <1>a DEF CloseEngine, Close, flags, actorVars
<1>5. CASE EngineJoined
  BY <1>5 DEF EngineJoined, Joined, actorVars, UtteranceInv, MutedOnlyWhileProbing, Anyone
<1>6. CASE OpenEngine
  BY <1>6, <1>a DEF OpenEngine, Open, flags, actorVars
<1>7. CASE Conversation
  BY <1>7, ConversationUtterance
<1>8. CASE PlaybackThread
  <2>1. /\ UNCHANGED <<act, scope, caller>>
    BY <1>8 DEF PlaybackThread, actorVars
  <2>2. CASE FinishedDone
    <3>1. muted' = FALSE
      BY <2>2 DEF FinishedDone
    <3> QED BY <2>1, <3>1 DEF UtteranceInv, MutedOnlyWhileProbing, Anyone
  <2>3. CASE ~FinishedDone
    <3>1. muted' = muted /\ active' = active /\ drop' = drop
      <4>1. CASE RenderSlot
        BY <4>1 DEF RenderSlot, Render, flags
      <4>2. CASE EndDevice
        BY <4>2, FinishDeviceKeeps DEF EndDevice, flags
      <4>3. CASE /\ GraceExpires \/ NotStarved \/ TakeSlot \/ StopSeen \/ FinishLooks
                 /\ UNCHANGED <<pcm, muted, restless>>
        <5>1. muted' = muted
          BY <4>3
        <5>2. CASE GraceExpires
          BY <5>1, <5>2 DEF GraceExpires
        <5>3. CASE NotStarved
          BY <5>1, <5>3 DEF NotStarved, flags
        <5>4. CASE TakeSlot
          BY <5>1, <5>4 DEF TakeSlot
        <5>5. CASE StopSeen \/ FinishLooks
          BY <5>1, <5>5 DEF StopSeen, FinishLooks, flags
        <5> QED BY <4>3, <5>2, <5>3, <5>4, <5>5
      <4> QED BY <1>8, <2>3, <4>1, <4>2, <4>3 DEF PlaybackThread
    <3> QED BY <1>a, <2>1, <3>1
  <2> QED BY <2>2, <2>3
<1>9. CASE CaptureThread
  BY <1>9, <1>a DEF CaptureThread, playbackVars
<1> QED BY <1>0, <1>1, <1>2, <1>3, <1>4, <1>5, <1>6, <1>7, <1>8, <1>9 DEF Next

\* The pre-roll that ResumeAfterBarge sends holds the whole of what the user
\* has said into the answer, from the first syllable of the candidate on, and
\* nothing before it: through every probe that was rejected before it, for any
\* lengths of the stages that fit the buffers (voice_client.cpp 650-680,
\* 767-844).
THEOREM BargeInIsWhole == Spec => []WholeUtterance
<1>1. Init => FramesInv /\ UtteranceInv
  BY UtteranceInit
<1>2. FramesInv /\ UtteranceInv /\ [Next]_vars => (FramesInv /\ UtteranceInv)'
  BY FramesNext, UtteranceNext
<1>3. UtteranceInv => WholeUtterance
  BY DEF UtteranceInv, Good, ActorInv, WholeUtterance
<1> QED BY <1>1, <1>2, <1>3, PTL DEF Spec

\* No rejection, abort or new answer leaves the loudspeaker muted
\* (voice_client.cpp 373-390).
THEOREM ProbesUnmute == Spec => []MutedOnlyWhileProbing
<1>1. Init => FramesInv /\ UtteranceInv
  BY UtteranceInit
<1>2. FramesInv /\ UtteranceInv /\ [Next]_vars => (FramesInv /\ UtteranceInv)'
  BY FramesNext, UtteranceNext
<1>3. UtteranceInv => MutedOnlyWhileProbing
  BY DEF UtteranceInv
<1> QED BY <1>1, <1>2, <1>3, PTL DEF Spec
-----------------------------------------------------------------------------
(* Device and drop.                                                        *)

ThreadIs(t) ==
  /\ t = [at |-> t.at, slot |-> t.slot, finish |-> t.finish, discard |-> t.discard,
          failed |-> t.failed]
  /\ t.at \in {"top", "wait", "render", "finish", "device", "done", "gone"}
  /\ t.discard \in BOOLEAN /\ t.failed \in BOOLEAN

\* A playback that the thread works on is active; none is while a command to
\* prepare one is under way. A drop that was asked for is seen as long as the
\* playback is active, and what the thread was told of it is no failure.
DeviceInv ==
  /\ ThreadIs(thread)
  /\ active \in BOOLEAN /\ drop \in BOOLEAN /\ is_done \in BOOLEAN /\ playback_failed \in BOOLEAN
  /\ late \in Nat
  /\ is_done <=> ~active
  /\ drop => active
  /\ thread.at \in {"render", "finish", "device", "done"} => active
  /\ caller = "prepare" \/ mailbox.command = "prepare" => ~active
  /\ active /\ "drop" \in asked => drop
  /\ thread.discard => ~thread.failed
  /\ "drop" \notin asked => late = 0
  /\ late # 0 => thread.at # "render"
  /\ DropIsNotFailure /\ AtMostOneSlotAfterDrop

LEMMA AtIs ==
  ASSUME NEW place \in {"top", "wait", "render", "finish", "device", "done", "gone"}
  PROVE  /\ ThreadIs(At(place)) /\ At(place).at = place
         /\ ~At(place).discard /\ ~At(place).failed
BY DEF At, ThreadIs

LEMMA DeviceInit == Init => DeviceInv
<1> SUFFICES ASSUME Init PROVE DeviceInv
  OBVIOUS
<1>1. thread = At("top") /\ ThreadIs(thread) /\ thread.at = "top" /\ ~thread.discard
  BY AtIs DEF Init, PlaybackInit
<1>2. /\ active = FALSE /\ drop = FALSE /\ is_done = TRUE /\ playback_failed = FALSE
      /\ late = 0 /\ asked = {} /\ caller = "none" /\ mailbox.command = "none"
  BY DEF Init, PlaybackInit, CaptureInit, NewMailbox
<1>3. /\ active \in BOOLEAN /\ drop \in BOOLEAN /\ is_done \in BOOLEAN
      /\ playback_failed \in BOOLEAN /\ ~active /\ ~drop /\ is_done /\ ~playback_failed
      /\ "drop" \notin asked /\ late = 0 /\ caller = "none" /\ mailbox.command = "none"
  BY <1>2
<1> QED BY <1>1, <1>3 DEF DeviceInv, DropIsNotFailure, AtMostOneSlotAfterDrop

\* A step that leaves the playback and what was asked of it alone.
LEMMA DeviceKept ==
  ASSUME DeviceInv,
         UNCHANGED <<active, drop, is_done, playback_failed, thread, asked, late>>,
         caller' = "prepare" \/ mailbox'.command = "prepare" =>
           ~active \/ caller = "prepare" \/ mailbox.command = "prepare"
  PROVE  DeviceInv'
BY DEF DeviceInv, DropIsNotFailure, AtMostOneSlotAfterDrop

LEMMA DropKept ==
  ASSUME DeviceInv, Drops, caller' # "prepare", mailbox' = mailbox
  PROVE  DeviceInv'
<1>1. /\ active /\ drop' = TRUE /\ asked' = asked \cup {"drop"}
      /\ UNCHANGED <<active, is_done, playback_failed, thread, late>>
  BY DEF Drops, DropPlayback, results
<1> QED BY <1>1 DEF DeviceInv, DropIsNotFailure, AtMostOneSlotAfterDrop

LEMMA DoesDevice ==
  ASSUME DeviceInv, NEW r, Does(r), caller = "none"
  PROVE  DeviceInv'
<1>1. caller' # "prepare"
  BY DEF Does, Ask
<1>2. mailbox'.command = "prepare" => mailbox.command = "prepare"
  <2>1. CASE "reset" \in r.does
    <3>1. mailbox' = [mailbox EXCEPT !.command = "reset"]
      BY <2>1 DEF Does, Ask, Request
    <3> QED BY <3>1
  <2>2. CASE "reset" \notin r.does
    BY <2>2 DEF Does
  <2> QED BY <2>1, <2>2
<1>3. CASE "drop" \in r.does /\ active
  <2>1. /\ active' = active /\ drop' = TRUE /\ asked' = asked \cup {"drop"}
        /\ UNCHANGED <<is_done, playback_failed, thread, late>>
    BY <1>3 DEF Does, Drops, DropPlayback, results
  <2> QED BY <1>1, <1>2, <1>3, <2>1 DEF DeviceInv, DropIsNotFailure, AtMostOneSlotAfterDrop
<1>4. CASE ~("drop" \in r.does /\ active)
  <2>1. UNCHANGED <<active, drop, is_done, playback_failed, thread, asked, late>>
    BY <1>4 DEF Does, playbackVars
  <2> QED BY <1>1, <1>2, <2>1, DeviceKept
<1> QED BY <1>3, <1>4

LEMMA AskPlaybackDevice ==
  ASSUME DeviceInv, AskPlayback
  PROVE  DeviceInv'
<1>1. ~active /\ UNCHANGED <<active, drop, is_done, playback_failed, thread, asked, late>>
  BY DEF AskPlayback, flags, results, history
<1> QED BY <1>1, DeviceKept

LEMMA EndPlaybackDevice ==
  ASSUME DeviceInv, EndPlayback, UNCHANGED <<caller, mailbox>>
  PROVE  DeviceInv'
<1>1. /\ asked' = asked \cup {"end"}
      /\ UNCHANGED <<active, drop, is_done, playback_failed, thread, late>>
  BY DEF EndPlayback, results
<1> QED BY <1>1 DEF DeviceInv, DropIsNotFailure, AtMostOneSlotAfterDrop

LEMMA ConversationDevice ==
  ASSUME DeviceInv, Conversation
  PROVE  DeviceInv'
<1>1. CASE TakeFrame
  BY <1>1, DeviceKept DEF TakeFrame, playbackVars
<1>2. ASSUME NEW states, NEW r, Event(states, r) \/ Deadline(states, r)
      PROVE  DeviceInv'
  <2>1. Does(r) /\ caller = "none"
    BY <1>2 DEF Event, Deadline, Talks, Free
  <2> QED BY <2>1, DoesDevice
<1>3. CASE HandleFrame
  <2>1. PICK loud \in {held[1].near, FALSE}, wake \in BOOLEAN :
          Does(OnFrame(act, held[1], loud, wake))
    BY <1>3 DEF HandleFrame
  <2>2. caller = "none"
    BY <1>3 DEF HandleFrame, Talks, Free
  <2> QED BY <2>1, <2>2, DoesDevice
<1>4. CASE \/ Cancelled \/ ServerError \/ TouchInterrupt \/ LateStart
           \/ DrainEnds \/ CancelTimeout \/ TurnTimeout \/ NobodySpeaks
  BY <1>2, <1>4 DEF Cancelled, ServerError, TouchInterrupt, LateStart, DrainEnds, CancelTimeout,
                    TurnTimeout, NobodySpeaks
<1>5. CASE AudioStart
  BY <1>5, AskPlaybackDevice DEF AudioStart
<1>6. CASE Audio
  BY <1>6, QueueKeeps, DeviceKept DEF Audio, results, captureVars
<1>7. CASE Done
  <2>1. UNCHANGED <<caller, mailbox>> /\ (EndPlayback \/ UNCHANGED playbackVars)
    BY <1>7 DEF Done, captureVars
  <2>2. CASE UNCHANGED playbackVars
    BY <2>1, <2>2, DeviceKept DEF playbackVars
  <2> QED BY <2>1, <2>2, EndPlaybackDevice
<1> QED BY <1>1, <1>3, <1>4, <1>5, <1>6, <1>7 DEF Conversation

LEMMA AnyCallDevice ==
  ASSUME DeviceInv, AnyCall
  PROVE  DeviceInv'
<1>1. CASE AskPlayback
  BY <1>1, AskPlaybackDevice
<1>2. CASE /\ Ask("reset") /\ Faulty /\ CaptureRests
           /\ UNCHANGED <<playbackVars, pcm, scope, actorVars, muted, restless>>
  <2>1. UNCHANGED <<active, drop, is_done, playback_failed, thread, asked, late>>
    BY <1>2 DEF playbackVars
  <2>2. caller' = "reset" /\ mailbox' = [mailbox EXCEPT !.command = "reset"]
    BY <1>2 DEF Ask, Request
  <2>3. mailbox'.command = "prepare" => mailbox.command = "prepare"
    BY <2>2
  <2> QED BY <2>1, <2>2, <2>3, DeviceKept
<1>3. CASE /\ EndPlayback \/ \E samples \in 1..MaxPacket, follows \in BOOLEAN :
                               QueueTts24k(samples, follows)
           /\ UNCHANGED <<captureVars, scope, caller, actorVars, muted, restless>>
  <2>1. UNCHANGED <<caller, mailbox>>
    BY <1>3 DEF captureVars
  <2>2. CASE EndPlayback
    BY <2>1, <2>2, EndPlaybackDevice
  <2>3. CASE \E samples \in 1..MaxPacket, follows \in BOOLEAN : QueueTts24k(samples, follows)
    BY <2>1, <2>3, QueueKeeps, DeviceKept DEF results
  <2> QED BY <1>3, <2>2, <2>3
<1>4. CASE Drops /\ UNCHANGED <<mailbox, scope, caller, actorVars, muted>>
  BY <1>4, DropKept DEF AnyCall, Free
<1> QED BY <1>1, <1>2, <1>3, <1>4 DEF AnyCall

LEMMA PlaybackThreadDevice ==
  ASSUME DeviceInv, PlaybackThread
  PROVE  DeviceInv'
<1>0. UNCHANGED <<caller, mailbox>>
  BY DEF PlaybackThread
<1> USE DEF DropIsNotFailure, AtMostOneSlotAfterDrop
<1>1. CASE RenderSlot
  <2>1. /\ thread.at = "render"
        /\ UNCHANGED <<active, drop, is_done, playback_failed, asked>>
    BY <1>1 DEF RenderSlot, Render, flags, results
  <2>2. CASE /\ late' = IF "drop" \in asked THEN late + 1 ELSE late
             /\ thread' = IF thread.finish THEN At("finish") ELSE At("top")
    <3>1. /\ ThreadIs(thread') /\ thread'.at \in {"finish", "top"}
          /\ ~thread'.discard /\ ~thread'.failed
      BY <2>2, AtIs
    <3>2. late = 0
      BY <2>1 DEF DeviceInv
    <3>3. late' \in {0, 1} /\ ("drop" \notin asked => late' = 0)
      BY <2>2, <3>2
    <3> QED BY <1>0, <2>1, <3>1, <3>3 DEF DeviceInv
  <2>3. CASE thread' = [At("finish") EXCEPT !.failed = TRUE] /\ late' = late
    <3>1. /\ ThreadIs(thread') /\ thread'.at = "finish" /\ ~thread'.discard
      BY <2>3 DEF At, ThreadIs
    <3> QED BY <1>0, <2>1, <2>3, <3>1 DEF DeviceInv
  <2> QED BY <1>1, <2>2, <2>3 DEF RenderSlot, Render
<1>2. CASE EndDevice
  <2>1. /\ thread.at = "device"
        /\ UNCHANGED <<active, drop, is_done, playback_failed, asked, late>>
    BY <1>2, FinishDeviceKeeps DEF EndDevice, flags, results, history
  <2>2. ThreadIs(thread)
    BY DEF DeviceInv
  <2>3. CASE thread.discard \/ thread.failed
    <3>1. thread' = [thread EXCEPT !.at = "done"]
      BY <1>2, <2>3, FinishDeviceKeeps DEF EndDevice
    <3>2. /\ ThreadIs(thread') /\ thread'.at = "done"
          /\ thread'.discard = thread.discard /\ thread'.failed = thread.failed
      BY <2>2, <3>1 DEF ThreadIs
    <3> QED BY <1>0, <2>1, <3>2 DEF DeviceInv
  <2>4. CASE ~thread.discard /\ ~thread.failed
    <3>1. thread' \in {[thread EXCEPT !.at = "done"]} \cup
                        {[thread EXCEPT !.at = "done", !.failed = TRUE],
                         [thread EXCEPT !.at = "done", !.failed = FALSE]}
      BY <1>2, FinishDeviceKeeps DEF EndDevice
    <3>2. ThreadIs(thread') /\ thread'.at = "done" /\ ~thread'.discard
      BY <2>2, <2>4, <3>1 DEF ThreadIs
    <3> QED BY <1>0, <2>1, <3>2 DEF DeviceInv
  <2> QED BY <2>3, <2>4
<1>3. CASE FinishedDone
  <2>1. /\ thread.at = "done" /\ active' = FALSE /\ drop' = FALSE /\ is_done' = TRUE
        /\ playback_failed' = (thread.failed /\ ~(drop /\ ~thread.discard))
        /\ thread' = At("top") /\ UNCHANGED <<asked, late>>
    BY <1>3, Zenon DEF FinishedDone, FinishDone, history
  <2>2. ThreadIs(thread') /\ thread'.at = "top" /\ ~thread'.discard
    BY <2>1, AtIs
  <2>3. playback_failed' \in BOOLEAN
    BY <2>1
  <2>4. "drop" \in asked => ~playback_failed'
    BY <2>1 DEF DeviceInv
  <2> QED BY <1>0, <2>1, <2>2, <2>3, <2>4 DEF DeviceInv
<1>4. CASE GraceExpires \/ StopSeen
  <2>1. /\ UNCHANGED <<active, drop, is_done, playback_failed, asked, late>>
        /\ thread' \in {At("wait"), At("gone")}
    BY <1>4 DEF GraceExpires, StopSeen, flags, results, history
  <2>2. ThreadIs(thread') /\ thread'.at \in {"wait", "gone"} /\ ~thread'.discard
    BY <2>1, AtIs
  <2> QED BY <1>0, <2>1, <2>2 DEF DeviceInv
<1>5. CASE NotStarved
  <2>1. /\ UNCHANGED <<active, drop, is_done, playback_failed>> /\ thread' = At("wait")
        /\ \/ UNCHANGED <<asked, late>>
           \/ ~active /\ asked' = {} /\ late' = 0
    BY <1>5 DEF NotStarved, flags, results, history
  <2>2. ThreadIs(thread') /\ thread'.at = "wait" /\ ~thread'.discard
    BY <2>1, AtIs
  <2> QED BY <1>0, <2>1, <2>2 DEF DeviceInv
<1>6. CASE TakeSlot
  <2>1. /\ UNCHANGED <<active, drop, is_done, playback_failed, asked, late>>
        /\ drop \/ active
    BY <1>6 DEF TakeSlot, results, history
  <2>2. CASE ~drop /\ tts_count # 0
    <3>1. thread' = [At("render") EXCEPT !.slot = tts[tts_head], !.finish = LastTaken]
      BY <1>6, <2>2, Zenon DEF TakeSlot
    <3>2. ThreadIs(thread') /\ thread'.at = "render" /\ ~thread'.discard
      BY <3>1 DEF At, ThreadIs
    <3>3. late = 0 /\ active
      BY <2>1, <2>2 DEF DeviceInv
    <3> QED BY <1>0, <2>1, <3>2, <3>3 DEF DeviceInv
  <2>3. CASE ~(~drop /\ tts_count # 0)
    <3>1. thread' = [At("finish") EXCEPT !.discard = drop]
      BY <1>6, <2>3 DEF TakeSlot
    <3>2. drop \in BOOLEAN
      BY DEF DeviceInv
    <3>3. ThreadIs(thread') /\ thread'.at = "finish" /\ ~thread'.failed
      BY <3>1, <3>2 DEF At, ThreadIs
    <3> QED BY <1>0, <2>1, <3>3 DEF DeviceInv
  <2> QED BY <2>2, <2>3
<1>7. CASE FinishLooks
  <2>1. /\ thread.at = "finish"
        /\ UNCHANGED <<active, drop, is_done, playback_failed, asked, late>>
        /\ thread' = [thread EXCEPT !.at = "device", !.discard = @ \/ drop,
                                    !.failed = @ /\ ~drop]
    BY <1>7 DEF FinishLooks, flags, results, history
  <2>2. ThreadIs(thread) /\ drop \in BOOLEAN
    BY DEF DeviceInv
  <2>3. /\ ThreadIs(thread') /\ thread'.at = "device"
        /\ thread'.discard = (thread.discard \/ drop)
        /\ thread'.failed = (thread.failed /\ ~drop)
    BY <2>1, <2>2 DEF ThreadIs
  <2> QED BY <1>0, <2>1, <2>3 DEF DeviceInv
<1> QED BY <1>1, <1>2, <1>3, <1>4, <1>5, <1>6, <1>7 DEF PlaybackThread

LEMMA DeviceNext == DeviceInv /\ [Next]_vars => DeviceInv'
<1> SUFFICES ASSUME DeviceInv, [Next]_vars PROVE DeviceInv'
  OBVIOUS
<1>0. CASE UNCHANGED vars
  BY <1>0, DeviceKept DEF vars, playbackVars, captureVars
<1>1. CASE Reply
  <2>1. CASE caller = "prepare" /\ Succeeded
    <3>1. /\ active' = TRUE /\ drop' = FALSE /\ is_done' = FALSE /\ playback_failed' = FALSE
          /\ asked' = {} /\ late' = 0 /\ thread' = thread /\ caller' = "none"
          /\ mailbox' = mailbox
      BY <1>1, <2>1 DEF Reply, BeginPlayback, captureVars
    <3>2. mailbox.command = "none"
      BY <1>1, <2>1 DEF Reply, Answered, Succeeded
    <3>3. /\ active' \in BOOLEAN /\ drop' \in BOOLEAN /\ is_done' \in BOOLEAN
          /\ playback_failed' \in BOOLEAN /\ active' /\ ~drop' /\ ~is_done'
          /\ "drop" \notin asked' /\ late' = 0
          /\ caller' = "none" /\ mailbox'.command = "none" /\ thread' = thread
      BY <3>1, <3>2
    <3> QED BY <3>3 DEF DeviceInv, DropIsNotFailure, AtMostOneSlotAfterDrop
  <2>2. CASE ~(caller = "prepare" /\ Succeeded)
    <3>1. /\ UNCHANGED <<active, drop, is_done, playback_failed, thread, asked, late>>
          /\ caller' = "none" /\ mailbox' = mailbox
      BY <1>1, <2>2 DEF Reply, BeginFails, playbackVars, flags, results, history, captureVars
    <3> QED BY <3>1, DeviceKept
  <2> QED BY <2>1, <2>2
<1>2. CASE CommandTimesOut
  <2>1. /\ UNCHANGED <<active, drop, is_done, playback_failed, thread, asked, late>>
        /\ caller' = caller /\ mailbox' = [mailbox EXCEPT !.failed = TRUE]
    BY <1>2 DEF CommandTimesOut, playbackVars, TimesOut
  <2>2. mailbox'.command = "prepare" => mailbox.command = "prepare"
    BY <2>1
  <2> QED BY <2>1, <2>2, DeviceKept
<1>3. CASE AnyCall
  BY <1>3, AnyCallDevice
<1>4. CASE CloseEngine
  BY <1>4, DeviceKept DEF CloseEngine, Close, flags, results, history
<1>5. CASE EngineJoined
  <2>1. /\ active' = FALSE /\ drop' = FALSE /\ is_done' = TRUE /\ playback_failed' = FALSE
        /\ asked' = {} /\ late' = 0 /\ thread' = thread /\ thread.at = "gone"
    BY <1>5 DEF EngineJoined, Joined
  <2>2. /\ active' \in BOOLEAN /\ drop' \in BOOLEAN /\ is_done' \in BOOLEAN
        /\ playback_failed' \in BOOLEAN /\ ~active' /\ ~drop' /\ is_done' /\ ~playback_failed'
        /\ "drop" \notin asked' /\ late' = 0 /\ thread' = thread /\ thread.at = "gone"
    BY <2>1
  <2> QED BY <2>2 DEF DeviceInv, DropIsNotFailure, AtMostOneSlotAfterDrop
<1>6. CASE OpenEngine
  <2>1. /\ UNCHANGED <<active, drop, is_done, playback_failed, asked, late, caller, mailbox>>
        /\ thread' = At("top")
    BY <1>6 DEF OpenEngine, Open, flags, results, history
  <2>2. ThreadIs(thread') /\ thread'.at = "top" /\ ~thread'.discard
    BY <2>1, AtIs
  <2> QED BY <2>1, <2>2 DEF DeviceInv, DropIsNotFailure, AtMostOneSlotAfterDrop
<1>7. CASE Conversation
  BY <1>7, ConversationDevice
<1>8. CASE PlaybackThread
  BY <1>8, PlaybackThreadDevice
<1>9. CASE CaptureThread
  <2>1. /\ UNCHANGED <<active, drop, is_done, playback_failed, thread, asked, late>>
        /\ caller' = caller
    BY <1>9 DEF CaptureThread, playbackVars
  <2>2. mailbox'.command = "prepare" => mailbox.command = "prepare"
    <3>1. CASE Answer
      BY <3>1 DEF Answer
    <3>2. CASE CaptureFails
      BY <3>2 DEF CaptureFails
    <3>3. CASE HearFrame \/ LookForCommand \/ NoFrame \/ CarryOut \/ CaptureStops
      BY <3>3 DEF HearFrame, Hear, HearGap, LookForCommand, NoFrame, CarryOut, CaptureStops
    <3> QED BY <1>9, <3>1, <3>2, <3>3 DEF CaptureThread
  <2> QED BY <2>1, <2>2, DeviceKept
<1> QED BY <1>0, <1>1, <1>2, <1>3, <1>4, <1>5, <1>6, <1>7, <1>8, <1>9 DEF Next

\* The two threads share the device: the capture thread prepares it only while
\* the playback thread lets it be; a drop is never reported as a failure, at
\* whatever point of rendering or draining it arrives, and at most the slot
\* already taken is heard after it (audio_engine.cpp 355-371, 430-560).
THEOREM DeviceIsShared == Spec => [](DeviceExclusive /\ DropIsNotFailure /\ AtMostOneSlotAfterDrop)
<1>1. Init => DeviceInv
  BY DeviceInit
<1>2. DeviceInv /\ [Next]_vars => DeviceInv'
  BY DeviceNext
<1>3. DeviceInv => DeviceExclusive /\ DropIsNotFailure /\ AtMostOneSlotAfterDrop
  BY DEF DeviceInv, DeviceExclusive
<1> QED BY <1>1, <1>2, <1>3, PTL DEF Spec
-----------------------------------------------------------------------------
(* The echo canceller's warm-up and the room.                              *)

AecType == [session : BOOLEAN, armed : BOOLEAN, warmup : Nat, tail : Nat]
PcmType == [started : BOOLEAN, ended : BOOLEAN, interrupted : BOOLEAN]

\* What still has to settle is covered: by the warm-up that is armed or runs,
\* by the tail that runs, or by the end of a playback that the capture thread
\* has yet to see. A playback that is neither dropped nor over has a session,
\* and one that is prepared finds the warm-up armed.
SettlingInv ==
  /\ ~pcm.ended =>
       restless = 0 \/ aec.armed \/ aec.warmup >= restless \/ aec.tail >= restless
  /\ pcm.ended => (pcm.interrupted => restless = 0) /\ restless <= TailFrames
  /\ active /\ drop => restless = 0
  /\ active /\ ~drop => ~pcm.interrupted
  /\ active /\ ~drop /\ thread.at # "done" =>
       ~pcm.ended /\ aec.session /\ restless <= Warmup
  /\ active /\ thread.at = "done" /\ ~pcm.ended => ~aec.session /\ ~aec.armed

\* The command of the client in conversation, without faults.
CommandInv ==
  /\ open /\ ~stop /\ ~mailbox.failed /\ mic # "failing"
  /\ mailbox.command \in {caller, "none"} /\ caller \in {"none", "reset", "prepare"}
  /\ mic \in {"apply", "done"} => mailbox.command # "none"
  /\ caller = "prepare" /\ (mic = "done" \/ mailbox.command = "none") =>
       aec = PrepareAec /\ ~pcm.ended /\ ~pcm.interrupted

\* Only the client in conversation hears frames.
QuietInv ==
  ~Anyone =>
    /\ restless \in Nat /\ aec \in AecType /\ pcm \in PcmType
    /\ mailbox \in [command : Commands \cup {"none"}, failed : BOOLEAN]
    /\ SettlingInv /\ CommandInv

LEMMA QuietInit == Init => QuietInv
<1> SUFFICES ASSUME Init PROVE QuietInv
  OBVIOUS
<1>1. /\ restless = 0 /\ aec = NewAec /\ caller = "none" /\ mailbox = NewMailbox /\ mic = "top"
      /\ pcm = [started |-> FALSE, ended |-> FALSE, interrupted |-> FALSE]
      /\ ~active /\ open /\ ~stop
  BY DEF Init, PlaybackInit, CaptureInit
<1>2. /\ aec \in AecType /\ pcm \in PcmType /\ ~pcm.ended
      /\ mailbox \in [command : Commands \cup {"none"}, failed : BOOLEAN]
      /\ mailbox.command = "none" /\ ~mailbox.failed
  BY <1>1 DEF NewAec, AecType, PcmType, NewMailbox, Commands
<1>3. SettlingInv
  BY <1>1, <1>2 DEF SettlingInv
<1>4. CommandInv
  BY <1>1, <1>2 DEF CommandInv
<1> QED BY <1>1, <1>2, <1>3, <1>4 DEF QuietInv

LEMMA LessIs ==
  ASSUME NEW n \in Nat
  PROVE  /\ Less(n) \in Nat /\ Less(n) <= n /\ (n = 0 => Less(n) = 0)
         /\ \A m \in Nat : n <= m => Less(n) <= Less(m)
BY DEF Less

LEMMA GatedIs ==
  ASSUME aec \in AecType, pcm \in PcmType, NEW reference \in BOOLEAN
  PROVE  LET g == Gated(reference)
         IN /\ g \in AecType
            /\ pcm.ended => /\ ~g.session /\ ~g.armed /\ g.warmup = 0
                            /\ g.tail = (IF pcm.interrupted THEN 0 ELSE TailFrames)
            /\ ~pcm.ended =>
                 /\ g.session = aec.session /\ g.tail = aec.tail
                 /\ aec.armed /\ pcm.started /\ reference => ~g.armed /\ g.warmup = Warmup
                 /\ ~(aec.armed /\ pcm.started /\ reference) =>
                      g.armed = aec.armed /\ g.warmup = aec.warmup
<1>1. CASE pcm.ended
  <2> DEFINE n == IF pcm.interrupted THEN 0 ELSE TailFrames
             g == [NewAec EXCEPT !.tail = n]
  <2>1. Gated(reference) = g /\ n \in Nat
    BY <1>1, CaptureSizes DEF Gated
  <2> HIDE DEF n
  <2>2. g \in AecType /\ ~g.session /\ ~g.armed /\ g.warmup = 0 /\ g.tail = n
    BY <2>1 DEF NewAec, AecType
  <2> HIDE DEF g
  <2> QED BY <1>1, <2>1, <2>2 DEF n
<1>2. CASE ~pcm.ended /\ aec.armed /\ pcm.started /\ reference
  <2> DEFINE g == [aec EXCEPT !.armed = FALSE, !.warmup = Warmup]
  <2>1. Gated(reference) = g
    BY <1>2 DEF Gated
  <2>2. /\ g \in AecType /\ ~g.armed /\ g.warmup = Warmup /\ g.session = aec.session
        /\ g.tail = aec.tail
    BY CaptureSizes DEF AecType
  <2> HIDE DEF g
  <2> QED BY <1>2, <2>1, <2>2
<1>3. CASE ~pcm.ended /\ ~(aec.armed /\ pcm.started /\ reference)
  BY <1>3 DEF Gated
<1> QED BY <1>1, <1>2, <1>3

LEMMA RunDownIs ==
  ASSUME NEW a \in AecType
  PROVE  /\ RunDown(a) \in AecType
         /\ RunDown(a).session = a.session /\ RunDown(a).armed = a.armed
         /\ RunDown(a).warmup = Less(a.warmup) /\ RunDown(a).tail = Less(a.tail)
<1>1. Less(a.warmup) \in Nat /\ Less(a.tail) \in Nat
  BY LessIs DEF AecType
<1> QED BY <1>1 DEF RunDown, AecType

\* A frame is heard.
LEMMA HearQuiet ==
  ASSUME DeviceInv, QuietInv, ~Anyone, NEW now \in BOOLEAN,
         NEW reference \in {FALSE, active /\ ~drop}, Hear(now, reference),
         restless' = Less(restless)
  PROVE  /\ aec' \in AecType /\ pcm' \in PcmType /\ ~pcm'.ended
         /\ restless' \in Nat /\ restless' <= restless
         /\ pcm'.interrupted = pcm.interrupted
         /\ restless' = 0 \/ aec'.armed \/ aec'.warmup >= restless' \/ aec'.tail >= restless'
         /\ ~pcm.ended => aec'.session = aec.session
         /\ pcm.ended => ~aec'.session /\ ~aec'.armed
         /\ aec'.armed => aec.armed
         /\ ~Suppresses(Gated(reference)) => restless = 0
         /\ aec = PrepareAec /\ ~active /\ ~pcm.ended => aec' = PrepareAec
<1> DEFINE g == Gated(reference)
<1>1. /\ aec \in AecType /\ pcm \in PcmType /\ restless \in Nat /\ reference \in BOOLEAN
      /\ SettlingInv /\ active \in BOOLEAN /\ drop \in BOOLEAN
  BY DEF QuietInv, DeviceInv
<1>2. /\ g \in AecType
      /\ pcm.ended => /\ ~g.session /\ ~g.armed /\ g.warmup = 0
                      /\ g.tail = (IF pcm.interrupted THEN 0 ELSE TailFrames)
      /\ ~pcm.ended =>
           /\ g.session = aec.session /\ g.tail = aec.tail
           /\ aec.armed /\ pcm.started /\ reference => ~g.armed /\ g.warmup = Warmup
           /\ ~(aec.armed /\ pcm.started /\ reference) =>
                g.armed = aec.armed /\ g.warmup = aec.warmup
  BY <1>1, GatedIs
<1>3. aec' = RunDown(g) /\ pcm' = [pcm EXCEPT !.ended = FALSE]
  BY DEF Hear
<1> HIDE DEF g
<1>4. /\ aec' \in AecType
      /\ aec'.session = g.session /\ aec'.armed = g.armed
      /\ aec'.warmup = Less(g.warmup) /\ aec'.tail = Less(g.tail)
  BY <1>2, <1>3, RunDownIs
<1>5. pcm' \in PcmType /\ ~pcm'.ended /\ pcm'.interrupted = pcm.interrupted
  BY <1>1, <1>3 DEF PcmType
<1>6. restless' \in Nat /\ restless' <= restless
  BY <1>1, LessIs
<1>7. reference => active /\ ~drop
  OBVIOUS
<1>8. restless = 0 \/ g.armed \/ g.warmup >= restless \/ g.tail >= restless
  <2>1. CASE pcm.ended
    BY <1>1, <1>2, <2>1, CaptureSizes DEF SettlingInv
  <2>2. CASE ~pcm.ended /\ aec.armed /\ pcm.started /\ reference
    <3>1. thread.at # "done"
      BY <1>1, <1>7, <2>2 DEF SettlingInv
    <3>2. restless <= Warmup /\ g.warmup = Warmup
      BY <1>1, <1>2, <1>7, <2>2, <3>1 DEF SettlingInv
    <3> QED BY <1>1, <3>2, CaptureSizes
  <2>3. CASE ~pcm.ended /\ ~(aec.armed /\ pcm.started /\ reference)
    <3>1. restless = 0 \/ aec.armed \/ aec.warmup >= restless \/ aec.tail >= restless
      BY <1>1, <2>3 DEF SettlingInv
    <3> QED BY <1>2, <2>3, <3>1
  <2> QED BY <2>1, <2>2, <2>3
<1>9. restless' = 0 \/ aec'.armed \/ aec'.warmup >= restless' \/ aec'.tail >= restless'
  <2>1. g.warmup \in Nat /\ g.tail \in Nat
    BY <1>2 DEF AecType
  <2>2. CASE restless = 0
    BY <2>2, LessIs
  <2>3. CASE g.armed
    BY <1>4, <2>3
  <2>4. CASE g.warmup >= restless
    BY <1>1, <1>4, <2>1, <2>4, LessIs
  <2>5. CASE g.tail >= restless
    BY <1>1, <1>4, <2>1, <2>5, LessIs
  <2> QED BY <1>8, <2>2, <2>3, <2>4, <2>5
<1>10. /\ ~pcm.ended => aec'.session = aec.session
       /\ pcm.ended => ~aec'.session /\ ~aec'.armed
       /\ aec'.armed => aec.armed
  BY <1>2, <1>4
<1>11. ~Suppresses(Gated(reference)) => restless = 0
  <2>1. ~Suppresses(g) => ~g.armed /\ g.warmup = 0 /\ g.tail = 0
    BY DEF Suppresses
  <2>2. ~Suppresses(g) => restless = 0
    BY <1>1, <1>8, <2>1
  <2> QED BY <2>2 DEF g
<1>12. aec = PrepareAec /\ ~active /\ ~pcm.ended => aec' = PrepareAec
  <2> SUFFICES ASSUME aec = PrepareAec, ~active, ~pcm.ended PROVE aec' = PrepareAec
    OBVIOUS
  <2>1. ~reference
    BY <1>7
  <2>2. Gated(reference) = PrepareAec
    BY <2>1 DEF Gated
  <2>3. RunDown(PrepareAec) = PrepareAec
    BY DEF RunDown, PrepareAec, Less
  <2> QED BY <1>3, <2>2, <2>3 DEF g
<1> QED BY <1>4, <1>5, <1>6, <1>9, <1>10, <1>11, <1>12

\* A gap is heard: with a playback the echo canceller starts anew.
LEMMA HearGapIs ==
  ASSUME aec \in AecType, HearGap
  PROVE  /\ aec' \in AecType /\ aec'.session = aec.session /\ UNCHANGED <<pcm, mailbox>>
         /\ aec.session => aec'.armed
         /\ ~aec.session => aec' = aec
         /\ aec = PrepareAec => aec' = PrepareAec
         /\ mic' = "top" /\ Reading
<1>1. /\ aec' = (IF aec.session THEN [aec EXCEPT !.armed = TRUE, !.warmup = 0] ELSE aec)
      /\ UNCHANGED <<pcm, mailbox>> /\ mic' = "top" /\ Reading
  BY DEF HearGap
<1>2. CASE aec.session
  <2>1. aec' = [aec EXCEPT !.armed = TRUE, !.warmup = 0]
    BY <1>1, <1>2
  <2>2. aec' \in AecType /\ aec'.session = aec.session /\ aec'.armed
    BY <2>1 DEF AecType
  <2>3. /\ aec'.tail = aec.tail /\ aec'.warmup = 0 /\ (aec'.armed <=> TRUE)
        /\ aec'.session <=> aec.session
    BY <2>1 DEF AecType
  <2>4. aec = PrepareAec => aec' = PrepareAec
    <3> SUFFICES ASSUME aec = PrepareAec PROVE aec' = PrepareAec
      OBVIOUS
    <3>1. PrepareAec.tail = 0 /\ PrepareAec.session
      BY DEF PrepareAec
    <3>2. aec'.tail = 0 /\ aec'.warmup = 0 /\ aec'.armed /\ aec'.session
      BY <2>3, <3>1
    <3> QED BY <2>2, <3>2 DEF PrepareAec, AecType
  <2> QED BY <1>1, <1>2, <2>2, <2>4
<1>3. CASE ~aec.session
  <2>1. aec' = aec
    BY <1>1, <1>3
  <2> QED BY <1>1, <1>3, <2>1
<1> QED BY <1>2, <1>3

LEMMA ScopeStays == [Next]_vars => scope' = scope
<1> SUFFICES ASSUME [Next]_vars PROVE scope' = scope
  OBVIOUS
<1>1. CASE Conversation
  <2>1. ASSUME NEW states, NEW r, Event(states, r) \/ Deadline(states, r) PROVE scope' = scope
    BY <2>1 DEF Event, Deadline, Does
  <2>2. CASE \/ Cancelled \/ ServerError \/ TouchInterrupt \/ LateStart
             \/ DrainEnds \/ CancelTimeout \/ TurnTimeout \/ NobodySpeaks
    BY <2>1, <2>2 DEF Cancelled, ServerError, TouchInterrupt, LateStart, DrainEnds,
                      CancelTimeout, TurnTimeout, NobodySpeaks
  <2>3. CASE HandleFrame
    BY <2>3 DEF HandleFrame, Does
  <2> QED BY <1>1, <2>2, <2>3 DEF Conversation, TakeFrame, AudioStart, AskPlayback, Audio, Done
<1>2. CASE Reply \/ CommandTimesOut \/ CloseEngine \/ EngineJoined \/ OpenEngine
  BY <1>2 DEF Reply, CommandTimesOut, CloseEngine, EngineJoined, OpenEngine
<1>3. CASE AnyCall
  BY <1>3 DEF AnyCall, AskPlayback
<1>4. CASE PlaybackThread \/ CaptureThread \/ UNCHANGED vars
  BY <1>4 DEF PlaybackThread, CaptureThread, vars
<1> QED BY <1>1, <1>2, <1>3, <1>4 DEF Next

\* A step that the settling does not depend on.
LEMMA SettlingKept ==
  ASSUME QuietInv, ~Anyone, UNCHANGED <<scope, restless, aec, pcm, active, drop>>,
         thread'.at = thread.at \/ (thread.at # "done" /\ thread'.at # "done")
  PROVE  SettlingInv' /\ restless' \in Nat /\ aec' \in AecType /\ pcm' \in PcmType
BY DEF QuietInv, SettlingInv

\* A step that leaves the command alone.
LEMMA CommandKept ==
  ASSUME QuietInv, ~Anyone, UNCHANGED <<open, stop, mailbox, mic, caller>>,
         caller = "prepare" => aec' = aec /\ pcm' = pcm
  PROVE  CommandInv' /\ mailbox' \in [command : Commands \cup {"none"}, failed : BOOLEAN]
BY DEF QuietInv, CommandInv

LEMMA ReplyQuiet ==
  ASSUME DeviceInv, QuietInv, ~Anyone, Reply
  PROVE  QuietInv'
<1>1. /\ mailbox \in [command : Commands \cup {"none"}, failed : BOOLEAN]
      /\ SettlingInv /\ CommandInv /\ Succeeded /\ mailbox.command = "none"
  BY DEF QuietInv, CommandInv, Reply, Answered, Succeeded
<1>2. caller # "none" /\ caller' = "none" /\ UNCHANGED <<mic, mailbox, aec, pcm, scope>>
  BY DEF Reply, captureVars
<1>3. CASE caller = "prepare"
  <2>1. /\ active' = TRUE /\ drop' = FALSE /\ restless' = Warmup
        /\ UNCHANGED <<stop, open, thread>> /\ ~active
    BY <1>1, <1>3 DEF Reply, BeginPlayback
  <2>2. aec = PrepareAec /\ ~pcm.ended /\ ~pcm.interrupted
    BY <1>1, <1>3 DEF CommandInv
  <2>3. aec.armed /\ aec.session /\ thread.at # "done"
    BY <2>1, <2>2 DEF PrepareAec, DeviceInv
  <2>4. restless' \in Nat /\ restless' <= Warmup /\ aec \in AecType /\ pcm \in PcmType
    BY <2>1, CaptureSizes DEF QuietInv
  <2>5. SettlingInv'
    BY <1>2, <2>1, <2>2, <2>3, <2>4 DEF SettlingInv
  <2>6. CommandInv'
    BY <1>1, <1>2, <2>1 DEF CommandInv
  <2> QED BY <1>1, <1>2, <2>4, <2>5, <2>6 DEF QuietInv
<1>4. CASE caller # "prepare"
  <2>1. UNCHANGED <<restless, active, drop, thread, stop, open>>
    BY <1>4 DEF Reply, playbackVars, flags
  <2>2. SettlingInv' /\ restless' \in Nat /\ aec' \in AecType /\ pcm' \in PcmType
    BY <1>2, <2>1, SettlingKept
  <2>3. CommandInv'
    BY <1>1, <1>2, <2>1 DEF CommandInv
  <2> QED BY <1>1, <1>2, <2>2, <2>3 DEF QuietInv
<1> QED BY <1>3, <1>4

\* A handler of the actor: with a drop nothing has to settle any more.
LEMMA DoesQuiet ==
  ASSUME DeviceInv, QuietInv, ~Anyone, NEW r, Does(r), caller = "none", CaptureRests
  PROVE  QuietInv'
<1>1. /\ mailbox \in [command : Commands \cup {"none"}, failed : BOOLEAN]
      /\ SettlingInv /\ CommandInv /\ mailbox.command = "none" /\ ~mailbox.failed
      /\ mic \notin {"apply", "done"}
  BY DEF QuietInv, CommandInv
<1>2. mic' = mic /\ aec' = aec /\ scope' = scope
  BY DEF CaptureRests, Does
<1>3. /\ mailbox' \in [command : Commands \cup {"none"}, failed : BOOLEAN]
      /\ ~mailbox'.failed /\ mailbox'.command = caller' /\ caller' \in {"none", "reset"}
  <2>1. CASE "reset" \in r.does
    <3>1. mailbox' = [mailbox EXCEPT !.command = "reset"] /\ caller' = "reset"
      BY <2>1 DEF Does, Ask, Request
    <3> QED BY <1>1, <3>1 DEF Commands
  <2>2. CASE "reset" \notin r.does
    BY <1>1, <2>2 DEF Does
  <2> QED BY <2>1, <2>2
<1>4. /\ SettlingInv' /\ restless' \in Nat /\ aec' \in AecType /\ pcm' \in PcmType
      /\ UNCHANGED <<open, stop>>
  <2>1. CASE "drop" \in r.does /\ active
    <3>1. /\ active' = active /\ drop' = TRUE /\ UNCHANGED <<thread, open, stop>>
          /\ pcm' = Interrupted /\ restless' = 0
      BY <2>1 DEF Does, Drops, DropPlayback
    <3>2. pcm' \in PcmType /\ pcm'.ended /\ drop' /\ restless' = 0 /\ restless' <= TailFrames
      BY <3>1, CaptureSizes DEF Interrupted, PcmType
    <3>3. SettlingInv'
      BY <3>2 DEF SettlingInv
    <3> QED BY <1>2, <3>1, <3>2, <3>3 DEF QuietInv
  <2>2. CASE ~("drop" \in r.does /\ active)
    <3>1. UNCHANGED <<active, drop, thread, open, stop, pcm, restless>>
      BY <2>2 DEF Does, playbackVars, flags
    <3> QED BY <1>2, <3>1, SettlingKept
  <2> QED BY <2>1, <2>2
<1>5. CommandInv'
  BY <1>1, <1>2, <1>3, <1>4 DEF CommandInv
<1> QED BY <1>3, <1>4, <1>5 DEF QuietInv

LEMMA AskPlaybackQuiet ==
  ASSUME QuietInv, ~Anyone, AskPlayback, caller = "none"
  PROVE  QuietInv'
<1>1. /\ mailbox \in [command : Commands \cup {"none"}, failed : BOOLEAN]
      /\ CommandInv /\ ~mailbox.failed /\ mic \notin {"apply", "done"}
  BY DEF QuietInv, CommandInv
<1>2. /\ UNCHANGED <<active, drop, thread, open, stop, pcm, restless, aec, mic, scope>>
      /\ mailbox' = [mailbox EXCEPT !.command = "prepare"] /\ caller' = "prepare"
  BY DEF AskPlayback, CaptureRests, flags, Ask, Request
<1>3. /\ mailbox' \in [command : Commands \cup {"none"}, failed : BOOLEAN]
      /\ ~mailbox'.failed /\ mailbox'.command = "prepare"
  BY <1>1, <1>2 DEF Commands
<1>4. CommandInv'
  BY <1>1, <1>2, <1>3 DEF CommandInv
<1>5. SettlingInv' /\ restless' \in Nat /\ aec' \in AecType /\ pcm' \in PcmType
  BY <1>2, SettlingKept
<1> QED BY <1>3, <1>4, <1>5 DEF QuietInv

LEMMA ConversationQuiet ==
  ASSUME DeviceInv, QuietInv, ~Anyone, Conversation
  PROVE  QuietInv'
<1>a. ASSUME UNCHANGED <<scope, restless, aec, pcm, active, drop, thread, open, stop, mailbox,
                         mic, caller>>
      PROVE  QuietInv'
  BY <1>a, SettlingKept, CommandKept DEF QuietInv
<1>1. CASE TakeFrame
  BY <1>1, <1>a DEF TakeFrame, playbackVars, flags
<1>2. ASSUME NEW states, NEW r, Event(states, r) \/ Deadline(states, r)
      PROVE  QuietInv'
  <2>1. Does(r) /\ caller = "none" /\ CaptureRests
    BY <1>2 DEF Event, Deadline, Talks, Free
  <2> QED BY <2>1, DoesQuiet
<1>3. CASE HandleFrame
  <2>1. PICK loud \in {held[1].near, FALSE}, wake \in BOOLEAN :
          Does(OnFrame(act, held[1], loud, wake))
    BY <1>3 DEF HandleFrame
  <2>2. caller = "none" /\ CaptureRests
    BY <1>3 DEF HandleFrame, Talks, Free
  <2> QED BY <2>1, <2>2, DoesQuiet
<1>4. CASE \/ Cancelled \/ ServerError \/ TouchInterrupt \/ LateStart
           \/ DrainEnds \/ CancelTimeout \/ TurnTimeout \/ NobodySpeaks
  BY <1>2, <1>4 DEF Cancelled, ServerError, TouchInterrupt, LateStart, DrainEnds, CancelTimeout,
                    TurnTimeout, NobodySpeaks
<1>5. CASE AudioStart
  BY <1>5, AskPlaybackQuiet DEF AudioStart, Talks, Free
<1>6. CASE Audio
  <2>1. UNCHANGED <<active, drop, thread, open, stop>>
    BY <1>6 DEF Audio, QueueTts24k
  <2> QED BY <1>6, <1>a, <2>1 DEF Audio, captureVars
<1>7. CASE Done
  <2>1. UNCHANGED <<active, drop, thread, open, stop>>
    BY <1>7 DEF Done, EndPlayback, playbackVars, flags
  <2> QED BY <1>7, <1>a, <2>1 DEF Done, captureVars
<1> QED BY <1>1, <1>3, <1>4, <1>5, <1>6, <1>7 DEF Conversation

LEMMA PlaybackThreadQuiet ==
  ASSUME DeviceInv, QuietInv, ~Anyone, PlaybackThread
  PROVE  QuietInv'
<1>1. /\ SettlingInv /\ pcm \in PcmType /\ restless \in Nat /\ aec \in AecType
      /\ ThreadIs(thread) /\ active \in BOOLEAN /\ drop \in BOOLEAN
      /\ thread.at \in {"render", "finish", "device", "done"} => active
  BY DEF QuietInv, DeviceInv
<1>2. UNCHANGED <<mic, aec, mailbox, scope, caller>> /\ caller # "prepare"
  BY DEF PlaybackThread, CaptureRests
<1>3. UNCHANGED <<open, stop>>
  <2>1. CASE RenderSlot
    BY <2>1 DEF RenderSlot, Render
  <2>2. CASE EndDevice
    BY <2>2, FinishDeviceKeeps DEF EndDevice
  <2>3. CASE FinishedDone
    BY <2>3 DEF FinishedDone, FinishDone
  <2>4. CASE GraceExpires \/ NotStarved \/ TakeSlot \/ StopSeen \/ FinishLooks
    BY <2>4 DEF GraceExpires, NotStarved, TakeSlot, StopSeen, FinishLooks
  <2> QED BY <2>1, <2>2, <2>3, <2>4 DEF PlaybackThread
<1>4. CommandInv' /\ mailbox' \in [command : Commands \cup {"none"}, failed : BOOLEAN]
  BY <1>2, <1>3, CommandKept
<1>a. ASSUME SettlingInv', restless' \in Nat, pcm' \in PcmType PROVE QuietInv'
  BY <1>1, <1>2, <1>4, <1>a DEF QuietInv
<1>5. CASE RenderSlot
  <2>1. /\ UNCHANGED <<active, drop, restless>> /\ thread.at = "render"
        /\ thread' \in {At("finish"), At("top"), [At("finish") EXCEPT !.failed = TRUE]}
    BY <1>5 DEF RenderSlot, Render, flags
  <2>2. thread'.at \in {"finish", "top"}
    BY <2>1 DEF At
  <2>3. PICK audible \in {FALSE, ~muted} : pcm' = [pcm EXCEPT !.started = @ \/ audible]
    BY <1>5 DEF RenderSlot, RenderStarted
  <2>4. pcm' \in PcmType /\ pcm'.ended = pcm.ended /\ pcm'.interrupted = pcm.interrupted
    BY <1>1, <2>3 DEF PcmType
  <2>5. SettlingInv'
    BY <1>1, <1>2, <2>1, <2>2, <2>4 DEF SettlingInv
  <2> QED BY <1>1, <1>a, <2>1, <2>4, <2>5
<1>6. DeviceEnded \in PcmType /\ DeviceEnded.ended /\ DeviceEnded.interrupted = pcm.interrupted
  BY <1>1 DEF DeviceEnded, PcmType
<1>7. CASE EndDevice
  <2>0. /\ UNCHANGED <<active, drop>> /\ thread.at = "device"
        /\ pcm' = DeviceEnded /\ restless' = (IF drop \/ stop THEN 0 ELSE TailFrames)
    BY <1>7, FinishDeviceKeeps DEF EndDevice, flags
  <2>1. thread'.at = "done"
    BY <1>1, <1>7, FinishDeviceKeeps DEF EndDevice, ThreadIs
  <2>2. active /\ restless' \in Nat /\ restless' <= TailFrames /\ (drop => restless' = 0)
    BY <1>1, <2>0, CaptureSizes
  <2>3. ~drop => ~pcm.interrupted
    BY <1>1, <2>2 DEF SettlingInv
  <2>4. pcm'.ended /\ (pcm'.interrupted => restless' = 0)
    BY <1>6, <2>0, <2>2, <2>3
  <2>5. SettlingInv'
    BY <1>6, <2>0, <2>1, <2>2, <2>3, <2>4 DEF SettlingInv
  <2> QED BY <1>6, <1>a, <2>0, <2>2, <2>5
<1>8. CASE FinishedDone
  <2>1. /\ thread.at = "done" /\ active' = FALSE /\ restless' = restless
        /\ pcm' = (IF drop /\ ~thread.discard THEN DeviceEnded ELSE pcm)
    BY <1>8 DEF FinishedDone, FinishDone
  <2>2. CASE drop /\ ~thread.discard
    <3>1. restless = 0
      BY <1>1, <2>1, <2>2 DEF SettlingInv
    <3>2. SettlingInv' /\ pcm' \in PcmType
      BY <1>6, <2>1, <2>2, <3>1, CaptureSizes DEF SettlingInv
    <3> QED BY <1>1, <1>a, <2>1, <3>2
  <2>3. CASE ~(drop /\ ~thread.discard)
    <3>1. SettlingInv'
      BY <1>1, <1>2, <2>1, <2>3 DEF SettlingInv
    <3> QED BY <1>1, <1>a, <2>1, <2>3, <3>1
  <2> QED BY <2>2, <2>3
<1>9. CASE /\ GraceExpires \/ NotStarved \/ TakeSlot \/ StopSeen \/ FinishLooks
           /\ UNCHANGED <<pcm, muted, restless>>
  <2>1. UNCHANGED <<active, drop>>
    BY <1>9 DEF GraceExpires, NotStarved, TakeSlot, StopSeen, FinishLooks, flags
  <2>2. thread.at # "done"
    BY <1>9 DEF GraceExpires, NotStarved, TakeSlot, StopSeen, FinishLooks
  <2>3. thread'.at # "done"
    <3>1. CASE GraceExpires \/ NotStarved \/ StopSeen
      BY <3>1 DEF GraceExpires, NotStarved, StopSeen, At
    <3>2. CASE TakeSlot
      <4>1. \/ thread' = [At("render") EXCEPT !.slot = tts[tts_head], !.finish = LastTaken]
            \/ thread' = [At("finish") EXCEPT !.discard = drop]
        BY <3>2, Zenon DEF TakeSlot
      <4> QED BY <4>1 DEF At
    <3>3. CASE FinishLooks
      BY <1>1, <3>3 DEF FinishLooks, ThreadIs
    <3> QED BY <1>9, <3>1, <3>2, <3>3
  <2>4. SettlingInv' /\ restless' \in Nat /\ pcm' \in PcmType
    BY <1>2, <1>9, <2>1, <2>2, <2>3, SettlingKept
  <2> QED BY <1>a, <2>4
<1> QED BY <1>5, <1>7, <1>8, <1>9 DEF PlaybackThread

\* The capture thread carries out a command: it prepares the device only
\* between two playbacks.
LEMMA CarryOutQuiet ==
  ASSUME DeviceInv, QuietInv, ~Anyone, CarryOut, mic' # "failing",
         UNCHANGED <<playbackVars, restless, scope, caller>>
  PROVE  QuietInv'
<1>1. /\ SettlingInv /\ CommandInv /\ restless \in Nat
      /\ mailbox \in [command : Commands \cup {"none"}, failed : BOOLEAN]
  BY DEF QuietInv
<1>2. /\ mic = "apply" /\ mailbox' = mailbox /\ mic' = "done" /\ mailbox.command # "none"
      /\ UNCHANGED <<active, drop, thread, open, stop>>
  BY <1>1 DEF CarryOut, playbackVars, flags, CommandInv
<1>3. CASE mailbox.command = "reset" /\ ResetListener
  <2>1. UNCHANGED <<aec, pcm>> /\ caller # "prepare"
    BY <1>1, <1>3 DEF ResetListener, CommandInv
  <2>2. SettlingInv' /\ restless' \in Nat /\ aec' \in AecType /\ pcm' \in PcmType
    BY <1>2, <2>1, SettlingKept
  <2>3. CommandInv'
    BY <1>1, <1>2, <2>1 DEF CommandInv
  <2> QED BY <1>1, <1>2, <2>2, <2>3 DEF QuietInv
<1>4. CASE mailbox.command = "prepare" /\ PreparePlayback
  <2>1. aec' = PrepareAec /\ pcm' = NewPcm /\ ~active
    BY <1>4 DEF PreparePlayback, DeviceInv
  <2>2. /\ aec' \in AecType /\ aec'.armed /\ pcm' \in PcmType /\ ~pcm'.ended /\ ~pcm'.interrupted
    BY <2>1 DEF PrepareAec, AecType, NewPcm, PcmType
  <2>3. SettlingInv'
    BY <1>2, <2>1, <2>2 DEF SettlingInv
  <2>4. CommandInv'
    BY <1>1, <1>2, <2>1, <2>2 DEF CommandInv
  <2> QED BY <1>1, <1>2, <2>2, <2>3, <2>4 DEF QuietInv
<1> QED BY <1>3, <1>4 DEF CarryOut

LEMMA HearFrameQuiet ==
  ASSUME DeviceInv, QuietInv, ~Anyone, HearFrame, UNCHANGED <<playbackVars, scope, caller>>
  PROVE  QuietInv'
<1>1. /\ SettlingInv /\ CommandInv /\ restless \in Nat /\ aec \in AecType /\ pcm \in PcmType
      /\ mailbox \in [command : Commands \cup {"none"}, failed : BOOLEAN]
      /\ active \in BOOLEAN /\ drop \in BOOLEAN
  BY DEF QuietInv, DeviceInv
<1>2. UNCHANGED <<active, drop, thread, open, stop>>
  BY DEF playbackVars, flags
<1>a. ASSUME mic' = "top", mailbox' = mailbox,
             caller = "prepare" /\ aec = PrepareAec /\ ~pcm.ended /\ ~pcm.interrupted =>
               aec' = PrepareAec /\ ~pcm'.ended /\ ~pcm'.interrupted
      PROVE  CommandInv'
  BY <1>1, <1>2, <1>a DEF CommandInv
<1>3. ASSUME NEW now \in BOOLEAN, NEW reference \in {FALSE, active /\ ~drop},
             Hear(now, reference), restless' = Less(restless)
      PROVE  QuietInv'
  <2>1. mic' = "top" /\ mailbox' = mailbox
    BY <1>3 DEF Hear
  <2>2. /\ aec' \in AecType /\ pcm' \in PcmType /\ ~pcm'.ended
        /\ restless' \in Nat /\ restless' <= restless
        /\ pcm'.interrupted = pcm.interrupted
        /\ restless' = 0 \/ aec'.armed \/ aec'.warmup >= restless' \/ aec'.tail >= restless'
        /\ ~pcm.ended => aec'.session = aec.session
        /\ pcm.ended => ~aec'.session /\ ~aec'.armed
        /\ aec'.armed => aec.armed
        /\ aec = PrepareAec /\ ~active /\ ~pcm.ended => aec' = PrepareAec
    BY <1>3, HearQuiet
  <2>3. caller = "prepare" => ~active
    BY DEF DeviceInv
  <2>4. CommandInv'
    BY <1>a, <2>1, <2>2, <2>3
  <2>5. SettlingInv'
    <3>1. active /\ drop => restless' = 0
      BY <1>1, <2>2 DEF SettlingInv
    <3>2. active /\ ~drop => ~pcm'.interrupted
      BY <1>1, <2>2 DEF SettlingInv
    <3>3. active /\ ~drop /\ thread.at # "done" => aec'.session /\ restless' <= Warmup
      BY <1>1, <2>2, CaptureSizes DEF SettlingInv
    <3>4. active /\ thread.at = "done" => ~aec'.session /\ ~aec'.armed
      BY <1>1, <2>2 DEF SettlingInv
    <3> QED BY <1>2, <2>2, <3>1, <3>2, <3>3, <3>4 DEF SettlingInv
  <2> QED BY <1>1, <2>1, <2>2, <2>4, <2>5 DEF QuietInv
<1>4. ASSUME HearGap, restless' = IF Playing THEN Warmup ELSE Less(restless)
      PROVE  QuietInv'
  <2>1. /\ aec' \in AecType /\ aec'.session = aec.session /\ UNCHANGED <<pcm, mailbox>>
        /\ aec.session => aec'.armed
        /\ ~aec.session => aec' = aec
        /\ aec = PrepareAec => aec' = PrepareAec
        /\ mic' = "top"
    BY <1>1, <1>4, HearGapIs
  <2>2. CommandInv'
    BY <1>a, <2>1
  <2>3. /\ restless' \in Nat
        /\ restless' <= Warmup \/ restless' <= restless
        /\ ~Playing => restless' <= restless
    BY <1>1, <1>4, LessIs, CaptureSizes
  <2>4. Playing <=> active /\ ~drop /\ thread.at # "done"
    BY DEF Playing
  <2>5. SettlingInv'
    <3>1. ~pcm.ended =>
            restless' = 0 \/ aec'.armed \/ aec'.warmup >= restless' \/ aec'.tail >= restless'
      <4>1. CASE aec.session
        BY <2>1, <4>1
      <4>2. CASE ~aec.session /\ ~pcm.ended
        <5>1. ~Playing /\ aec' = aec
          BY <1>1, <2>1, <2>4, <4>2 DEF SettlingInv
        <5>2. restless = 0 \/ aec.armed \/ aec.warmup >= restless \/ aec.tail >= restless
          BY <1>1, <4>2 DEF SettlingInv
        <5>3. aec.warmup \in Nat /\ aec.tail \in Nat
          BY <1>1 DEF AecType
        <5> QED BY <1>1, <2>3, <5>1, <5>2, <5>3
      <4> QED BY <4>1, <4>2
    <3>2. pcm.ended => (pcm.interrupted => restless' = 0) /\ restless' <= TailFrames
      BY <1>1, <2>3, <2>4, CaptureSizes DEF SettlingInv
    <3>3. active /\ drop => restless' = 0
      BY <1>1, <2>3, <2>4 DEF SettlingInv
    <3>4. active /\ ~drop /\ thread.at # "done" =>
            ~pcm.ended /\ aec'.session /\ restless' <= Warmup
      BY <1>1, <2>1, <2>3, CaptureSizes DEF SettlingInv
    <3>5. active /\ thread.at = "done" /\ ~pcm.ended => ~aec'.session /\ ~aec'.armed
      BY <1>1, <2>1 DEF SettlingInv
    <3>6. active /\ ~drop => ~pcm.interrupted
      BY <1>1 DEF SettlingInv
    <3> QED BY <1>2, <2>1, <3>1, <3>2, <3>3, <3>4, <3>5, <3>6 DEF SettlingInv
  <2> QED BY <1>1, <2>1, <2>2, <2>3, <2>5 DEF QuietInv
<1> QED BY <1>3, <1>4 DEF HearFrame

LEMMA QuietNext == DeviceInv /\ QuietInv /\ [Next]_vars => QuietInv'
<1> SUFFICES ASSUME DeviceInv, QuietInv, ~Anyone, [Next]_vars PROVE QuietInv'
  BY ScopeStays DEF QuietInv, Anyone
<1>1. CommandInv /\ mailbox \in [command : Commands \cup {"none"}, failed : BOOLEAN]
  BY DEF QuietInv
<1>a. ASSUME UNCHANGED <<scope, restless, aec, pcm, active, drop, thread, open, stop, mailbox,
                         mic, caller>>
      PROVE  QuietInv'
  BY <1>a, SettlingKept, CommandKept DEF QuietInv
<1>0. CASE UNCHANGED vars
  BY <1>0, <1>a DEF vars, captureVars, playbackVars, flags
<1>2. ~Faulty /\ open /\ ~stop
  BY <1>1 DEF Anyone, Faulty, CommandInv
<1>3. ~CommandTimesOut /\ ~AnyCall /\ ~CloseEngine /\ ~EngineJoined /\ ~OpenEngine
  BY <1>2 DEF CommandTimesOut, AnyCall, CloseEngine, EngineJoined, Joined, OpenEngine, Open
<1>4. CASE Reply
  BY <1>4, ReplyQuiet
<1>5. CASE Conversation
  BY <1>5, ConversationQuiet
<1>6. CASE PlaybackThread
  BY <1>6, PlaybackThreadQuiet
<1>7. CASE CaptureThread
  <2>1. UNCHANGED <<playbackVars, scope, caller>>
    BY <1>7 DEF CaptureThread
  <2>2. UNCHANGED <<active, drop, thread, open, stop>>
    BY <2>1 DEF playbackVars, flags
  <2>3. CASE HearFrame
    BY <2>1, <2>3, HearFrameQuiet
  <2>4. CASE CarryOut /\ (mic' = "failing" => Faulty) /\ UNCHANGED restless
    BY <1>2, <2>1, <2>4, CarryOutQuiet
  <2>5. CASE LookForCommand /\ UNCHANGED restless
    <3>1. mic' = "apply" /\ mailbox.command # "none" /\ UNCHANGED <<mailbox, aec, pcm>>
      BY <1>1, <2>5 DEF LookForCommand, Refused, CommandInv
    <3>2. SettlingInv' /\ restless' \in Nat /\ aec' \in AecType /\ pcm' \in PcmType
      BY <2>1, <2>2, <2>5, <3>1, SettlingKept
    <3>3. CommandInv'
      BY <1>1, <2>1, <2>2, <3>1 DEF CommandInv
    <3> QED BY <1>1, <3>1, <3>2, <3>3 DEF QuietInv
  <2>6. CASE Answer /\ UNCHANGED restless
    <3>1. /\ mic = "done" /\ mic' = "read" /\ UNCHANGED <<aec, pcm>>
          /\ mailbox' = [mailbox EXCEPT !.command = "none", !.failed = @ \/ mic = "failing"]
      BY <1>1, <2>6 DEF Answer, CommandInv
    <3>2. /\ mailbox' \in [command : Commands \cup {"none"}, failed : BOOLEAN]
          /\ mailbox'.command = "none" /\ ~mailbox'.failed
      BY <1>1, <3>1 DEF CommandInv
    <3>3. SettlingInv' /\ restless' \in Nat /\ aec' \in AecType /\ pcm' \in PcmType
      BY <2>1, <2>2, <2>6, <3>1, SettlingKept
    <3>4. CommandInv'
      BY <1>1, <2>1, <2>2, <3>1, <3>2 DEF CommandInv
    <3> QED BY <3>2, <3>3, <3>4 DEF QuietInv
  <2> QED BY <1>2, <1>7, <2>3, <2>4, <2>5, <2>6 DEF CaptureThread, NoFrame
<1> QED BY <1>0, <1>3, <1>4, <1>5, <1>6, <1>7 DEF Next

\* A step that lengthens the ring puts the user's voice there only once
\* everything has settled.
LEMMA VoiceMeansSettled ==
  ASSUME FramesInv, DeviceInv, QuietInv, [Next]_vars,
         Len(capture') > Len(capture), capture'[Len(capture')].near
  PROVE  restless = 0
<1> USE DEF FramesInv
<1>1. Len(capture) \in Nat /\ ~UNCHANGED capture
  OBVIOUS
<1>2. ~UNCHANGED vars
  BY <1>1 DEF vars, captureVars
<1>3. ~(Reply \/ CommandTimesOut \/ AnyCall \/ CloseEngine \/ OpenEngine \/ PlaybackThread)
  BY <1>1 DEF Reply, CommandTimesOut, TimesOut, AnyCall, AskPlayback, CloseEngine, OpenEngine,
              PlaybackThread, CaptureRests, captureVars
<1>4. ~EngineJoined
  BY <1>1 DEF EngineJoined
<1>5. ~Conversation
  <2>1. ~TakeFrame
    BY <1>1 DEF TakeFrame
  <2>2. ~HandleFrame /\ ~AudioStart /\ ~Audio /\ ~Done
    BY <1>1 DEF HandleFrame, AudioStart, AskPlayback, Audio, Done, CaptureRests, captureVars
  <2>3. ~Cancelled /\ ~ServerError /\ ~TouchInterrupt /\ ~LateStart
    BY <1>1 DEF Cancelled, ServerError, TouchInterrupt, LateStart, Event, CaptureRests
  <2>4. ~DrainEnds /\ ~CancelTimeout /\ ~TurnTimeout /\ ~NobodySpeaks
    BY <1>1 DEF DrainEnds, CancelTimeout, TurnTimeout, NobodySpeaks, Deadline, CaptureRests
  <2> QED BY <2>1, <2>2, <2>3, <2>4 DEF Conversation
<1>6. HearFrame
  <2>1. CaptureThread
    BY <1>2, <1>3, <1>4, <1>5 DEF Next
  <2>2. ~(LookForCommand \/ NoFrame \/ CarryOut \/ CaptureFails \/ CaptureStops)
    BY <1>1 DEF LookForCommand, NoFrame, CarryOut, CaptureFails, CaptureStops
  <2>3. ~Answer
    BY <1>1, UndecidedFrames DEF Answer
  <2> QED BY <2>1, <2>2, <2>3 DEF CaptureThread
\* What is pushed is the last frame.
<1>7. ASSUME NEW f \in Frame, Push(f) PROVE f.near
  <2>1. [f EXCEPT !.gap = TRUE].near = f.near
    BY DEF Frame
  <2>2. CASE capture' = <<[f EXCEPT !.gap = TRUE]>>
    BY <2>1, <2>2
  <2>3. CASE capture' = Append(capture, f)
    BY <1>1, <2>3
  <2> QED BY <1>7, <2>2, <2>3 DEF Push
<1>8. ~HearGap
  <2>1. GapFrame \in Frame /\ ~GapFrame.near
    BY DEF GapFrame, Frame
  <2> QED BY <1>7, <2>1 DEF HearGap
<1>9. PICK now \in BOOLEAN, reference \in {FALSE, active /\ ~drop} :
        Hear(now, reference) /\ restless' = Less(restless)
  BY <1>6, <1>8 DEF HearFrame
<1>10. ~Anyone
  BY <1>6 DEF HearFrame
<1>11. ~Suppresses(Gated(reference))
  <2> DEFINE near == now /\ ~Suppresses(Gated(reference))
             f == [near |-> near, edge |-> Edge(UpdateVad(now)),
                   reference |-> reference, gap |-> FALSE]
  <2>1. f \in Frame
    <3>1. Edge(UpdateVad(now)) \in {"none", "started", "ended"}
      BY DEF Edge
    <3>2. reference \in BOOLEAN /\ near \in BOOLEAN
      OBVIOUS
    <3> QED BY <3>1, <3>2 DEF Frame
  <2>2. Push(f)
    BY <1>9 DEF Hear
  <2>3. f.near
    BY <1>7, <2>1, <2>2
  <2> QED BY <2>3
<1> QED BY <1>9, <1>10, <1>11, HearQuiet

\* No frame is taken for the user's voice while the echo canceller adapts or
\* the room still sounds, through breaks of the capture, drops and natural ends
\* of playbacks, in whatever order the capture thread learns of them
\* (UpdateNearVoice, audio_backend.cpp 288-322).
THEOREM SettledBeforeVoice == Spec => QuietWhileAdapting
<1>1. Init => FramesInv /\ DeviceInv /\ QuietInv
  BY UtteranceInit, DeviceInit, QuietInit
<1>2. FramesInv /\ DeviceInv /\ QuietInv /\ [Next]_vars => (FramesInv /\ DeviceInv /\ QuietInv)'
  BY FramesNext, DeviceNext, QuietNext
<1>3. FramesInv /\ DeviceInv /\ QuietInv /\ [Next]_vars =>
        [Len(capture') > Len(capture) /\ capture'[Len(capture')].near => restless = 0]_vars
  BY VoiceMeansSettled
<1> QED BY <1>1, <1>2, <1>3, PTL DEF Spec, QuietWhileAdapting

-----------------------------------------------------------------------------
(* Induction and the loop over a packet.                                   *)

\* The least number of a set.
LEMMA NatLeast ==
  ASSUME NEW T \in SUBSET Nat, T # {}
  PROVE  \E n \in T : \A m \in T : n <= m
<1> DEFINE R == OpToRel(<, Nat)
<1>1. IsWellFoundedOn(R, Nat)
  BY NatLessThanWellFounded, Zenon
<1>2. \A x, y \in Nat : <<x, y>> \in R <=> x < y
  BY DEF OpToRel
<1> HIDE DEF R
<1>3. PICK n \in T : \A m \in T : ~ (<<m, n>> \in R)
  BY <1>1, WFMin
<1>4. ASSUME NEW m \in T PROVE n <= m
  <2>1. m \in Nat /\ n \in Nat
    OBVIOUS
  <2>2. ~ (m < n)
    BY <1>2, <1>3, <2>1
  <2> QED BY <2>1, <2>2
<1> QED BY <1>4

\* Induction, with a set in the place of the property.
LEMMA NatInduct ==
  ASSUME NEW T, 0 \in T, \A n \in Nat : n \in T => n + 1 \in T
  PROVE  \A n \in Nat : n \in T
<1> DEFINE S == Nat \ T
<1> SUFFICES ASSUME S # {} PROVE FALSE
  OBVIOUS
<1>1. PICK n \in S : \A m \in S : n <= m
  BY NatLeast
<1>2. n # 0 /\ n - 1 \in Nat
  OBVIOUS
<1>3. n - 1 \notin S
  BY <1>1, <1>2
<1>4. (n - 1) + 1 \in T
  BY <1>2, <1>3
<1> QED BY <1>2, <1>4

\* What a left fold of PutSample computes on its way: g at 1..j is the ring
\* after j samples of q.
Puts(g, start, q, k) ==
  g = [s \in SUBSET (1..k) |->
         IF s = {} THEN start ELSE PutSample(g[s \ {Max(s)}], q[Max(s)])]

LEMMA MaxIs ==
  ASSUME NEW k \in Nat, NEW s \in SUBSET (1..k), k \in s
  PROVE  Max(s) = k
<1>1. k \in s /\ \A y \in s : k >= y
  OBVIOUS
<1>2. Max(s) \in s /\ \A y \in s : Max(s) >= y
  BY <1>1 DEF Max
<1>3. Max(s) >= k /\ Max(s) \in 1..k
  BY <1>1, <1>2
<1> QED BY <1>3

\* There is such a function, whatever start and q are.
LEMMA PutsExists ==
  ASSUME NEW start, NEW q, NEW k \in Nat
  PROVE  \E g : Puts(g, start, q, k)
<1> DEFINE T == {n \in Nat : \E g : Puts(g, start, q, n)}
<1>1. 0 \in T
  <2> DEFINE g == [s \in SUBSET (1..0) |-> start]
  <2>1. \A s \in SUBSET (1..0) : s = {}
    OBVIOUS
  <2>2. Puts(g, start, q, 0)
    BY <2>1 DEF Puts
  <2> QED BY <2>2
<1>2. ASSUME NEW n \in Nat, n \in T PROVE n + 1 \in T
  <2>1. PICK g : Puts(g, start, q, n)
    BY <1>2
  <2> DEFINE h == [s \in SUBSET (1..(n + 1)) |->
                     IF n + 1 \in s THEN PutSample(g[s \ {n + 1}], q[n + 1]) ELSE g[s]]
             r(s) == IF s = {} THEN start ELSE PutSample(h[s \ {Max(s)}], q[Max(s)])
  <2>2. ASSUME NEW s \in SUBSET (1..(n + 1)) PROVE h[s] = r(s)
    <3>1. CASE n + 1 \in s
      <4>1. Max(s) = n + 1 /\ s # {}
        BY <3>1, MaxIs
      <4>2. s \ {n + 1} \in SUBSET (1..(n + 1)) /\ n + 1 \notin s \ {n + 1}
        OBVIOUS
      <4>3. h[s \ {n + 1}] = g[s \ {n + 1}]
        BY <4>2
      <4>4. h[s] = PutSample(g[s \ {n + 1}], q[n + 1])
        BY <3>1
      <4> HIDE DEF h
      <4> QED BY <4>1, <4>3, <4>4
    <3>2. CASE n + 1 \notin s
      <4>1. s \in SUBSET (1..n)
        <5>1. ASSUME NEW x \in s PROVE x \in 1..n
          <6>1. x \in 1..(n + 1) /\ x # n + 1
            BY <3>2
          <6> QED BY <6>1
        <5> QED BY <5>1
      <4>2. h[s] = g[s]
        BY <3>2
      <4>3. g[s] = IF s = {} THEN start ELSE PutSample(g[s \ {Max(s)}], q[Max(s)])
        BY <2>1, <4>1 DEF Puts
      <4>4. s \ {Max(s)} \in SUBSET (1..(n + 1)) /\ n + 1 \notin s \ {Max(s)}
        BY <3>2
      <4>5. h[s \ {Max(s)}] = g[s \ {Max(s)}]
        BY <4>4
      <4> HIDE DEF h
      <4> QED BY <4>2, <4>3, <4>5
    <3> QED BY <3>1, <3>2
  <2>3. h = [s \in SUBSET (1..(n + 1)) |-> h[s]]
    OBVIOUS
  <2> HIDE DEF h
  <2>4. Puts(h, start, q, n + 1)
    BY <2>2, <2>3 DEF Puts
  <2> QED BY <2>4
<1> HIDE DEF T
<1>3. k \in T
  BY <1>1, <1>2, NatInduct
<1> QED BY <1>3 DEF T

PutAll(start, q) == FoldLeft(PutSample, start, q)

\* The fold, sample by sample: r holds what there is after each.
Steps(r, start, q, k) ==
  /\ r[0] = start
  /\ \A j \in 0..k : j # k => r[j + 1] = PutSample(r[j], q[j + 1])
  /\ PutAll(start, q) = r[k]

LEMMA FoldPuts ==
  ASSUME NEW start, NEW k \in Nat, NEW q, DOMAIN q = 1..k
  PROVE  \E r : Steps(r, start, q, k)
<1> DEFINE g == CHOOSE f : Puts(f, start, q, k)
           r == [j \in 0..k |-> g[1..j]]
<1>1. PutAll(start, q) = g[1..k]
  <2>1. PutAll(start, q) = (CHOOSE f : f = [s \in SUBSET DOMAIN q |->
           IF s = {} THEN start ELSE PutSample(f[s \ {Max(s)}], q[Max(s)])])[DOMAIN q]
    BY DEF PutAll, FoldLeft, MapThenFoldSet
  <2> QED BY <2>1 DEF Puts
<1>2. Puts(g, start, q, k)
  BY PutsExists
<1> HIDE DEF g
<1>3. r[0] = start
  <2>1. 1..0 = {} /\ 1..0 \in SUBSET (1..k)
    OBVIOUS
  <2>2. g[1..0] = start
    BY <1>2, <2>1 DEF Puts
  <2> QED BY <2>2
<1>4. ASSUME NEW j \in 0..k, j # k PROVE r[j + 1] = PutSample(r[j], q[j + 1])
  <2>1. j + 1 \in 0..k /\ j + 1 \in Nat /\ 1..(j + 1) \in SUBSET (1..k) /\ j + 1 \in 1..(j + 1)
    BY <1>4
  <2>2. Max(1..(j + 1)) = j + 1
    BY <2>1, MaxIs
  <2>3. (1..(j + 1)) \ {j + 1} = 1..j /\ 1..(j + 1) # {}
    BY <2>1
  <2>4. g[1..(j + 1)] = PutSample(g[1..j], q[j + 1])
    BY <1>2, <2>1, <2>2, <2>3 DEF Puts
  <2> QED BY <2>1, <2>4
<1>5. r[k] = g[1..k]
  OBVIOUS
<1> HIDE DEF r
<1> QED BY <1>1, <1>3, <1>4, <1>5 DEF Steps

-----------------------------------------------------------------------------
(* The slots of the ring.                                                  *)

LEMMA RingSizes ==
  /\ Slots \in Nat /\ Slots > 0 /\ SlotSamples \in Nat /\ SlotSamples > 0
  /\ MaxSamples \in Nat /\ 0 \in Index /\ EmptySlot \in Slot
BY PlaybackAssumption DEF PlaybackAssumption, Index, EmptySlot, Slot

\* The k-th slot from the head.
Place(head, k) == (head + k) % Slots

LEMMA PlaceIs ==
  ASSUME NEW head \in Index, NEW k \in 0..Slots
  PROVE  /\ Place(head, k) \in Index
         /\ Place(head, k) = IF head + k < Slots THEN head + k ELSE head + k - Slots
<1>1. head \in Nat /\ k \in Nat /\ head < Slots /\ Slots \in Nat /\ Slots > 0 /\ k <= Slots
  BY RingSizes DEF Index
<1>2. CASE head + k < Slots
  <2>1. (head + k) % Slots = head + k
    BY <1>1, <1>2
  <2> QED BY <1>1, <1>2, <2>1 DEF Place, Index
<1>3. CASE head + k >= Slots
  <2> DEFINE m == head + k - Slots
  <2>1. m \in 0..(Slots - 1) /\ head + k = m + Slots
    BY <1>1, <1>3
  <2>2. (m + Slots) % Slots = m
    BY <1>1, <2>1
  <2> QED BY <1>1, <1>3, <2>1, <2>2 DEF Place, Index
<1> QED BY <1>1, <1>2, <1>3

\* Different slots have different places, and one place follows another.
LEMMA PlacesDiffer ==
  ASSUME NEW head \in Index, NEW j \in 0..(Slots - 1), NEW k \in 0..(Slots - 1), j # k
  PROVE  Place(head, j) # Place(head, k)
<1>1. head \in Nat /\ head < Slots /\ Slots \in Nat
  BY RingSizes DEF Index
<1> QED BY <1>1, PlaceIs

LEMMA PlaceFollows ==
  ASSUME NEW head \in Index, NEW k \in 0..(Slots - 1)
  PROVE  /\ Place(Place(head, k), 1) = Place(head, k + 1)
         /\ Place(Place(head, 1), k) = Place(head, k + 1)
         /\ Place(Place(head, k + 1), Slots - 1) = Place(head, k)
<1>1. head \in Nat /\ head < Slots /\ Slots \in Nat /\ Slots > 0
  BY RingSizes DEF Index
<1>2. /\ Place(head, k) \in Index /\ Place(head, 1) \in Index /\ Place(head, k + 1) \in Index
      /\ Place(head, k) = IF head + k < Slots THEN head + k ELSE head + k - Slots
      /\ Place(head, 1) = IF head + 1 < Slots THEN head + 1 ELSE head + 1 - Slots
      /\ Place(head, k + 1) = IF head + (k + 1) < Slots THEN head + (k + 1)
                              ELSE head + (k + 1) - Slots
  BY <1>1, PlaceIs
<1> DEFINE p == Place(head, k)
           q == Place(head, 1)
           r == Place(head, k + 1)
<1> HIDE DEF p, q, r
<1>3. Place(p, 1) = (IF p + 1 < Slots THEN p + 1 ELSE p + 1 - Slots)
  BY <1>1, <1>2, PlaceIs DEF p
<1>4. Place(q, k) = (IF q + k < Slots THEN q + k ELSE q + k - Slots)
  BY <1>1, <1>2, PlaceIs DEF q
<1>5. Place(r, Slots - 1) = (IF r + (Slots - 1) < Slots THEN r + (Slots - 1)
                             ELSE r + (Slots - 1) - Slots)
  BY <1>1, <1>2, PlaceIs DEF r
<1>6. Place(p, 1) = r
  BY <1>1, <1>2, <1>3 DEF p, r
<1>7. Place(q, k) = r
  BY <1>1, <1>2, <1>4 DEF q, r
<1>8. Place(r, Slots - 1) = p
  BY <1>1, <1>2, <1>5 DEF p, r
<1> QED BY <1>6, <1>7, <1>8 DEF p, q, r

\* A ring r with head h that holds the newest n of a samples: its slots follow
\* one another, only the newest can be short, and a free one is empty.
RingIs(r, h, a, n) ==
  /\ r = [tts |-> r.tts, tail |-> r.tail, count |-> r.count]
  /\ r.tts \in [Index -> Slot] /\ h \in Index /\ r.count \in 0..Slots
  /\ r.tail = Place(h, r.count)
  /\ a \in Nat /\ n \in Nat /\ n <= a /\ n <= Slots * SlotSamples
  /\ r.count = 0 => n = 0
  /\ r.count # 0 => n = (r.count - 1) * SlotSamples + r.tts[Place(h, r.count - 1)].used
  /\ \A k \in 0..(Slots - 1) :
       /\ k >= r.count => r.tts[Place(h, k)].used = 0
       /\ k + 1 < r.count => r.tts[Place(h, k)].used = SlotSamples
       /\ k < r.count => /\ r.tts[Place(h, k)].used > 0
                         /\ r.tts[Place(h, k)].first = (a - n) + k * SlotSamples

LEMMA Times ==
  ASSUME NEW k \in Nat
  PROVE  /\ k * SlotSamples \in Nat /\ (k + 1) * SlotSamples = k * SlotSamples + SlotSamples
         /\ 0 * SlotSamples = 0
         /\ k * SlotSamples < Slots * SlotSamples => k < Slots
         /\ k <= Slots => k * SlotSamples <= Slots * SlotSamples
<1>1. Slots \in Nat /\ SlotSamples \in Nat /\ SlotSamples > 0
  BY RingSizes
<1>2. k * SlotSamples \in Nat /\ (k + 1) * SlotSamples = k * SlotSamples + SlotSamples
      /\ 0 * SlotSamples = 0
  BY <1>1
<1>3. k <= Slots => k * SlotSamples <= Slots * SlotSamples
  <2> SUFFICES ASSUME k <= Slots PROVE k * SlotSamples <= Slots * SlotSamples
    OBVIOUS
  <2> DEFINE d == Slots - k
  <2>1. d \in Nat /\ Slots = k + d
    BY <1>1
  <2>2. d * SlotSamples \in Nat
    BY <1>1, <2>1
  <2>3. (k + d) * SlotSamples = k * SlotSamples + d * SlotSamples
    BY <1>1, <2>1
  <2> HIDE DEF d
  <2> QED BY <1>2, <2>1, <2>2, <2>3
<1>4. k >= Slots => k * SlotSamples >= Slots * SlotSamples
  <2> SUFFICES ASSUME k >= Slots PROVE k * SlotSamples >= Slots * SlotSamples
    OBVIOUS
  <2> DEFINE d == k - Slots
  <2>1. d \in Nat /\ k = Slots + d
    BY <1>1
  <2>2. d * SlotSamples \in Nat /\ Slots * SlotSamples \in Nat
    BY <1>1, <2>1
  <2>3. (Slots + d) * SlotSamples = Slots * SlotSamples + d * SlotSamples
    BY <1>1, <2>1
  <2> HIDE DEF d
  <2> QED BY <2>1, <2>2, <2>3
<1>5. Slots * SlotSamples \in Nat
  BY <1>1
<1> QED BY <1>1, <1>2, <1>3, <1>4, <1>5

\* PutSample: a slot of its own for the sample when the newest is full.
LEMMA PutsNewSlot ==
  ASSUME NEW r, NEW h, NEW a, NEW n, RingIs(r, h, a, n), n < Slots * SlotSamples,
         r.count = 0 \/ r.tts[LastSlot(r)].used = SlotSamples
  PROVE  RingIs(PutSample(r, a), h, a + 1, n + 1)
<1>1. /\ Slots \in Nat /\ Slots > 0 /\ SlotSamples \in Nat /\ SlotSamples > 0
      /\ r.tts \in [Index -> Slot] /\ h \in Index /\ r.count \in 0..Slots
      /\ r.tail = Place(h, r.count) /\ a \in Nat /\ n \in Nat /\ n <= a
  BY RingSizes DEF RingIs
<1>2. ASSUME r.count # 0 PROVE LastSlot(r) = Place(h, r.count - 1)
  <2>1. r.count - 1 \in 0..(Slots - 1) /\ (r.count - 1) + 1 = r.count
    BY <1>1, <1>2
  <2>2. Place(r.tail, Slots - 1) = Place(h, r.count - 1)
    BY <1>1, <2>1, PlaceFollows
  <2>3. r.tail \in Index
    BY <1>1, PlaceIs
  <2>4. r.tail + Slots - 1 = r.tail + (Slots - 1)
    BY <1>1, <2>3 DEF Index
  <2> QED BY <2>2, <2>4 DEF LastSlot, Place
<1>3. n = r.count * SlotSamples
  <2>1. CASE r.count = 0
    BY <1>1, <2>1, Times DEF RingIs
  <2>2. CASE r.count # 0
    <3>1. n = (r.count - 1) * SlotSamples + SlotSamples
      BY <1>2, <2>2 DEF RingIs
    <3>2. r.count - 1 \in Nat /\ (r.count - 1) + 1 = r.count
      BY <1>1, <2>2
    <3>3. ((r.count - 1) + 1) * SlotSamples = (r.count - 1) * SlotSamples + SlotSamples
      BY <3>2, Times
    <3> QED BY <3>1, <3>2, <3>3
  <2> QED BY <2>1, <2>2
<1>4. r.count \in 0..(Slots - 1) /\ r.count + 1 \in 0..Slots
  <2>1. r.count < Slots
    BY <1>1, <1>3, Times
  <2> QED BY <1>1, <2>1
<1> DEFINE i == Place(h, r.count)
           slot == [first |-> a, used |-> 1]
           s == [tts |-> [r.tts EXCEPT ![i] = slot], tail |-> Place(h, r.count + 1),
                 count |-> r.count + 1]
<1>5. i \in Index /\ r.tts[i].used = 0 /\ slot \in Slot
  <2>1. i \in Index
    BY <1>1, PlaceIs
  <2>2. r.tts[i].used = 0
    BY <1>1, <1>4 DEF RingIs
  <2>3. slot \in Slot
    BY <1>1 DEF Slot
  <2> QED BY <2>1, <2>2, <2>3
<1>6. PutSample(r, a) = s
  <2> DEFINE t == [r EXCEPT !.tail = (@ + 1) % Slots, !.count = @ + 1]
  <2>1. r = [tts |-> r.tts, tail |-> r.tail, count |-> r.count]
    BY DEF RingIs
  <2>2. (r.tail + 1) % Slots = Place(h, r.count + 1)
    BY <1>1, <1>4, PlaceFollows DEF Place
  <2>3. t = [tts |-> r.tts, tail |-> Place(h, r.count + 1), count |-> r.count + 1]
    <3> DEFINE tail == Place(h, r.count + 1)
               u == [r EXCEPT !.tail = tail]
    <3>1. t = [u EXCEPT !.count = r.count + 1]
      BY <2>2
    <3> HIDE DEF tail, t
    <3>2. u = [tts |-> r.tts, tail |-> tail, count |-> r.count]
      BY <2>1
    <3> HIDE DEF u
    <3>3. [u EXCEPT !.count = r.count + 1]
            = [tts |-> r.tts, tail |-> tail, count |-> r.count + 1]
      BY <3>2
    <3> QED BY <3>1, <3>3 DEF tail
  <2>4. LastSlot(t) = i
    <3>1. Place(Place(h, r.count + 1), Slots - 1) = i
      BY <1>1, <1>4, PlaceFollows
    <3>2. Place(h, r.count + 1) \in Index
      BY <1>1, <1>4, PlaceIs
    <3>3. Place(h, r.count + 1) + Slots - 1 = Place(h, r.count + 1) + (Slots - 1)
      BY <1>1, <3>2 DEF Index
    <3>4. LastSlot(t) = (Place(h, r.count + 1) + Slots - 1) % Slots
      BY <2>3 DEF LastSlot
    <3> QED BY <3>1, <3>3, <3>4 DEF Place
  <2>5. PutSample(r, a) = [t EXCEPT !.tts[i] = [first |-> IF @.used = 0 THEN a ELSE @.first,
                                                used |-> @.used + 1]]
    BY <2>4 DEF PutSample
  <2>6. t.tts[i].used = 0 /\ t.tts = r.tts
    BY <1>5, <2>3
  <2> HIDE DEF t
  <2>8. [first |-> IF t.tts[i].used = 0 THEN a ELSE t.tts[i].first, used |-> t.tts[i].used + 1]
          = slot
    BY <2>6
  <2>7. PutSample(r, a) = [t EXCEPT !.tts = [r.tts EXCEPT ![i] = slot]]
    <3> HIDE DEF i, slot
    <3> QED BY <2>5, <2>6, <2>8, Zenon
  <2> HIDE DEF i, slot
  <2> QED BY <2>3, <2>7
<1>7. /\ s = [tts |-> s.tts, tail |-> s.tail, count |-> s.count]
      /\ s.count = r.count + 1 /\ s.tail = Place(h, s.count)
      /\ s.tts \in [Index -> Slot] /\ s.tts[i].first = a /\ s.tts[i].used = 1
  BY <1>1, <1>5
<1>8. ASSUME NEW k \in 0..(Slots - 1), k # r.count PROVE s.tts[Place(h, k)] = r.tts[Place(h, k)]
  <2>1. Place(h, k) # i /\ Place(h, k) \in Index
    BY <1>1, <1>4, <1>8, PlacesDiffer, PlaceIs
  <2> QED BY <1>1, <2>1
<1>9. Place(h, s.count - 1) = i
  BY <1>1, <1>7
<1> HIDE DEF i, slot, s
<1>10. n + 1 = (s.count - 1) * SlotSamples + s.tts[Place(h, s.count - 1)].used
  <2>1. s.count - 1 = r.count
    BY <1>1, <1>7
  <2> QED BY <1>3, <1>7, <1>9, <2>1
<1>11. ASSUME NEW k \in 0..(Slots - 1)
       PROVE  /\ k >= s.count => s.tts[Place(h, k)].used = 0
              /\ k + 1 < s.count => s.tts[Place(h, k)].used = SlotSamples
              /\ k < s.count => /\ s.tts[Place(h, k)].used > 0
                                /\ s.tts[Place(h, k)].first =
                                     ((a + 1) - (n + 1)) + k * SlotSamples
  <2>1. k * SlotSamples \in Nat /\ (a + 1) - (n + 1) = a - n
    BY <1>1, Times
  <2>2. CASE k = r.count
    <3>1. s.tts[Place(h, k)].first = a /\ s.tts[Place(h, k)].used = 1
      BY <1>7, <2>2 DEF i
    <3>2. a = (a - n) + k * SlotSamples
      BY <1>1, <1>3, <2>1, <2>2
    <3>3. ~(k >= s.count) /\ ~(k + 1 < s.count)
      BY <1>1, <1>7, <2>2
    <3>4. s.tts[Place(h, k)].first = ((a + 1) - (n + 1)) + k * SlotSamples
      BY <2>1, <3>1, <3>2
    <3> QED BY <3>1, <3>3, <3>4
  <2>3. CASE k # r.count
    <3>1. s.tts[Place(h, k)] = r.tts[Place(h, k)]
      BY <1>8, <2>3
    <3>2. /\ k >= r.count => r.tts[Place(h, k)].used = 0
          /\ k + 1 < r.count => r.tts[Place(h, k)].used = SlotSamples
          /\ k < r.count => /\ r.tts[Place(h, k)].used > 0
                            /\ r.tts[Place(h, k)].first = (a - n) + k * SlotSamples
      BY DEF RingIs
    <3>3. k + 1 = r.count => r.tts[Place(h, k)].used = SlotSamples
      <4> SUFFICES ASSUME k + 1 = r.count PROVE r.tts[Place(h, k)].used = SlotSamples
        OBVIOUS
      <4>1. r.count # 0 /\ r.count - 1 = k
        BY <1>1
      <4> QED BY <1>2, <4>1
    <3>4. k + 1 < s.count => k + 1 < r.count \/ k + 1 = r.count
      BY <1>1, <1>7, <2>3
    <3>5. (k >= s.count => k >= r.count) /\ (k < s.count => k < r.count)
      BY <1>1, <1>7, <2>3
    <3> QED BY <2>1, <3>1, <3>2, <3>3, <3>4, <3>5
  <2> QED BY <2>2, <2>3
<1>12. /\ a + 1 \in Nat /\ n + 1 \in Nat /\ n + 1 <= a + 1 /\ n + 1 <= Slots * SlotSamples
       /\ s.count \in 0..Slots /\ s.count # 0
  BY <1>1, <1>4, <1>7
<1>13. RingIs(s, h, a + 1, n + 1)
  BY <1>1, <1>7, <1>10, <1>11, <1>12 DEF RingIs
<1> QED BY <1>6, <1>13

\* PutSample: the newest slot has room.
LEMMA PutsInSlot ==
  ASSUME NEW r, NEW h, NEW a, NEW n, RingIs(r, h, a, n),
         r.count # 0, r.tts[LastSlot(r)].used # SlotSamples
  PROVE  RingIs(PutSample(r, a), h, a + 1, n + 1)
<1>1. /\ Slots \in Nat /\ Slots > 0 /\ SlotSamples \in Nat /\ SlotSamples > 0
      /\ r.tts \in [Index -> Slot] /\ h \in Index /\ r.count \in 0..Slots
      /\ r.tail = Place(h, r.count) /\ a \in Nat /\ n \in Nat /\ n <= a
  BY RingSizes DEF RingIs
<1> DEFINE m == r.count - 1
           i == Place(h, m)
           slot == [first |-> r.tts[i].first, used |-> r.tts[i].used + 1]
           s == [tts |-> [r.tts EXCEPT ![i] = slot], tail |-> r.tail, count |-> r.count]
<1>2. m \in 0..(Slots - 1) /\ m + 1 = r.count
  BY <1>1
<1> HIDE DEF m
<1>3. i \in Index
  BY <1>1, <1>2, PlaceIs
<1>4. LastSlot(r) = i
  <2>1. Place(r.tail, Slots - 1) = i
    BY <1>1, <1>2, PlaceFollows
  <2>2. r.tail \in Index
    BY <1>1, PlaceIs
  <2>3. r.tail + Slots - 1 = r.tail + (Slots - 1)
    BY <1>1, <2>2 DEF Index
  <2> QED BY <2>1, <2>3 DEF LastSlot, Place
<1>5. /\ r.tts[i].used \in Nat /\ r.tts[i].used < SlotSamples /\ r.tts[i].used > 0
      /\ r.tts[i].first = (a - n) + m * SlotSamples
      /\ n = m * SlotSamples + r.tts[i].used
      /\ r.tts[i] \in Slot
  <2>1. r.tts[i] \in Slot /\ r.tts[i].used # SlotSamples
    BY <1>1, <1>3, <1>4
  <2>2. r.tts[i].used > 0 /\ r.tts[i].first = (a - n) + m * SlotSamples
    BY <1>1, <1>2 DEF RingIs
  <2>3. n = m * SlotSamples + r.tts[i].used
    BY <1>1 DEF RingIs, m
  <2> QED BY <1>1, <2>1, <2>2, <2>3 DEF Slot
<1>6. slot \in Slot
  <2>1. slot.first \in Nat /\ slot.used \in 0..SlotSamples
    BY <1>1, <1>5 DEF Slot
  <2> QED BY <2>1 DEF Slot
<1>7. PutSample(r, a) = s
  <2>1. r = [tts |-> r.tts, tail |-> r.tail, count |-> r.count]
    BY DEF RingIs
  <2>2. PutSample(r, a) = [r EXCEPT !.tts[i] = [first |-> IF @.used = 0 THEN a ELSE @.first,
                                                used |-> @.used + 1]]
    BY <1>4 DEF PutSample
  <2>3. [first |-> IF r.tts[i].used = 0 THEN a ELSE r.tts[i].first, used |-> r.tts[i].used + 1]
          = slot
    BY <1>5
  <2>4. PutSample(r, a) = [r EXCEPT !.tts = [r.tts EXCEPT ![i] = slot]]
    <3> HIDE DEF i, slot
    <3> QED BY <2>2, <2>3, Zenon
  <2> HIDE DEF i, slot
  <2> QED BY <2>1, <2>4
<1>8. /\ s = [tts |-> s.tts, tail |-> s.tail, count |-> s.count]
      /\ s.count = r.count /\ s.tail = r.tail
      /\ s.tts \in [Index -> Slot]
      /\ s.tts[i].first = r.tts[i].first /\ s.tts[i].used = r.tts[i].used + 1
  BY <1>1, <1>3, <1>6
<1>9. ASSUME NEW k \in 0..(Slots - 1), k # m PROVE s.tts[Place(h, k)] = r.tts[Place(h, k)]
  <2>1. Place(h, k) # i /\ Place(h, k) \in Index
    BY <1>1, <1>2, <1>9, PlacesDiffer, PlaceIs
  <2> QED BY <1>1, <2>1
<1> HIDE DEF slot, s
<1>10. m * SlotSamples \in Nat /\ m * SlotSamples + SlotSamples <= Slots * SlotSamples
  <2>1. m \in Nat /\ (m + 1) * SlotSamples = m * SlotSamples + SlotSamples /\ m * SlotSamples \in Nat
    BY <1>2, Times
  <2>2. m + 1 \in Nat /\ m + 1 <= Slots
    BY <1>1, <1>2
  <2>3. (m + 1) * SlotSamples <= Slots * SlotSamples
    BY <2>2, Times
  <2> QED BY <2>1, <2>3
<1>11. /\ n + 1 = m * SlotSamples + s.tts[i].used
       /\ a + 1 \in Nat /\ n + 1 \in Nat /\ n + 1 <= a + 1 /\ n + 1 <= Slots * SlotSamples
  <2>1. Slots * SlotSamples \in Nat
    BY <1>1
  <2> QED BY <1>1, <1>5, <1>8, <1>10, <2>1
<1>12. ASSUME NEW k \in 0..(Slots - 1)
       PROVE  /\ k >= s.count => s.tts[Place(h, k)].used = 0
              /\ k + 1 < s.count => s.tts[Place(h, k)].used = SlotSamples
              /\ k < s.count => /\ s.tts[Place(h, k)].used > 0
                                /\ s.tts[Place(h, k)].first =
                                     ((a + 1) - (n + 1)) + k * SlotSamples
  <2>1. (a + 1) - (n + 1) = a - n
    BY <1>1
  <2>2. CASE k = m
    <3>1. ~(k >= s.count) /\ ~(k + 1 < s.count)
      BY <1>1, <1>2, <1>8, <2>2
    <3>2. Place(h, k) = i
      BY <2>2
    <3>3. s.tts[i].used > 0
      BY <1>5, <1>8
    <3>4. s.tts[i].first = (a - n) + k * SlotSamples
      BY <1>5, <1>8, <2>2
    <3> HIDE DEF i
    <3> QED BY <2>1, <3>1, <3>2, <3>3, <3>4
  <2>3. CASE k # m
    <3>1. s.tts[Place(h, k)] = r.tts[Place(h, k)]
      BY <1>9, <2>3
    <3> QED BY <1>8, <2>1, <3>1 DEF RingIs
  <2> QED BY <2>2, <2>3
<1>13. s.count - 1 = m
  BY <1>1, <1>2, <1>8
<1>14. RingIs(s, h, a + 1, n + 1)
  <2>1. s.count # 0 => n + 1 = (s.count - 1) * SlotSamples + s.tts[Place(h, s.count - 1)].used
    BY <1>11, <1>13
  <2>2. s.count # 0 /\ s.tail = Place(h, s.count) /\ s.count \in 0..Slots
    BY <1>1, <1>8
  <2> QED BY <1>1, <1>8, <1>11, <1>12, <2>1, <2>2 DEF RingIs
<1> QED BY <1>7, <1>14

\* The packet in the ring, whatever its length.
LEMMA PacketKeeps ==
  ASSUME NEW r, NEW h, NEW a, NEW n, RingIs(r, h, a, n),
         NEW k \in Nat, n + k <= Slots * SlotSamples
  PROVE  RingIs(PutAll(r, [i \in 1..k |-> a + i - 1]), h, a + k, n + k)
<1> DEFINE q == [i \in 1..k |-> a + i - 1]
<1>1. a \in Nat /\ n \in Nat /\ Slots * SlotSamples \in Nat
  BY RingSizes DEF RingIs
<1>2. PICK g : Steps(g, r, q, k)
  <2>1. DOMAIN q = 1..k
    OBVIOUS
  <2> HIDE DEF q
  <2> QED BY <2>1, FoldPuts
<1> DEFINE T == {j \in Nat : j <= k => RingIs(g[j], h, a + j, n + j)}
<1>3. 0 \in T
  <2>1. a + 0 = a /\ n + 0 = n
    BY <1>1
  <2>2. RingIs(g[0], h, a + 0, n + 0)
    BY <1>2, <2>1 DEF Steps
  <2> QED BY <2>2
<1>4. ASSUME NEW j \in Nat, j \in T PROVE j + 1 \in T
  <2> SUFFICES ASSUME j + 1 <= k PROVE RingIs(g[j + 1], h, a + (j + 1), n + (j + 1))
    OBVIOUS
  <2>1. j \in 0..k /\ j # k /\ j + 1 \in 1..k /\ j <= k
    OBVIOUS
  <2>2. q[j + 1] = a + j
    <3>1. q[j + 1] = a + (j + 1) - 1
      BY <2>1
    <3> QED BY <1>1, <3>1
  <2> HIDE DEF q
  <2>3. g[j + 1] = PutSample(g[j], a + j)
    BY <1>2, <2>1, <2>2 DEF Steps
  <2>4. RingIs(g[j], h, a + j, n + j) /\ n + j < Slots * SlotSamples
    BY <1>1, <1>4, <2>1
  <2>5. RingIs(PutSample(g[j], a + j), h, (a + j) + 1, (n + j) + 1)
    BY <2>4, PutsNewSlot, PutsInSlot
  <2>6. (a + j) + 1 = a + (j + 1) /\ (n + j) + 1 = n + (j + 1)
    BY <1>1
  <2> QED BY <2>3, <2>5, <2>6
<1> HIDE DEF T
<1>5. k \in T
  BY <1>3, <1>4, NatInduct
<1> QED BY <1>2, <1>5 DEF T, Steps

\* An empty ring, from whatever place.
LEMMA ClearedIs ==
  ASSUME NEW a \in Nat
  PROVE  RingIs([tts |-> [i \in Index |-> EmptySlot], tail |-> 0, count |-> 0], 0, a, 0)
<1> DEFINE r == [tts |-> [i \in Index |-> EmptySlot], tail |-> 0, count |-> 0]
<1>1. /\ Slots \in Nat /\ Slots > 0 /\ SlotSamples \in Nat /\ 0 \in Index /\ EmptySlot \in Slot
      /\ Slots * SlotSamples \in Nat
  BY RingSizes
<1>2. r.tts \in [Index -> Slot] /\ r.count = 0 /\ r.tail = 0
      /\ r = [tts |-> r.tts, tail |-> r.tail, count |-> r.count]
  BY <1>1
<1>3. Place(0, 0) = 0
  BY <1>1, PlaceIs
<1>4. ASSUME NEW k \in 0..(Slots - 1) PROVE r.tts[Place(0, k)].used = 0
  <2>1. Place(0, k) \in Index
    BY <1>1, PlaceIs
  <2> QED BY <2>1 DEF EmptySlot
<1> HIDE DEF r
<1>5. RingIs(r, 0, a, 0)
  BY <1>1, <1>2, <1>3, <1>4 DEF RingIs
<1> QED BY <1>5 DEF r

HeadOut(r, h) ==
  [tts |-> [r.tts EXCEPT ![h] = EmptySlot], tail |-> r.tail, count |-> r.count - 1]

\* The oldest slot is taken.
LEMMA TakenIs ==
  ASSUME NEW r, NEW h, NEW a, NEW n, RingIs(r, h, a, n), r.count # 0
  PROVE  /\ r.tts[h] \in Slot /\ r.tts[h].first = a - n /\ r.tts[h].used <= n
         /\ r.count = 1 => n = r.tts[h].used
         /\ RingIs(HeadOut(r, h), (h + 1) % Slots, a, n - r.tts[h].used)
<1>1. /\ Slots \in Nat /\ Slots > 0 /\ SlotSamples \in Nat /\ SlotSamples > 0
      /\ r.tts \in [Index -> Slot] /\ h \in Index /\ r.count \in 0..Slots
      /\ r.tail = Place(h, r.count) /\ a \in Nat /\ n \in Nat /\ n <= a
      /\ EmptySlot \in Slot /\ n <= Slots * SlotSamples /\ Slots * SlotSamples \in Nat
  BY RingSizes DEF RingIs
<1> DEFINE c == r.count - 1
           u == r.tts[h].used
           g == (h + 1) % Slots
           s == [tts |-> [r.tts EXCEPT ![h] = EmptySlot], tail |-> r.tail, count |-> c]
<1>2. c \in 0..(Slots - 1) /\ c + 1 = r.count
  BY <1>1
<1>3. Place(h, 0) = h /\ Place(h, Slots) = h
  BY <1>1, PlaceIs DEF Index
<1>4. g = Place(h, 1) /\ g \in Index
  BY <1>1, PlaceIs DEF Place
<1>5. r.tts[h] \in Slot /\ r.tts[h].first = a - n /\ u \in Nat
  <2>1. r.tts[Place(h, 0)].first = (a - n) + 0 * SlotSamples
    BY <1>1 DEF RingIs
  <2>2. 0 * SlotSamples = 0 /\ a - n \in Int
    BY <1>1
  <2>3. r.tts[h] \in Slot
    BY <1>1
  <2>4. r.tts[h].first = a - n
    BY <1>3, <2>1, <2>2
  <2> QED BY <2>3, <2>4 DEF Slot
<1>6. n = c * SlotSamples + r.tts[Place(h, c)].used
  BY <1>1 DEF RingIs
<1>7. r.count = 1 => n = u
  <2> SUFFICES ASSUME r.count = 1 PROVE n = u
    OBVIOUS
  <2>1. c = 0 /\ 0 * SlotSamples = 0
    BY <1>1
  <2>2. n = 0 + u
    BY <1>3, <1>6, <2>1
  <2> QED BY <1>5, <2>2
<1>8. r.count # 1 => u = SlotSamples
  <2>1. r.count # 1 => 0 + 1 < r.count
    BY <1>1
  <2>2. r.count # 1 => r.tts[Place(h, 0)].used = SlotSamples
    BY <1>1, <2>1 DEF RingIs
  <2> QED BY <1>3, <2>2
<1>9. /\ s = [tts |-> s.tts, tail |-> s.tail, count |-> s.count]
      /\ s.count = c /\ s.tail = r.tail
      /\ s.tts \in [Index -> Slot] /\ s.tts[h].used = 0
  BY <1>1 DEF EmptySlot
<1>10. ASSUME NEW k \in 0..(Slots - 1), k # Slots - 1
       PROVE  s.tts[Place(g, k)] = r.tts[Place(h, k + 1)] /\ k + 1 \in 0..(Slots - 1)
  <2>1. Place(g, k) = Place(h, k + 1) /\ k + 1 \in 0..(Slots - 1)
    BY <1>1, <1>4, <1>10, PlaceFollows
  <2>2. Place(h, k + 1) # h /\ Place(h, k + 1) \in Index
    <3>1. 0 \in 0..(Slots - 1) /\ k + 1 # 0 /\ k + 1 \in 0..Slots
      BY <1>1
    <3> QED BY <1>1, <1>3, <2>1, <3>1, PlacesDiffer, PlaceIs
  <2> QED BY <1>1, <2>1, <2>2
<1>11. Place(g, Slots - 1) = h
  <2>1. Slots - 1 \in 0..(Slots - 1) /\ (Slots - 1) + 1 = Slots
    BY <1>1
  <2> QED BY <1>1, <1>3, <1>4, <2>1, PlaceFollows
<1>12. s.tail = Place(g, s.count)
  BY <1>1, <1>2, <1>4, <1>9, PlaceFollows
<1> HIDE DEF c, s, u, g
\* What is left: all but the slot that was taken.
<1>13. /\ n - u \in Nat /\ n - u <= a /\ n - u <= Slots * SlotSamples /\ u <= n
       /\ c = 0 => n - u = 0
       /\ c # 0 => n - u = (c - 1) * SlotSamples + s.tts[Place(g, c - 1)].used
  <2>1. CASE c = 0
    BY <1>1, <1>2, <1>5, <1>7, <2>1
  <2>2. CASE c # 0
    <3>1. c - 1 \in 0..(Slots - 1) /\ c - 1 # Slots - 1 /\ (c - 1) + 1 = c /\ r.count # 1
          /\ c - 1 \in Nat
      BY <1>1, <1>2, <2>2
    <3>2. s.tts[Place(g, c - 1)] = r.tts[Place(h, c)]
      BY <1>10, <3>1
    <3>3. ((c - 1) + 1) * SlotSamples = (c - 1) * SlotSamples + SlotSamples
          /\ (c - 1) * SlotSamples \in Nat
      BY <3>1, Times
    <3>4. c * SlotSamples = (c - 1) * SlotSamples + SlotSamples
      BY <3>1, <3>3
    <3>5. r.tts[Place(h, c)].used \in Nat
      <4>1. Place(h, c) \in Index
        BY <1>1, <1>2, PlaceIs
      <4>2. r.tts[Place(h, c)] \in Slot
        BY <1>1, <4>1
      <4> QED BY <1>1, <4>2 DEF Slot
    <3>6. n - u = (c - 1) * SlotSamples + r.tts[Place(h, c)].used
      BY <1>6, <1>8, <3>1, <3>3, <3>4, <3>5, <1>1
    <3> QED BY <1>1, <1>5, <1>8, <2>2, <3>1, <3>2, <3>3, <3>5, <3>6
  <2> QED BY <2>1, <2>2
<1>14. ASSUME NEW k \in 0..(Slots - 1)
       PROVE  /\ k >= c => s.tts[Place(g, k)].used = 0
              /\ k + 1 < c => s.tts[Place(g, k)].used = SlotSamples
              /\ k < c => /\ s.tts[Place(g, k)].used > 0
                          /\ s.tts[Place(g, k)].first = (a - (n - u)) + k * SlotSamples
  <2>1. CASE k = Slots - 1
    BY <1>1, <1>2, <1>9, <1>11, <2>1
  <2>2. CASE k # Slots - 1
    <3>1. s.tts[Place(g, k)] = r.tts[Place(h, k + 1)] /\ k + 1 \in 0..(Slots - 1)
      BY <1>10, <2>2
    <3>2. /\ k >= c <=> k + 1 >= r.count
          /\ k + 1 < c <=> (k + 1) + 1 < r.count
          /\ k < c <=> k + 1 < r.count
      BY <1>1, <1>2
    <3>3. k < c => (a - n) + (k + 1) * SlotSamples = (a - (n - u)) + k * SlotSamples
      <4> SUFFICES ASSUME k < c
                   PROVE  (a - n) + (k + 1) * SlotSamples = (a - (n - u)) + k * SlotSamples
        OBVIOUS
      <4>1. r.count # 1
        BY <1>2
      <4>2. (k + 1) * SlotSamples = k * SlotSamples + SlotSamples /\ k * SlotSamples \in Nat
        BY Times
      <4> QED BY <1>1, <1>8, <4>1, <4>2
    <3>4. /\ k + 1 >= r.count => r.tts[Place(h, k + 1)].used = 0
          /\ (k + 1) + 1 < r.count => r.tts[Place(h, k + 1)].used = SlotSamples
          /\ k + 1 < r.count =>
               /\ r.tts[Place(h, k + 1)].used > 0
               /\ r.tts[Place(h, k + 1)].first = (a - n) + (k + 1) * SlotSamples
      BY <3>1 DEF RingIs
    <3> QED BY <3>1, <3>2, <3>3, <3>4
  <2> QED BY <2>1, <2>2
<1>15. RingIs(s, g, a, n - u)
  BY <1>1, <1>2, <1>4, <1>9, <1>12, <1>13, <1>14 DEF RingIs
<1> QED BY <1>5, <1>7, <1>13, <1>15 DEF s, g, u, c, HeadOut
-----------------------------------------------------------------------------
(* The playback's samples.                                                 *)

TheRing == [tts |-> tts, tail |-> tts_tail, count |-> tts_count]

\* Of a playback that goes on undisturbed every sample is rendered, in the
\* thread's hand or in the ring; at its end they all are rendered.
WholeSoFar ==
  /\ thread.at \in {"top", "wait", "gone"} => rendered + queued_samples = accepted
  /\ thread.at = "render" =>
       /\ rendered + thread.slot.used + queued_samples = accepted
       /\ thread.finish => ending /\ queued_samples = 0
  /\ thread.at \in {"finish", "device", "done"} /\ ~thread.failed =>
       ending /\ rendered = accepted

FlowInv ==
  /\ RingIs(TheRing, tts_head, accepted, queued_samples)
  /\ accepted <= MaxSamples /\ rendered \in Nat /\ rendered <= accepted
  /\ asked \subseteq {"end", "drop"} /\ (drop => "drop" \in asked)
  /\ ~active => tts_count = 0
  /\ ~open => ~active
  /\ thread.slot \in Slot /\ thread.finish \in BOOLEAN
  /\ thread.at = "render" =>
       thread.slot.first = rendered /\ rendered + thread.slot.used <= accepted
  /\ active /\ ~drop => WholeSoFar
  /\ DoneMeansAllRendered

\* What the ring's part says of its own.
LEMMA RingGives ==
  ASSUME FlowInv
  PROVE  /\ accepted \in Nat /\ queued_samples \in Nat /\ queued_samples <= accepted
         /\ queued_samples <= Slots * SlotSamples /\ tts_count \in 0..Slots
         /\ tts_count = 0 => queued_samples = 0
<1>1. TheRing.count = tts_count
  BY DEF TheRing
<1> QED BY <1>1 DEF FlowInv, RingIs

LEMMA FlowKept ==
  ASSUME FlowInv, UNCHANGED ring,
         UNCHANGED <<active, ending, drop, open, is_done, playback_failed, thread>>,
         UNCHANGED <<accepted, rendered, asked>>
  PROVE  FlowInv'
<1>1. TheRing' = TheRing /\ tts_head' = tts_head /\ queued_samples' = queued_samples
      /\ tts_count' = tts_count
  BY DEF ring, TheRing
<1>2. RingIs(TheRing', tts_head', accepted', queued_samples')
  BY <1>1 DEF FlowInv
<1>3. WholeSoFar' <=> WholeSoFar
  BY <1>1 DEF WholeSoFar
<1>4. DoneMeansAllRendered'
  BY DEF FlowInv, DoneMeansAllRendered
<1> QED BY <1>1, <1>2, <1>3, <1>4 DEF FlowInv

\* ClearQueue leaves an empty ring, whatever has been accepted.
LEMMA ClearQueueIs ==
  ASSUME ClearQueue, accepted' \in Nat
  PROVE  /\ RingIs(TheRing', tts_head', accepted', queued_samples')
         /\ tts_count' = 0 /\ queued_samples' = 0
<1>1. /\ TheRing' = [tts |-> [i \in Index |-> EmptySlot], tail |-> 0, count |-> 0]
      /\ tts_head' = 0 /\ tts_count' = 0 /\ queued_samples' = 0
  BY DEF ClearQueue, TheRing
<1> QED BY <1>1, ClearedIs

LEMMA FlowInit == Init => FlowInv
<1> SUFFICES ASSUME Init PROVE FlowInv
  OBVIOUS
<1>1. /\ tts = [i \in Index |-> EmptySlot] /\ tts_head = 0 /\ tts_tail = 0 /\ tts_count = 0
      /\ queued_samples = 0 /\ ~active /\ ~drop /\ thread = At("top")
      /\ accepted = 0 /\ rendered = 0 /\ asked = {}
  BY DEF Init, PlaybackInit
<1>2. RingIs(TheRing, tts_head, accepted, queued_samples)
  BY <1>1, ClearedIs DEF TheRing
<1>3. thread.slot \in Slot /\ thread.finish \in BOOLEAN /\ thread.at = "top"
  BY <1>1, RingSizes DEF At
<1> QED BY <1>1, <1>2, <1>3, RingSizes DEF FlowInv, DoneMeansAllRendered

\* The queue is emptied and the playback dropped, over, or not begun.
LEMMA FlowCleared ==
  ASSUME FlowInv, ClearQueue, active' => drop', UNCHANGED <<accepted, rendered>>,
         asked' \in {asked, asked \cup {"drop"}}, drop' => "drop" \in asked', ~open' => ~active',
         thread'.slot \in Slot, thread'.finish \in BOOLEAN,
         thread'.at = "render" => thread' = thread,
         DoneMeansAllRendered'
  PROVE  FlowInv'
<1>1. accepted' \in Nat /\ asked' \subseteq {"end", "drop"}
  BY RingGives DEF FlowInv
<1>2. /\ RingIs(TheRing', tts_head', accepted', queued_samples')
      /\ tts_count' = 0
  BY <1>1, ClearQueueIs
<1>3. thread'.at = "render" =>
        thread'.slot.first = rendered' /\ rendered' + thread'.slot.used <= accepted'
  BY DEF FlowInv
<1> QED BY <1>1, <1>2, <1>3 DEF FlowInv

\* BeginPlayback: nothing is queued and nothing rendered.
LEMMA FlowBegins ==
  ASSUME FlowInv, ClearQueue, thread' = thread, thread.at \notin {"render", "finish", "device", "done"},
         accepted' = 0, rendered' = 0, asked' = {}, ~drop', ~open' => ~active'
  PROVE  FlowInv'
<1>1. /\ RingIs(TheRing', tts_head', accepted', queued_samples')
      /\ tts_count' = 0 /\ queued_samples' = 0
  BY ClearQueueIs
<1>2. WholeSoFar'
  BY <1>1 DEF WholeSoFar
<1>3. DoneMeansAllRendered'
  BY DEF DoneMeansAllRendered
<1> QED BY <1>1, <1>2, <1>3, RingSizes DEF FlowInv

\* A packet comes into the ring behind what is there.
LEMMA FlowQueues ==
  ASSUME FlowInv, DeviceInv, NEW samples \in Nat, NEW follows, QueueTts24k(samples, follows)
  PROVE  FlowInv'
<1> DEFINE q == [i \in 1..samples |-> accepted + i - 1]
           after == PutAll(TheRing, q)
<1>1. /\ active /\ ~ending /\ Fits(samples)
      /\ accepted + samples <= MaxSamples
      /\ tts' = after.tts /\ tts_tail' = after.tail /\ tts_count' = after.count
      /\ queued_samples' = queued_samples + samples
      /\ accepted' = accepted + samples
      /\ UNCHANGED <<tts_head, active, ending, drop, open, results, thread, rendered, asked>>
  BY Zenon DEF QueueTts24k, PutAll, TheRing
<1> HIDE DEF after
<1>2. /\ accepted \in Nat /\ queued_samples \in Nat /\ rendered \in Nat /\ rendered <= accepted
      /\ Slots * SlotSamples \in Nat
  BY RingGives, RingSizes DEF FlowInv
<1>3. queued_samples + samples <= Slots * SlotSamples
  BY <1>1, <1>2 DEF Fits
<1>4. RingIs(after, tts_head, accepted + samples, queued_samples + samples)
  BY <1>3, PacketKeeps DEF FlowInv, after
<1>5. after = [tts |-> after.tts, tail |-> after.tail, count |-> after.count]
  BY <1>4 DEF RingIs
<1>6. TheRing' = after
  BY <1>1, <1>5 DEF TheRing
<1>7. RingIs(TheRing', tts_head', accepted', queued_samples')
  BY <1>1, <1>4, <1>6
<1>8. ~is_done'
  BY <1>1 DEF DeviceInv, results
<1>9. active' /\ ~drop' => WholeSoFar'
  <2> SUFFICES ASSUME ~drop PROVE WholeSoFar'
    BY <1>1
  <2>1. WholeSoFar /\ ~ending /\ ThreadIs(thread) /\ thread.slot.used \in Nat
    BY <1>1, RingSizes DEF FlowInv, DeviceInv, Slot
  <2>2. thread' = thread /\ ~ending' /\ rendered' = rendered
    BY <1>1, <2>1
  <2> QED BY <1>1, <1>2, <2>1, <2>2 DEF WholeSoFar
<1>10. thread'.at = "render" =>
        thread'.slot.first = rendered' /\ rendered' + thread'.slot.used <= accepted'
  <2>1. thread.slot.used \in Nat
    BY RingSizes DEF FlowInv, Slot
  <2> QED BY <1>1, <1>2, <2>1 DEF FlowInv
<1> QED BY <1>1, <1>2, <1>7, <1>8, <1>9, <1>10 DEF FlowInv, DoneMeansAllRendered

\* EndPlayback: what is queued becomes the rest of the playback.
LEMMA FlowEnds ==
  ASSUME FlowInv, DeviceInv, EndPlayback
  PROVE  FlowInv'
<1>1. /\ active /\ ~ending /\ ending' = TRUE /\ asked' = asked \cup {"end"}
      /\ UNCHANGED <<ring, active, drop, open, is_done, playback_failed, thread, accepted, rendered>>
  BY DEF EndPlayback, results
<1>2. TheRing' = TheRing /\ tts_head' = tts_head /\ queued_samples' = queued_samples
      /\ tts_count' = tts_count
  BY <1>1 DEF ring, TheRing
<1>3. RingIs(TheRing', tts_head', accepted', queued_samples')
  BY <1>1, <1>2 DEF FlowInv
<1>4. ~is_done'
  BY <1>1 DEF DeviceInv
<1>5. active' /\ ~drop' => WholeSoFar'
  BY <1>1, <1>2 DEF FlowInv, WholeSoFar
<1> QED BY <1>1, <1>2, <1>3, <1>4, <1>5 DEF FlowInv, DoneMeansAllRendered

LEMMA FlowDrops ==
  ASSUME FlowInv, DeviceInv, Drops
  PROVE  FlowInv'
<1>1. /\ active /\ ClearQueue /\ drop' = TRUE /\ asked' = asked \cup {"drop"}
      /\ UNCHANGED <<active, open, is_done, playback_failed, thread, accepted, rendered>>
  BY DEF Drops, DropPlayback, results
<1>2. ~is_done'
  BY <1>1 DEF DeviceInv
<1> QED BY <1>1, <1>2, FlowCleared DEF FlowInv, DoneMeansAllRendered

LEMMA FlowAsks ==
  ASSUME FlowInv, DeviceInv, AskPlayback
  PROVE  FlowInv'
<1>1. /\ ~active /\ ClearQueue
      /\ UNCHANGED <<active, drop, open, is_done, playback_failed, thread, accepted, rendered, asked>>
  BY DEF AskPlayback, flags, results, history
<1>2. ~drop
  BY <1>1 DEF DeviceInv
<1> QED BY <1>1, <1>2, FlowCleared DEF FlowInv, DoneMeansAllRendered

LEMMA FlowConverses ==
  ASSUME FlowInv, DeviceInv, Conversation
  PROVE  FlowInv'
<1>0. ASSUME UNCHANGED playbackVars PROVE FlowInv'
  BY <1>0, FlowKept DEF playbackVars, ring
<1>1. CASE TakeFrame
  BY <1>0, <1>1 DEF TakeFrame
<1>2. ASSUME NEW r, Does(r) PROVE FlowInv'
  BY <1>0, <1>2, FlowDrops DEF Does
<1>3. ASSUME NEW states, NEW r, Event(states, r) \/ Deadline(states, r)
      PROVE  FlowInv'
  BY <1>2, <1>3 DEF Event, Deadline
<1>4. CASE HandleFrame
  BY <1>2, <1>4 DEF HandleFrame
<1>5. CASE \/ Cancelled \/ ServerError \/ TouchInterrupt \/ LateStart
           \/ DrainEnds \/ CancelTimeout \/ TurnTimeout \/ NobodySpeaks
  BY <1>3, <1>5 DEF Cancelled, ServerError, TouchInterrupt, LateStart, DrainEnds, CancelTimeout,
                    TurnTimeout, NobodySpeaks
<1>6. CASE AudioStart
  BY <1>6, FlowAsks DEF AudioStart
<1>7. CASE Audio
  <2>1. 1 \in Nat
    OBVIOUS
  <2> QED BY <1>7, <2>1, FlowQueues DEF Audio
<1>8. CASE Done
  BY <1>0, <1>8, FlowEnds DEF Done
<1> QED BY <1>1, <1>4, <1>5, <1>6, <1>7, <1>8 DEF Conversation

\* The thread takes the oldest slot, or finds the playback over.
LEMMA FlowTakes ==
  ASSUME FlowInv, DeviceInv, TakeSlot
  PROVE  FlowInv'
<1>1. /\ thread.at = "wait"
      /\ drop \/ (active /\ (HeadReady \/ (ending /\ tts_count = 0)))
      /\ UNCHANGED <<active, ending, drop, open, is_done, playback_failed, accepted, rendered, asked>>
  BY DEF TakeSlot, results, history
<1>2. DoneMeansAllRendered'
  BY <1>1 DEF FlowInv, DoneMeansAllRendered
<1>3. /\ accepted \in Nat /\ queued_samples \in Nat /\ rendered \in Nat /\ rendered <= accepted
      /\ queued_samples <= accepted /\ tts_count \in 0..Slots
      /\ Slots \in Nat /\ SlotSamples \in Nat
  BY RingGives, RingSizes DEF FlowInv
<1>4. CASE ~drop /\ tts_count # 0
  <2> DEFINE s == tts[tts_head]
  <2>1. /\ tts' = [tts EXCEPT ![tts_head] = EmptySlot]
        /\ tts_head' = (tts_head + 1) % Slots
        /\ tts_count' = tts_count - 1 /\ tts_tail' = tts_tail
        /\ queued_samples' = queued_samples - s.used
        /\ thread' = [At("render") EXCEPT !.slot = s, !.finish = LastTaken]
    BY <1>4, Zenon DEF TakeSlot, HeadTaken
  <2>2. TheRing.tts = tts /\ TheRing.count = tts_count /\ TheRing.tail = tts_tail
    BY DEF TheRing
  <2>3. /\ s \in Slot /\ s.first = accepted - queued_samples /\ s.used <= queued_samples
        /\ tts_count = 1 => queued_samples = s.used
        /\ RingIs([tts |-> [tts EXCEPT ![tts_head] = EmptySlot], tail |-> tts_tail,
                   count |-> tts_count - 1],
                  (tts_head + 1) % Slots, accepted, queued_samples - s.used)
    <3>1. RingIs(TheRing, tts_head, accepted, queued_samples) /\ TheRing.count # 0
      BY <1>4, <2>2 DEF FlowInv
    <3> DEFINE r == TheRing
    <3>2. RingIs(r, tts_head, accepted, queued_samples) /\ r.count # 0
      BY <3>1
    <3>3. r.tts = tts /\ r.count = tts_count /\ r.tail = tts_tail
      BY <2>2
    <3> HIDE DEF r
    <3>4. /\ r.tts[tts_head] \in Slot /\ r.tts[tts_head].first = accepted - queued_samples
          /\ r.tts[tts_head].used <= queued_samples
          /\ r.count = 1 => queued_samples = r.tts[tts_head].used
          /\ RingIs(HeadOut(r, tts_head), (tts_head + 1) % Slots, accepted,
                    queued_samples - r.tts[tts_head].used)
      BY <3>2, TakenIs
    <3> QED BY <3>3, <3>4 DEF HeadOut
  <2> HIDE DEF s
  <2>4. RingIs(TheRing', tts_head', accepted', queued_samples')
    BY <1>1, <2>1, <2>3 DEF TheRing
  <2>5. thread'.at = "render" /\ thread'.slot = s /\ thread'.finish = LastTaken
    BY <2>1 DEF At
  <2>6. thread'.finish \in BOOLEAN /\ (thread'.finish => ending /\ tts_count = 1)
    BY <2>5 DEF LastTaken
  <2>7. active /\ s.used \in Nat
    BY <1>1, <1>3, <1>4, <2>3 DEF Slot
  <2>8. rendered + queued_samples = accepted
    <3>1. WholeSoFar
      BY <1>4, <2>7, Zenon DEF FlowInv
    <3>2. thread.at = "wait"
      BY <1>1
    <3> QED BY <3>1, <3>2 DEF WholeSoFar
  <2>9. /\ thread'.slot.first = rendered' /\ rendered' + thread'.slot.used <= accepted'
        /\ WholeSoFar'
    <3>1. s.first = rendered
      BY <1>3, <2>3, <2>8
    <3>2. rendered + s.used + (queued_samples - s.used) = accepted /\ rendered + s.used <= accepted
      BY <1>3, <2>3, <2>7, <2>8
    <3>3. tts_count = 1 => queued_samples - s.used = 0
      BY <1>3, <2>3
    <3> QED BY <1>1, <2>1, <2>5, <2>6, <3>1, <3>2, <3>3 DEF WholeSoFar
  <2> QED BY <1>1, <1>2, <2>3, <2>4, <2>5, <2>6, <2>7, <2>9 DEF FlowInv
<1>5. CASE ~(~drop /\ tts_count # 0)
  <2>1. /\ thread' = [At("finish") EXCEPT !.discard = drop] /\ UNCHANGED ring
    BY <1>5, Zenon DEF TakeSlot
  <2>2. /\ thread'.at = "finish" /\ ~thread'.finish /\ thread'.slot = EmptySlot
        /\ thread'.finish \in BOOLEAN
    BY <2>1 DEF At
  <2>3. /\ TheRing' = TheRing /\ tts_head' = tts_head /\ queued_samples' = queued_samples
        /\ tts_count' = tts_count
    BY <2>1 DEF ring, TheRing
  <2>4. RingIs(TheRing', tts_head', accepted', queued_samples')
    BY <1>1, <2>3 DEF FlowInv
  <2>5. ASSUME ~drop PROVE WholeSoFar'
    <3>1. tts_count = 0 /\ active /\ ending
      BY <1>1, <1>5, <2>5 DEF HeadReady
    <3>2. WholeSoFar
      BY <2>5, <3>1, Zenon DEF FlowInv
    <3>3. thread.at = "wait" /\ queued_samples = 0
      BY <1>1, <3>1, RingGives
    <3>4. rendered + queued_samples = accepted
      BY <3>2, <3>3 DEF WholeSoFar
    <3> QED BY <1>1, <1>3, <2>2, <3>1, <3>3, <3>4 DEF WholeSoFar
  <2> QED BY <1>1, <1>2, <2>2, <2>3, <2>4, <2>5, RingSizes DEF FlowInv
<1> QED BY <1>4, <1>5

\* The slot in its hand is rendered, or the device fails.
LEMMA FlowRenders ==
  ASSUME FlowInv, DeviceInv, Render
  PROVE  FlowInv'
<1>1. /\ thread.at = "render" /\ UNCHANGED ring
      /\ UNCHANGED <<active, ending, drop, open, is_done, playback_failed, accepted, asked>>
  BY DEF Render, flags, results
<1>2. active /\ ~is_done'
  BY <1>1 DEF DeviceInv
<1>3. /\ TheRing' = TheRing /\ tts_head' = tts_head /\ queued_samples' = queued_samples
      /\ tts_count' = tts_count
  BY <1>1 DEF ring, TheRing
<1>4. RingIs(TheRing', tts_head', accepted', queued_samples')
  BY <1>1, <1>3 DEF FlowInv
<1>5. /\ accepted \in Nat /\ queued_samples \in Nat /\ rendered \in Nat
      /\ thread.slot.used \in Nat /\ thread.finish \in BOOLEAN
      /\ rendered + thread.slot.used <= accepted
  BY <1>1, RingGives, RingSizes DEF FlowInv, Slot
<1>6. CASE /\ rendered' = rendered + thread.slot.used
           /\ thread' = IF thread.finish THEN At("finish") ELSE At("top")
  <2>1. /\ thread'.at = (IF thread.finish THEN "finish" ELSE "top")
        /\ thread'.slot = EmptySlot /\ ~thread'.finish /\ thread'.finish \in BOOLEAN
    BY <1>6 DEF At
  <2>2. ~drop => WholeSoFar'
    BY <1>1, <1>2, <1>3, <1>5, <1>6, <2>1 DEF FlowInv, WholeSoFar
  <2> QED BY <1>1, <1>2, <1>3, <1>4, <1>5, <1>6, <2>1, <2>2, RingSizes
          DEF FlowInv, DoneMeansAllRendered
<1>7. CASE thread' = [At("finish") EXCEPT !.failed = TRUE] /\ rendered' = rendered
  <2>1. /\ thread'.at = "finish" /\ thread'.failed
        /\ thread'.slot = EmptySlot /\ ~thread'.finish /\ thread'.finish \in BOOLEAN
    BY <1>7 DEF At
  <2>2. WholeSoFar'
    BY <2>1 DEF WholeSoFar
  <2> QED BY <1>1, <1>2, <1>3, <1>4, <1>7, <2>1, <2>2, RingSizes DEF FlowInv, DoneMeansAllRendered
<1> QED BY <1>6, <1>7 DEF Render

\* The thread moves on with what it has in its hand, or with nothing.
LEMMA FlowMoves ==
  ASSUME FlowInv, UNCHANGED ring,
         UNCHANGED <<active, ending, drop, open, is_done, playback_failed, accepted, rendered, asked>>,
         thread'.slot \in Slot, thread'.finish \in BOOLEAN, thread'.at # "render",
         WholeSoFar /\ active /\ ~drop => WholeSoFar'
  PROVE  FlowInv'
<1>1. /\ TheRing' = TheRing /\ tts_head' = tts_head /\ queued_samples' = queued_samples
      /\ tts_count' = tts_count
  BY DEF ring, TheRing
<1>2. RingIs(TheRing', tts_head', accepted', queued_samples')
  BY <1>1 DEF FlowInv
<1>3. DoneMeansAllRendered'
  BY DEF FlowInv, DoneMeansAllRendered
<1> QED BY <1>1, <1>2, <1>3 DEF FlowInv

LEMMA PlaybackThreadFlow ==
  ASSUME FlowInv, DeviceInv, PlaybackThread
  PROVE  FlowInv'
<1>0. ThreadIs(thread) /\ thread.slot \in Slot /\ thread.finish \in BOOLEAN
      /\ accepted \in Nat /\ rendered \in Nat
  BY RingGives DEF FlowInv, DeviceInv
<1>1. CASE RenderSlot
  BY <1>1, FlowRenders DEF RenderSlot
<1>2. CASE TakeSlot
  BY <1>2, FlowTakes
<1>3. CASE GraceExpires \/ StopSeen
  <2>1. /\ UNCHANGED ring /\ thread.at \in {"top", "wait"}
        /\ UNCHANGED <<active, ending, drop, open, is_done, playback_failed, accepted, rendered, asked>>
        /\ thread' \in {At("wait"), At("gone")}
    BY <1>3 DEF GraceExpires, StopSeen, flags, results, history
  <2>2. /\ thread'.at \in {"wait", "gone"} /\ thread'.slot \in Slot
        /\ thread'.finish \in BOOLEAN
    <3>1. \A p : At(p).at = p /\ At(p).slot = EmptySlot /\ At(p).finish \in BOOLEAN
      BY DEF At
    <3> QED BY <2>1, <3>1, RingSizes
  <2>3. WholeSoFar => WholeSoFar'
    BY <2>1, <2>2 DEF WholeSoFar, ring
  <2> QED BY <2>1, <2>2, <2>3, FlowMoves
<1>4. CASE NotStarved
  <2>1. /\ UNCHANGED ring /\ thread.at = "top" /\ thread' = At("wait")
        /\ UNCHANGED <<active, ending, drop, open, is_done, playback_failed>>
    BY <1>4 DEF NotStarved, flags, results
  <2>2. /\ thread'.at = "wait" /\ thread'.slot \in Slot /\ thread'.finish \in BOOLEAN
    BY <2>1, RingSizes DEF At
  <2>3. CASE active
    <3>1. UNCHANGED <<accepted, rendered, asked>>
      BY <1>4, <2>3 DEF NotStarved, history
    <3>2. WholeSoFar => WholeSoFar'
      BY <2>1, <2>2, <3>1 DEF WholeSoFar, ring
    <3> QED BY <2>1, <2>2, <3>1, <3>2, FlowMoves
  <2>4. CASE ~active
    <3>1. accepted' = 0 /\ rendered' = 0 /\ asked' = {} /\ ~active' /\ ~drop'
      BY <1>4, <2>1, <2>4 DEF NotStarved, DeviceInv
    <3>2. tts_count = 0 /\ queued_samples = 0
      BY <2>4, RingGives DEF FlowInv
    <3>3. /\ TheRing' = TheRing /\ tts_head' = tts_head /\ queued_samples' = 0
          /\ tts_count' = 0 /\ TheRing.count = 0
      BY <2>1, <3>2 DEF ring, TheRing
    <3>4. RingIs(TheRing', tts_head', accepted', queued_samples')
      <4>1. RingIs(TheRing, tts_head, accepted, 0)
        BY <3>2 DEF FlowInv
      <4> DEFINE r == TheRing
      <4>2. RingIs(r, tts_head, accepted, 0) /\ r.count = 0
        BY <3>3, <4>1
      <4> HIDE DEF r
      <4>3. RingIs(r, tts_head, 0, 0)
        BY <4>2, RingSizes DEF RingIs
      <4> QED BY <3>1, <3>3, <4>3 DEF r
    <3> QED BY <2>1, <2>2, <2>4, <3>1, <3>3, <3>4, RingSizes DEF FlowInv, DoneMeansAllRendered
  <2> QED BY <2>3, <2>4
<1>5. CASE FinishLooks
  <2>1. /\ thread.at = "finish" /\ UNCHANGED ring
        /\ UNCHANGED <<active, ending, drop, open, is_done, playback_failed, accepted, rendered, asked>>
        /\ thread' = [thread EXCEPT !.at = "device", !.discard = @ \/ drop,
                                    !.failed = @ /\ ~drop]
    BY <1>5 DEF FinishLooks, flags, results, history
  <2>2. /\ thread'.at = "device" /\ thread'.slot = thread.slot /\ thread'.finish = thread.finish
        /\ ~drop => (thread'.failed <=> thread.failed)
    BY <1>0, <2>1 DEF ThreadIs
  <2>3. ~drop => (WholeSoFar => WholeSoFar')
    BY <2>1, <2>2 DEF WholeSoFar, ring
  <2> QED BY <1>0, <2>1, <2>2, <2>3, FlowMoves
<1>6. CASE EndDevice
  <2>1. /\ thread.at = "device" /\ UNCHANGED ring
        /\ UNCHANGED <<active, ending, drop, open, is_done, playback_failed, accepted, rendered, asked>>
    BY <1>6, FinishDeviceKeeps DEF EndDevice, flags, results, history
  <2>2. /\ thread' \in {[thread EXCEPT !.at = "done"]} \cup
                        {[thread EXCEPT !.at = "done", !.failed = TRUE],
                         [thread EXCEPT !.at = "done", !.failed = FALSE]}
        /\ thread.failed => thread' = [thread EXCEPT !.at = "done"]
    BY <1>6, FinishDeviceKeeps DEF EndDevice
  <2>3. /\ thread'.at = "done" /\ thread'.slot = thread.slot /\ thread'.finish = thread.finish
        /\ thread.failed => thread'.failed
    BY <1>0, <2>2 DEF ThreadIs
  <2>4. WholeSoFar => WholeSoFar'
    BY <2>1, <2>3 DEF WholeSoFar, ring
  <2> QED BY <1>0, <2>1, <2>3, <2>4, FlowMoves
<1>7. CASE FinishedDone
  <2>1. /\ thread.at = "done" /\ active' = FALSE /\ drop' = FALSE /\ is_done' = TRUE /\ ClearQueue
        /\ playback_failed' = (thread.failed /\ ~(drop /\ ~thread.discard))
        /\ thread' = At("top") /\ UNCHANGED <<open, accepted, rendered, asked>>
    BY <1>7, Zenon DEF FinishedDone, FinishDone, history
  <2>2. thread'.at = "top" /\ thread'.slot \in Slot /\ thread'.finish \in BOOLEAN
    BY <2>1, RingSizes DEF At
  <2>3. DoneMeansAllRendered'
    <3> SUFFICES ASSUME ~playback_failed', asked = {"end"} PROVE rendered = accepted
      BY <2>1 DEF DoneMeansAllRendered
    <3>1. ~drop /\ active
      BY <2>1 DEF FlowInv, DeviceInv
    <3>2. ~thread.failed
      BY <2>1, <3>1
    <3>3. WholeSoFar
      BY <3>1, Zenon DEF FlowInv
    <3> QED BY <2>1, <3>2, <3>3 DEF WholeSoFar
  <2>4. ~active' /\ ~drop' /\ asked' = asked
    BY <2>1
  <2>5. UNCHANGED <<accepted, rendered>> /\ thread'.at # "render"
    BY <2>1, <2>2
  <2> QED BY <2>1, <2>2, <2>3, <2>4, <2>5, FlowCleared
<1> QED BY <1>1, <1>2, <1>3, <1>4, <1>5, <1>6, <1>7 DEF PlaybackThread

LEMMA FlowNext == FlowInv /\ DeviceInv /\ [Next]_vars => FlowInv'
<1> SUFFICES ASSUME FlowInv, DeviceInv, [Next]_vars PROVE FlowInv'
  OBVIOUS
<1>0. ASSUME UNCHANGED playbackVars PROVE FlowInv'
  BY <1>0, FlowKept DEF playbackVars, ring
<1>1. CASE Reply
  <2>1. CASE caller = "prepare" /\ Succeeded
    <3>1. ~active /\ ClearQueue /\ thread' = thread /\ accepted' = 0 /\ rendered' = 0
          /\ asked' = {} /\ drop' = FALSE /\ open' = open /\ open
      BY <1>1, <2>1 DEF Reply, BeginPlayback, Calls
    <3>2. thread.at \notin {"render", "finish", "device", "done"}
      BY <3>1 DEF DeviceInv
    <3>3. ~drop' /\ (~open' => ~active')
      BY <3>1
    <3> QED BY <3>1, <3>2, <3>3, FlowBegins
  <2>2. CASE caller = "prepare" /\ ~Succeeded
    <3>1. /\ ~active /\ ClearQueue
          /\ UNCHANGED <<active, drop, open, is_done, playback_failed, thread, accepted, rendered,
                         asked>>
      BY <1>1, <2>2 DEF Reply, BeginFails, flags, results, history
    <3>2. ~drop
      BY <3>1 DEF DeviceInv
    <3> QED BY <3>1, <3>2, FlowCleared DEF FlowInv, DoneMeansAllRendered
  <2>3. CASE caller # "prepare"
    BY <1>0, <1>1, <2>3 DEF Reply
  <2> QED BY <2>1, <2>2, <2>3
<1>2. CASE CommandTimesOut
  BY <1>0, <1>2 DEF CommandTimesOut
<1>3. CASE AnyCall
  <2>1. CASE AskPlayback
    BY <2>1, FlowAsks
  <2>2. CASE EndPlayback
    BY <2>2, FlowEnds
  <2>3. CASE \E samples \in 1..MaxPacket, follows \in BOOLEAN : QueueTts24k(samples, follows)
    <3>1. PICK samples \in 1..MaxPacket, follows \in BOOLEAN : QueueTts24k(samples, follows)
      BY <2>3
    <3>2. samples \in Nat
      OBVIOUS
    <3> QED BY <3>1, <3>2, FlowQueues
  <2>4. CASE Drops
    BY <2>4, FlowDrops
  <2>5. CASE UNCHANGED playbackVars
    BY <1>0, <2>5
  <2> QED BY <1>3, <2>1, <2>2, <2>3, <2>4, <2>5 DEF AnyCall
<1>4. CASE CloseEngine
  BY <1>4, FlowKept DEF CloseEngine, Close, flags, results, history
<1>5. CASE EngineJoined
  <2>1. /\ ClearQueue /\ thread' = thread /\ thread.at = "gone" /\ accepted' = 0 /\ rendered' = 0
        /\ asked' = {} /\ active' = FALSE /\ drop' = FALSE
    BY <1>5 DEF EngineJoined, Joined
  <2>2. ~active' /\ ~drop' /\ thread.at \notin {"render", "finish", "device", "done"}
    BY <2>1
  <2> QED BY <2>1, <2>2, FlowBegins
<1>6. CASE OpenEngine
  <2>1. /\ ~open /\ open' = TRUE /\ thread' = At("top")
        /\ UNCHANGED ring
        /\ UNCHANGED <<active, ending, drop, is_done, playback_failed, accepted, rendered, asked>>
    BY <1>6 DEF OpenEngine, Open, flags, results, history
  <2>2. thread'.at = "top" /\ thread'.slot \in Slot /\ thread'.finish \in BOOLEAN
    BY <2>1, RingSizes DEF At
  <2>3. ~active
    BY <2>1 DEF FlowInv
  <2>4. /\ TheRing' = TheRing /\ tts_head' = tts_head /\ queued_samples' = queued_samples
        /\ tts_count' = tts_count
    BY <2>1 DEF ring, TheRing
  <2>5. RingIs(TheRing', tts_head', accepted', queued_samples')
    BY <2>1, <2>4 DEF FlowInv
  <2> QED BY <2>1, <2>2, <2>3, <2>4, <2>5 DEF FlowInv, DoneMeansAllRendered
<1>7. CASE Conversation
  BY <1>7, FlowConverses
<1>8. CASE PlaybackThread
  BY <1>8, PlaybackThreadFlow
<1>9. CASE CaptureThread
  BY <1>0, <1>9 DEF CaptureThread
<1>10. CASE UNCHANGED vars
  BY <1>0, <1>10 DEF vars
<1> QED BY <1>1, <1>2, <1>3, <1>4, <1>5, <1>6, <1>7, <1>8, <1>9, <1>10 DEF Next

\* The ring's arithmetic follows from what its slots are.
LEMMA FlowSound == FlowInv => RingSound /\ RendersInOrder /\ DoneMeansAllRendered
<1> SUFFICES ASSUME FlowInv PROVE RingSound
  BY DEF FlowInv, RendersInOrder
<1> DEFINE r == TheRing
           u(k) == tts[(tts_head + k) % Slots]
<1>1. r.tts = tts /\ r.count = tts_count /\ r.tail = tts_tail
  BY DEF TheRing
<1>2. RingIs(r, tts_head, accepted, queued_samples)
  BY DEF FlowInv
<1>3. \A k : u(k) = r.tts[Place(tts_head, k)]
  BY <1>1 DEF Place
<1>4. /\ Slots \in Nat /\ Slots > 0 /\ SlotSamples \in Nat /\ tts_count \in 0..Slots
      /\ accepted \in Nat /\ queued_samples \in Nat
      /\ queued_samples <= accepted
  BY RingSizes, RingGives
<1> HIDE DEF r, u
<1>5. tts_tail = (tts_head + tts_count) % Slots
  BY <1>1, <1>2 DEF RingIs, Place
<1>6. ASSUME NEW k \in 0..(Slots - 1)
      PROVE  /\ k >= tts_count => u(k).used = 0
             /\ k + 1 < tts_count => u(k).used = SlotSamples
             /\ k < tts_count => /\ u(k).used > 0
                                 /\ u(k).first = (accepted - queued_samples) + k * SlotSamples
  BY <1>1, <1>2, <1>3 DEF RingIs
<1>7. tts_count # 0 =>
        /\ u(tts_count - 1).used > 0
        /\ queued_samples = (tts_count - 1) * SlotSamples + u(tts_count - 1).used
        /\ u(tts_count - 1).first + u(tts_count - 1).used = accepted
  <2> SUFFICES ASSUME tts_count # 0
               PROVE  /\ u(tts_count - 1).used > 0
                      /\ queued_samples = (tts_count - 1) * SlotSamples + u(tts_count - 1).used
                      /\ u(tts_count - 1).first + u(tts_count - 1).used = accepted
    OBVIOUS
  <2> DEFINE m == tts_count - 1
  <2>1. m \in 0..(Slots - 1) /\ m < tts_count /\ m \in Nat
    BY <1>4
  <2>2. queued_samples = m * SlotSamples + u(m).used
    BY <1>1, <1>2, <1>3 DEF RingIs
  <2> HIDE DEF m
  <2>3. u(m).used > 0 /\ u(m).first = (accepted - queued_samples) + m * SlotSamples
    BY <1>6, <2>1
  <2>4. m * SlotSamples \in Nat
    BY <2>1, Times
  <2>5. u(m).used \in Nat
    <3>1. u(m) \in Slot
      <4>1. Place(tts_head, m) \in Index
        <5>1. tts_head \in Index /\ m \in 0..Slots
          BY <1>2, <1>4, <2>1 DEF RingIs
        <5> QED BY <5>1, PlaceIs
      <4> QED BY <1>2, <1>3, <4>1 DEF RingIs
    <3> QED BY <1>4, <3>1 DEF Slot
  <2>6. u(m).first + u(m).used = accepted
    BY <1>4, <2>2, <2>3, <2>4, <2>5
  <2> QED BY <2>2, <2>3, <2>6 DEF m
<1>8. ASSUME NEW k \in 0..(Slots - 1), k + 1 < tts_count
      PROVE  u(k + 1).first = u(k).first + SlotSamples
  <2>1. k \in Nat /\ k + 1 \in 0..(Slots - 1) /\ k < tts_count
    BY <1>4, <1>8
  <2>2. /\ u(k).first = (accepted - queued_samples) + k * SlotSamples
        /\ u(k + 1).first = (accepted - queued_samples) + (k + 1) * SlotSamples
    BY <1>6, <1>8, <2>1
  <2>3. (k + 1) * SlotSamples = k * SlotSamples + SlotSamples /\ k * SlotSamples \in Nat
    BY <2>1, Times
  <2> QED BY <1>4, <2>2, <2>3
<1> QED BY <1>5, <1>6, <1>7, <1>8 DEF RingSound, u
-----------------------------------------------------------------------------
(* The ranges of the actor's counters.                                     *)

Ranged(a) ==
  /\ a.cooldown <= BargeRetryCooldown /\ a.quiet <= BargeReferenceLow
  /\ a.probe = "low" => a.quiet < BargeReferenceLow
  /\ a.silence <= BargeTailFreeze /\ a.follow <= FollowUpNear /\ a.pre <= BargeBuffer

\* The pre-roll outside a probe is shorter than its buffer.
LEMMA PreRollFits == PreRoll <= BargeBuffer
BY BargeAssumption DEF BargeAssumption

LEMMA ResetsRanged ==
  ASSUME NEW a \in ActorType, Ranged(a)
  PROVE  /\ Ranged(ResetBargeTurn(ResetBargeProbe(a))) /\ Ranged(NoPreRoll(a))
         /\ Ranged(ResetBargeProbe(a)) /\ Ranged(ResetBargeTurn(a))
<1>1. Ranged(ResetBargeTurn(ResetBargeProbe(a)))
  BY Sizes DEF Ranged, ActorType, ResetBargeTurn, ResetBargeProbe
<1>2. Ranged(NoPreRoll(a))
  BY Sizes DEF Ranged, ActorType, NoPreRoll
<1>3. Ranged(ResetBargeProbe(a))
  BY Sizes DEF Ranged, ActorType, ResetBargeProbe
<1>4. Ranged(ResetBargeTurn(a))
  BY Sizes DEF Ranged, ActorType, ResetBargeTurn
<1> QED BY <1>1, <1>2, <1>3, <1>4

LEMMA LeavesRanged ==
  ASSUME NEW a \in ActorType, Ranged(a)
  PROVE  Ranged(FollowUp(a)) /\ Ranged(AbortCurrent(a).actor) /\ Ranged(NewActor)
<1> DEFINE b == ResetBargeTurn(ResetBargeProbe(a))
<1>1. b \in ActorType /\ Ranged(b)
  BY ResetsGood, ResetsRanged
<1>2. FollowUp(a) = [b EXCEPT !.follow = 0, !.finish = FALSE, !.state = "FollowUp"]
      /\ AbortCurrent(a).actor = [b EXCEPT !.finish = TRUE, !.state = "CancelPending"]
  BY DEF FollowUp, AbortCurrent, Result
<1> HIDE DEF b
<1>3. Ranged(NewActor)
  BY Sizes DEF Ranged, NewActor
<1>4. Ranged([b EXCEPT !.follow = 0, !.finish = FALSE, !.state = "FollowUp"])
  BY <1>1, Sizes DEF Ranged, ActorType
<1>5. Ranged([b EXCEPT !.finish = TRUE, !.state = "CancelPending"])
  BY <1>1 DEF Ranged, ActorType
<1> QED BY <1>2, <1>3, <1>4, <1>5

LEMMA StartTurnRanged ==
  ASSUME NEW a \in ActorType, Ranged(a), NEW ended \in BOOLEAN
  PROVE  StartTurn(a, ended) \in ActorType /\ Ranged(StartTurn(a, ended))
<1> DEFINE n == NoPreRoll(a)
           state == IF ended THEN "Response" ELSE "Capturing"
<1>1. n \in ActorType /\ Ranged(n) /\ state \in States
  BY NoPreRollGood, ResetsRanged DEF States
<1>2. StartTurn(a, ended) = [n EXCEPT !.state = state]
  BY DEF StartTurn
<1> HIDE DEF n, state
<1>3. [n EXCEPT !.state = state] \in ActorType
  BY <1>1 DEF ActorType
<1>4. Ranged([n EXCEPT !.state = state])
  BY <1>1 DEF Ranged, ActorType
<1> QED BY <1>2, <1>3, <1>4

LEMMA SavedRanged ==
  ASSUME NEW a \in ActorType, Ranged(a), NEW f \in Frame, NEW loud \in BOOLEAN
  PROVE  Ranged(Saved(a, f, loud))
<1> DEFINE u == Unfrozen(a, f)
           belongs == Belongs(u, loud)
           limit == IF u.probe # "idle" \/ Waiting(u) THEN BargeBuffer ELSE PreRoll
           said == IF belongs THEN u.spoken + 1 ELSE 0
           kept == IF u.pre < limit THEN u.pre + 1 ELSE u.pre
           over == IF said > kept THEN kept ELSE said
           miss == belongs /\ (u.missed \/ said > kept)
           waits == [u EXCEPT !.missed = @ \/ (f.near /\ ~u.ended)]
           x == [u EXCEPT !.full = TRUE]
           y == [u EXCEPT !.pre = kept, !.spoken = over, !.missed = miss]
<1>1. u \in ActorType
  BY UnfrozenGood
<1>2. Ranged(u)
  BY Sizes DEF Ranged, ActorType, Unfrozen
<1>3. Saved(a, f, loud) \in {u, waits, x, y}
  BY DEF Saved, Save
<1> HIDE DEF u
<1>4. u.pre \in Nat /\ limit \in Nat /\ limit <= BargeBuffer /\ BargeBuffer \in Nat
  BY <1>1, Sizes, PreRollFits DEF ActorType
<1> HIDE DEF limit, belongs
<1>5. kept <= BargeBuffer
  BY <1>2, <1>4 DEF Ranged
<1> HIDE DEF kept, over, miss
<1>6. Ranged(waits) /\ Ranged(x) /\ Ranged(y)
  BY <1>1, <1>2, <1>5 DEF Ranged, ActorType
<1> HIDE DEF waits, x, y
<1> QED BY <1>2, <1>3, <1>6

LEMMA HandleBargeRanged ==
  ASSUME NEW b \in ActorType, Ranged(b), NEW f \in Frame, NEW loud \in BOOLEAN
  PROVE  Ranged(HandleBarge(b, f, loud).actor)
<1>1. Ranged(Rejected(b).actor)
  <2> DEFINE c == ResetBargeTurn(ResetBargeProbe(b))
  <2>1. c \in ActorType /\ Ranged(c)
    BY ResetsGood, ResetsRanged
  <2>2. Rejected(b).actor = [c EXCEPT !.cooldown = BargeRetryCooldown]
    BY DEF Rejected, Result
  <2> HIDE DEF c
  <2> QED BY <2>1, <2>2, Sizes DEF Ranged, ActorType
<1>2. CASE b.probe = "idle"
  <2> DEFINE c1 == [b EXCEPT !.cooldown = @ - 1]
             c2 == [b EXCEPT !.frames = 0]
             c3 == [b EXCEPT !.frames = @ + 1]
             k == KeepNewest(b, BargeCandidate)
             r == ResetBargeTurn(k)
             c4 == [r EXCEPT !.frames = 0, !.probe = "low"]
  <2>1. /\ b.cooldown # 0 => Ranged(c1)
        /\ Ranged(c2) /\ Ranged(c3)
    BY Sizes DEF Ranged, ActorType
  <2>2. k \in ActorType /\ Ranged(k)
    BY Sizes DEF Ranged, ActorType, KeepNewest
  <2> HIDE DEF k
  <2>3. r \in ActorType /\ Ranged(r) /\ r.quiet = 0
    <3>1. r \in ActorType /\ r.quiet = 0
      BY <2>2 DEF ResetBargeTurn, ActorType
    <3> QED BY <2>2, <3>1, ResetsRanged
  <2> HIDE DEF r
  <2>4. Ranged(c4)
    BY <2>3, Sizes DEF Ranged, ActorType
  <2>5. HandleBarge(b, f, loud) \in {Stay(c2), Stay(c3), Result(c4, {"mute"})}
        \/ (b.cooldown # 0 /\ HandleBarge(b, f, loud) = Stay(c1))
    BY <1>2 DEF HandleBarge, Candidate, r, k
  <2> HIDE DEF c1, c2, c3, c4
  <2>6. /\ Stay(c1).actor = c1 /\ Stay(c2).actor = c2 /\ Stay(c3).actor = c3
        /\ Result(c4, {"mute"}).actor = c4
    BY ResultIs
  <2>7. HandleBarge(b, f, loud).actor \in {c2, c3, c4}
        \/ (b.cooldown # 0 /\ HandleBarge(b, f, loud).actor = c1)
    BY <2>5, <2>6
  <2> QED BY <2>1, <2>4, <2>7
<1>3. CASE b.probe = "low"
  <2> DEFINE low == IF f.reference THEN 0 ELSE b.quiet + 1
             c1 == [b EXCEPT !.frames = b.frames + 1, !.quiet = low]
             c2 == [b EXCEPT !.frames = 0, !.quiet = low, !.probe = "clear"]
  <2>1. low \in Nat /\ low <= BargeReferenceLow
    BY <1>3, Sizes DEF Ranged, ActorType
  <2>2. \/ HandleBarge(b, f, loud) = Rejected(b)
        \/ low < BargeReferenceLow /\ HandleBarge(b, f, loud) = Stay(c1)
        \/ HandleBarge(b, f, loud) = Stay(c2)
    BY <1>3 DEF HandleBarge, AwaitReferenceLow
  <2> HIDE DEF low
  <2>3. (low < BargeReferenceLow => Ranged(c1)) /\ Ranged(c2)
    BY <2>1, <1>3 DEF Ranged, ActorType
  <2> HIDE DEF c1, c2
  <2> QED BY <1>1, <2>2, <2>3, ResultIs
<1>4. CASE b.probe = "clear"
  <2> DEFINE c1 == [b EXCEPT !.frames = @ + 1]
             c2 == [b EXCEPT !.frames = 0, !.probe = "verify"]
  <2>1. HandleBarge(b, f, loud) \in {Rejected(b), Stay(c1), Stay(c2)}
    BY <1>4 DEF HandleBarge, AwaitEchoClear
  <2>2. Ranged(c1) /\ Ranged(c2)
    BY <1>4 DEF Ranged, ActorType
  <2> HIDE DEF c1, c2
  <2> QED BY <1>1, <2>1, <2>2, ResultIs
<1>5. CASE b.probe = "verify"
  <2> DEFINE c1 == [b EXCEPT !.frames = @ + 1]
             r == ResetBargeProbe(b)
             c2 == [r EXCEPT !.admitted = TRUE, !.ended = FALSE, !.silence = 0, !.full = FALSE,
                             !.finish = FALSE, !.state = "CancelPending"]
  <2>1. \/ HandleBarge(b, f, loud) \in {Rejected(b), Stay(c1)}
        \/ HandleBarge(b, f, loud) = Result(c2, {"drop", "unmute"})
    BY <1>5 DEF HandleBarge, Verify, ConfirmBarge
  <2>2. r \in ActorType /\ Ranged(r)
    <3>1. r \in ActorType
      BY DEF ActorType, ResetBargeProbe
    <3> QED BY <3>1, ResetsRanged
  <2> HIDE DEF r
  <2>3. Ranged(c1) /\ Ranged(c2)
    BY <2>2, <1>5, Sizes DEF Ranged, ActorType
  <2> HIDE DEF c1, c2
  <2> QED BY <1>1, <2>1, <2>3, ResultIs
<1>6. b.probe \in {"idle", "low", "clear", "verify"}
  BY DEF ActorType
<1> QED BY <1>2, <1>3, <1>4, <1>5, <1>6

LEMMA OnFrameRanged ==
  ASSUME NEW a, Good(a), Ranged(a), NEW f \in Frame, NEW loud \in BOOLEAN, NEW wake \in BOOLEAN
  PROVE  Ranged(OnFrame(a, f, loud, wake).actor)
<1> DEFINE b == Saved(a, f, loud)
           n == NoPreRoll(a)
<1>1. a \in ActorType /\ f.gap \in BOOLEAN
  BY DEF Good, Frame
<1>2. b \in ActorType /\ Ranged(b) /\ b.state \in States
  BY <1>1, SavedGood, SavedRanged DEF SavedWell, ActorType
<1>3. n \in ActorType /\ Ranged(n)
  BY <1>1, NoPreRollGood, ResetsRanged
<1>4. CASE f.gap
  <2> DEFINE r == ResetBargeTurn(n)
             c1 == [r EXCEPT !.finish = TRUE]
             c2 == [n EXCEPT !.state = "Wake"]
  <2>1. OnFrame(a, f, loud, wake) \in {Stay(c1), AbortCurrent(n), Result(c2, {"drop", "reset"})}
    BY <1>4 DEF OnFrame, Discontinuity, n, r
  <2> HIDE DEF n
  <2>2. r \in ActorType /\ Ranged(r)
    <3>1. r \in ActorType
      BY <1>3 DEF ActorType, ResetBargeTurn
    <3> QED BY <1>3, <3>1, ResetsRanged
  <2> HIDE DEF r
  <2>3. Ranged(c1) /\ Ranged(c2)
    BY <1>3, <2>2 DEF Ranged, ActorType
  <2>4. Ranged(AbortCurrent(n).actor)
    BY <1>3, LeavesRanged
  <2> HIDE DEF c1, c2
  <2>5. Stay(c1).actor = c1 /\ Result(c2, {"drop", "reset"}).actor = c2
    BY ResultIs
  <2> QED BY <2>1, <2>3, <2>4, <2>5
<1> HIDE DEF b, n
<1>5. CASE ~f.gap /\ b.state \in Answering
  <2>1. OnFrame(a, f, loud, wake) = HandleBarge(b, f, loud)
    BY <1>5 DEF OnFrame, b, Answering
  <2> QED BY <1>2, <2>1, HandleBargeRanged
<1>6. CASE ~f.gap /\ b.state = "Wake"
  <2> DEFINE c == [b EXCEPT !.state = "Speech"]
  <2>1. OnFrame(a, f, loud, wake) \in {Result(c, {"reset"}), Stay(b)}
    BY <1>6 DEF OnFrame, b, Answering
  <2>2. Ranged(c)
    BY <1>2 DEF Ranged, ActorType
  <2> HIDE DEF c
  <2>3. Result(c, {"reset"}).actor = c /\ Stay(b).actor = b
    BY ResultIs
  <2> QED BY <1>2, <2>1, <2>2, <2>3
<1>7. CASE ~f.gap /\ b.state = "Speech"
  <2>1. OnFrame(a, f, loud, wake) \in {Stay(StartTurn(b, FALSE)), Stay(b)}
    BY <1>7 DEF OnFrame, b, Answering
  <2>2. Ranged(StartTurn(b, FALSE))
    BY <1>2, StartTurnRanged
  <2>3. Stay(StartTurn(b, FALSE)).actor = StartTurn(b, FALSE) /\ Stay(b).actor = b
    BY ResultIs
  <2> QED BY <1>2, <2>1, <2>2, <2>3
<1>8. CASE ~f.gap /\ b.state = "FollowUp"
  <2> DEFINE c1 == [b EXCEPT !.follow = 0]
             c2 == [b EXCEPT !.follow = @ + 1]
             s == StartTurn(b, FALSE)
             c3 == [s EXCEPT !.follow = 0]
  <2>1. OnFrame(a, f, loud, wake) = AwaitFollowUp(b, f)
    BY <1>8 DEF OnFrame, b, Answering
  <2>2. \/ AwaitFollowUp(b, f) \in {Stay(c1), Stay(c3)}
        \/ b.follow + 1 < FollowUpNear /\ AwaitFollowUp(b, f) = Stay(c2)
    BY DEF AwaitFollowUp
  <2>3. s \in ActorType /\ Ranged(s)
    BY <1>2, StartTurnRanged
  <2> HIDE DEF s
  <2>4. Ranged(c1) /\ Ranged(c3) /\ (b.follow + 1 < FollowUpNear => Ranged(c2))
    BY <1>2, <2>3, Sizes DEF Ranged, ActorType
  <2> HIDE DEF c1, c2, c3
  <2>5. Stay(c1).actor = c1 /\ Stay(c2).actor = c2 /\ Stay(c3).actor = c3
    BY ResultIs
  <2> QED BY <2>1, <2>2, <2>4, <2>5
<1>9. CASE ~f.gap /\ b.state = "Capturing"
  <2> DEFINE c == [b EXCEPT !.ended = FALSE, !.state = "Response"]
  <2>1. OnFrame(a, f, loud, wake) \in {Stay(c), Stay(b)}
    BY <1>9 DEF OnFrame, b, Answering
  <2>2. Ranged(c)
    BY <1>2 DEF Ranged, ActorType
  <2> HIDE DEF c
  <2>3. Stay(c).actor = c /\ Stay(b).actor = b
    BY ResultIs
  <2> QED BY <1>2, <2>1, <2>2, <2>3
<1>10. CASE ~f.gap /\ b.state = "CancelPending"
  <2> DEFINE q == IF f.near THEN 0 ELSE IF b.silence < BargeTailFreeze THEN b.silence + 1
                                       ELSE b.silence
             e == b.ended \/ f.edge = "ended"
             c == [b EXCEPT !.silence = q, !.ended = e]
  <2>1. q \in Nat /\ q <= BargeTailFreeze
    BY <1>2, Sizes DEF ActorType, Ranged
  <2>2. OnFrame(a, f, loud, wake) = Stay(c)
    BY <1>10 DEF OnFrame, b, Answering, Track
  <2> HIDE DEF q, e
  <2>3. Ranged(c)
    BY <1>2, <2>1 DEF Ranged, ActorType
  <2> HIDE DEF c
  <2> QED BY <2>2, <2>3, ResultIs
<1>11. CASE ~f.gap /\ b.state = "Response"
  <2>1. OnFrame(a, f, loud, wake) = Stay(b)
    BY <1>11 DEF OnFrame, b, Answering
  <2> QED BY <1>2, <2>1, ResultIs
<1> QED BY <1>1, <1>2, <1>4, <1>5, <1>6, <1>7, <1>8, <1>9, <1>10, <1>11 DEF States, Answering

LEMMA EventsRanged ==
  ASSUME NEW a \in ActorType, Ranged(a), NEW normal \in BOOLEAN
  PROVE  /\ Ranged(FinishTurn(a, normal).actor) /\ Ranged(AbortCurrent(a).actor)
         /\ Ranged(LoseConnection(a).actor) /\ Ranged(CompleteCancel(a).actor)
         /\ Ranged(Result([NoPreRoll(a) EXCEPT !.state = "Wake"], {"reset"}).actor)
<1>1. ASSUME NEW b \in ActorType, Ranged(b), NEW n PROVE Ranged(FinishTurn(b, n).actor)
  BY <1>1, LeavesRanged, ResultIs DEF FinishTurn
<1>2. Ranged(LoseConnection(a).actor)
  BY LeavesRanged, ResultIs DEF LoseConnection
<1> DEFINE n == NoPreRoll(a)
           w == [n EXCEPT !.state = "Wake"]
           s == StartTurn(a, a.ended)
           c == [s EXCEPT !.admitted = FALSE, !.ended = FALSE, !.finish = FALSE]
<1>3. n \in ActorType /\ Ranged(n)
  BY NoPreRollGood, ResetsRanged
<1>4. s \in ActorType /\ Ranged(s)
  <2>1. a.ended \in BOOLEAN
    BY DEF ActorType
  <2> QED BY <2>1, StartTurnRanged
<1>5. CompleteCancel(a) \in {FinishTurn(a, FALSE), Result(c, {"drop"}), FinishTurn(n, FALSE)}
  BY DEF CompleteCancel, ResumeAfterBarge
<1> HIDE DEF n, s
<1>6. Ranged(w) /\ Ranged(c)
  BY <1>3, <1>4 DEF Ranged, ActorType
<1> HIDE DEF w, c
<1>7. Result(w, {"reset"}).actor = w /\ Result(c, {"drop"}).actor = c
  BY ResultIs
<1>8. Ranged(CompleteCancel(a).actor)
  <2>1. Ranged(FinishTurn(a, FALSE).actor) /\ Ranged(FinishTurn(n, FALSE).actor)
    BY <1>1, <1>3
  <2> QED BY <1>5, <1>6, <1>7, <2>1
<1>9. Ranged(AbortCurrent(a).actor)
  BY LeavesRanged
<1> QED BY <1>1, <1>2, <1>6, <1>7, <1>8, <1>9 DEF n, w

LEMMA RangedNext ==
  FramesInv /\ UtteranceInv /\ Ranged(act) /\ [Next]_vars => Ranged(act')
<1> SUFFICES ASSUME FramesInv, UtteranceInv, Ranged(act), [Next]_vars PROVE Ranged(act')
  OBVIOUS
<1>1. Good(act) /\ act \in ActorType
  BY DEF UtteranceInv, Good
<1>2. ASSUME act' = act PROVE Ranged(act')
  BY <1>2
<1>3. CASE UNCHANGED vars
  BY <1>2, <1>3 DEF vars, actorVars
<1>4. CASE Reply
  <2> DEFINE b == ResetBargeProbe(act)
             state == IF Anyone THEN b.state ELSE "Playing"
  <2>1. act' = act \/ act' = [b EXCEPT !.state = state]
    BY <1>4 DEF Reply
  <2>2. b \in ActorType /\ Ranged(b)
    <3>1. b \in ActorType
      BY <1>1 DEF ActorType, ResetBargeProbe
    <3> QED BY <1>1, <3>1, ResetsRanged
  <2> HIDE DEF b, state
  <2>3. Ranged([b EXCEPT !.state = state])
    BY <2>2 DEF Ranged, ActorType
  <2> QED BY <1>2, <2>1, <2>3
<1>5. CASE CommandTimesOut \/ AnyCall \/ CloseEngine \/ EngineJoined \/ OpenEngine
           \/ PlaybackThread \/ CaptureThread
  BY <1>2, <1>5 DEF CommandTimesOut, AnyCall, AskPlayback, CloseEngine, EngineJoined, OpenEngine,
                    PlaybackThread, CaptureThread, actorVars
<1>6. CASE Conversation
  <2>1. CASE TakeFrame \/ AudioStart \/ Audio
    BY <1>2, <2>1 DEF TakeFrame, AudioStart, AskPlayback, Audio, actorVars
  <2>2. CASE HandleFrame
    <3>1. PICK loud \in {held[1].near, FALSE}, wake \in BOOLEAN :
            Does(OnFrame(act, held[1], loud, wake))
      BY <2>2 DEF HandleFrame
    <3>2. held[1] \in Frame
      BY <2>2 DEF HandleFrame, FramesInv
    <3>3. loud \in BOOLEAN
      BY <3>2 DEF Frame
    <3>4. Ranged(OnFrame(act, held[1], loud, wake).actor)
      BY <1>1, <3>2, <3>3, OnFrameRanged
    <3>5. act' = OnFrame(act, held[1], loud, wake).actor
      BY <3>1 DEF Does
    <3> QED BY <3>4, <3>5
  <2>3. ASSUME NEW states, NEW r, Event(states, r) \/ Deadline(states, r), Ranged(r.actor)
        PROVE  Ranged(act')
    BY <2>3 DEF Event, Deadline, Does
  <2>4. /\ Ranged(FinishTurn(act, FALSE).actor) /\ Ranged(FinishTurn(act, TRUE).actor)
        /\ Ranged(AbortCurrent(act).actor)
        /\ Ranged(LoseConnection(act).actor) /\ Ranged(CompleteCancel(act).actor)
        /\ Ranged(Result([NoPreRoll(act) EXCEPT !.state = "Wake"], {"reset"}).actor)
    BY <1>1, EventsRanged
  <2>5. CASE \/ Cancelled \/ ServerError \/ TouchInterrupt \/ LateStart
             \/ DrainEnds \/ CancelTimeout \/ TurnTimeout \/ NobodySpeaks
    BY <2>3, <2>4, <2>5 DEF Cancelled, ServerError, TouchInterrupt, LateStart, DrainEnds,
                            CancelTimeout, TurnTimeout, NobodySpeaks
  <2>6. CASE Done
    <3>1. act' = [act EXCEPT !.state = "Draining"]
      BY <2>6 DEF Done
    <3> QED BY <1>1, <3>1 DEF Ranged, ActorType
  <2> QED BY <1>6, <2>1, <2>2, <2>5, <2>6 DEF Conversation
<1> QED BY <1>3, <1>4, <1>5, <1>6 DEF Next
-----------------------------------------------------------------------------
(* The types of the rest.                                                  *)

FlagsOK ==
  /\ ending \in BOOLEAN /\ started \in BOOLEAN /\ rebuffering \in BOOLEAN
  /\ sequence_set \in BOOLEAN /\ stop \in BOOLEAN /\ open \in BOOLEAN

LEMMA FlagsNext == FlagsOK /\ [Next]_vars => FlagsOK'
<1> SUFFICES ASSUME FlagsOK, [Next]_vars PROVE FlagsOK'
  OBVIOUS
<1> USE DEF FlagsOK
<1>0. ASSUME UNCHANGED <<ending, started, rebuffering, sequence_set, stop, open>> PROVE FlagsOK'
  BY <1>0
<1>1. CASE UNCHANGED playbackVars
  BY <1>0, <1>1 DEF playbackVars
<1>2. ASSUME Drops PROVE FlagsOK'
  BY <1>0, <1>2 DEF Drops, DropPlayback
<1>3. ASSUME AskPlayback PROVE FlagsOK'
  BY <1>0, <1>3 DEF AskPlayback, flags
<1>4. ASSUME EndPlayback PROVE FlagsOK'
  BY <1>4 DEF EndPlayback
<1>5. ASSUME NEW samples, NEW follows, QueueTts24k(samples, follows) PROVE FlagsOK'
  <2>1. /\ sequence_set' = TRUE
        /\ UNCHANGED <<ending, started, rebuffering, stop, open>>
    BY <1>5, Zenon DEF QueueTts24k
  <2> QED BY <2>1
<1>6. CASE Reply
  <2>1. CASE BeginPlayback
    BY <2>1 DEF BeginPlayback
  <2>2. CASE BeginFails
    BY <1>0, <2>2 DEF BeginFails, flags
  <2> QED BY <1>1, <1>6, <2>1, <2>2 DEF Reply
<1>7. CASE CommandTimesOut
  BY <1>1, <1>7 DEF CommandTimesOut
<1>8. CASE AnyCall
  <2>1. CASE UNCHANGED playbackVars
    BY <1>1, <2>1
  <2> QED BY <1>2, <1>3, <1>4, <1>5, <1>8, <2>1 DEF AnyCall
<1>9. CASE CloseEngine
  BY <1>9 DEF CloseEngine, Close, flags
<1>10. CASE EngineJoined
  BY <1>10 DEF EngineJoined, Joined
<1>11. CASE OpenEngine
  BY <1>11 DEF OpenEngine, Open, flags
<1>12. CASE Conversation
  <2>1. ASSUME NEW r, Does(r) PROVE FlagsOK'
    BY <1>1, <1>2, <2>1 DEF Does
  <2>2. ASSUME NEW states, NEW r, Event(states, r) \/ Deadline(states, r) PROVE FlagsOK'
    BY <2>1, <2>2 DEF Event, Deadline
  <2>3. CASE TakeFrame
    BY <1>1, <2>3 DEF TakeFrame
  <2>4. CASE HandleFrame
    BY <2>1, <2>4 DEF HandleFrame
  <2>5. CASE \/ Cancelled \/ ServerError \/ TouchInterrupt \/ LateStart
             \/ DrainEnds \/ CancelTimeout \/ TurnTimeout \/ NobodySpeaks
    BY <2>2, <2>5 DEF Cancelled, ServerError, TouchInterrupt, LateStart, DrainEnds,
                      CancelTimeout, TurnTimeout, NobodySpeaks
  <2>6. CASE AudioStart
    BY <1>3, <2>6 DEF AudioStart
  <2>7. CASE Audio
    BY <1>5, <2>7 DEF Audio
  <2>8. CASE Done
    BY <1>1, <1>4, <2>8 DEF Done
  <2> QED BY <1>12, <2>3, <2>4, <2>5, <2>6, <2>7, <2>8 DEF Conversation
<1>13. CASE PlaybackThread
  <2>1. CASE RenderSlot
    BY <1>0, <2>1 DEF RenderSlot, Render, flags
  <2>2. CASE EndDevice
    BY <1>0, <2>2, FinishDeviceKeeps DEF EndDevice, flags
  <2>3. CASE FinishedDone
    BY <2>3 DEF FinishedDone, FinishDone
  <2>4. CASE GraceExpires
    BY <2>4 DEF GraceExpires
  <2>5. CASE NotStarved \/ StopSeen \/ FinishLooks
    BY <1>0, <2>5 DEF NotStarved, StopSeen, FinishLooks, flags
  <2>6. CASE TakeSlot
    <3>1. /\ started' \in {TRUE, started} /\ rebuffering' \in {FALSE, rebuffering}
          /\ UNCHANGED <<ending, sequence_set, stop, open>>
      BY <2>6, Zenon DEF TakeSlot
    <3> QED BY <3>1
  <2> QED BY <1>13, <2>1, <2>2, <2>3, <2>4, <2>5, <2>6 DEF PlaybackThread
<1>14. CASE CaptureThread
  BY <1>1, <1>14 DEF CaptureThread
<1>15. CASE UNCHANGED vars
  BY <1>1, <1>15 DEF vars
<1> QED BY <1>6, <1>7, <1>8, <1>9, <1>10, <1>11, <1>12, <1>13, <1>14, <1>15 DEF Next

MailboxType == [command : Commands \cup {"none"}, failed : BOOLEAN]
MicPlaces == {"top", "apply", "done", "failing", "read", "gone"}
Gate(a) == a \in AecType /\ a.warmup <= Warmup /\ a.tail <= TailFrames

\* The capture thread's own, and what the two threads tell each other.
CaptureOK ==
  /\ mic \in MicPlaces /\ mailbox \in MailboxType /\ Len(capture) <= CaptureSlots
  /\ Gate(aec) /\ pcm \in PcmType
  /\ scope \in Scopes /\ caller \in Commands \cup {"none"}
  /\ restless \in Nat /\ muted \in BOOLEAN /\ forgotten \in BOOLEAN

LEMMA PcmIs ==
  ASSUME pcm \in PcmType
  PROVE  /\ DeviceEnded \in PcmType /\ Interrupted \in PcmType /\ NewPcm \in PcmType
         /\ [pcm EXCEPT !.ended = FALSE] \in PcmType
         /\ [pcm EXCEPT !.started = FALSE, !.ended = FALSE] \in PcmType
         /\ \A audible \in BOOLEAN : RenderStarted(audible) \in PcmType
BY DEF PcmType, DeviceEnded, Interrupted, NewPcm, RenderStarted

LEMMA GateIs ==
  ASSUME Gate(aec), pcm \in PcmType
  PROVE  /\ Gate(NewAec) /\ Gate(PrepareAec) /\ Gate([aec EXCEPT !.armed = TRUE, !.warmup = 0])
         /\ \A reference \in BOOLEAN : Gate(RunDown(Gated(reference)))
<1>1. Gate(NewAec) /\ Gate(PrepareAec)
  BY CaptureSizes DEF Gate, AecType, NewAec, PrepareAec
<1>2. Gate([aec EXCEPT !.armed = TRUE, !.warmup = 0])
  <2> DEFINE a == [aec EXCEPT !.armed = TRUE]
             b == [a EXCEPT !.warmup = 0]
  <2>1. a \in AecType /\ a.tail <= TailFrames
    BY DEF Gate, AecType
  <2> HIDE DEF a
  <2>2. b \in AecType /\ b.warmup = 0 /\ b.tail = a.tail
    BY <2>1 DEF AecType
  <2> HIDE DEF b
  <2>3. Gate(b)
    BY <2>1, <2>2, CaptureSizes DEF Gate
  <2> QED BY <2>3 DEF a, b
<1>3. ASSUME NEW reference \in BOOLEAN PROVE Gate(RunDown(Gated(reference)))
  <2> DEFINE g == Gated(reference)
  <2>1. g \in AecType /\ g.warmup <= Warmup /\ g.tail <= TailFrames
    BY GatedIs, CaptureSizes DEF Gate
  <2>2. g.warmup \in Nat /\ g.tail \in Nat
    BY <2>1 DEF AecType
  <2> HIDE DEF g
  <2>3. Less(g.warmup) <= Warmup /\ Less(g.tail) <= TailFrames
    BY <2>1, <2>2, CaptureSizes DEF Less
  <2> QED BY <2>1, <2>3, RunDownIs DEF Gate, g
<1> QED BY <1>1, <1>2, <1>3

\* Push never overfills the ring.
LEMMA PushFits ==
  ASSUME capture \in Seq(Frame), Len(capture) <= CaptureSlots, NEW f \in Frame, Push(f)
  PROVE  Len(capture') <= CaptureSlots
<1>1. Len(capture) \in Nat
  OBVIOUS
<1>2. Len(<<[f EXCEPT !.gap = TRUE]>>) = 1 /\ Len(Append(capture, f)) = Len(capture) + 1
  OBVIOUS
<1> QED BY <1>1, <1>2, CaptureSizes DEF Push

LEMMA CaptureInitOK == Init => FlagsOK /\ CaptureOK /\ Ranged(act)
<1> SUFFICES ASSUME Init PROVE FlagsOK /\ CaptureOK /\ Ranged(act)
  OBVIOUS
<1>1. FlagsOK
  BY DEF Init, PlaybackInit, FlagsOK
<1>2. Gate(aec)
  BY CaptureSizes DEF Init, CaptureInit, NewAec, Gate, AecType
<1>3. mailbox \in MailboxType /\ pcm \in PcmType
  BY DEF Init, CaptureInit, NewMailbox, MailboxType, PcmType
<1>4. /\ mic \in MicPlaces /\ Len(capture) <= CaptureSlots
      /\ scope \in Scopes /\ caller \in Commands \cup {"none"}
      /\ restless \in Nat /\ muted \in BOOLEAN /\ forgotten \in BOOLEAN
  <2>1. mic = "top" /\ capture = <<>> /\ caller = "none" /\ scope \in Scopes
    BY DEF Init, CaptureInit
  <2>2. restless = 0 /\ muted = FALSE /\ forgotten = FALSE
    BY DEF Init
  <2>3. Len(<<>>) = 0 /\ 0 <= CaptureSlots
    BY CaptureSizes
  <2> QED BY <2>1, <2>2, <2>3 DEF MicPlaces
<1>5. Ranged(act)
  BY Sizes DEF Init, Ranged, NewActor
<1> QED BY <1>1, <1>2, <1>3, <1>4, <1>5 DEF CaptureOK

LEMMA CaptureNextOK ==
  FramesInv /\ DeviceInv /\ CaptureOK /\ [Next]_vars => CaptureOK'
<1> SUFFICES ASSUME FramesInv, DeviceInv, CaptureOK, [Next]_vars PROVE CaptureOK'
  OBVIOUS
<1>1. /\ mic \in MicPlaces /\ mailbox \in MailboxType /\ Len(capture) <= CaptureSlots
      /\ Gate(aec) /\ pcm \in PcmType
      /\ scope \in Scopes /\ caller \in Commands \cup {"none"}
      /\ restless \in Nat /\ muted \in BOOLEAN /\ forgotten \in BOOLEAN
      /\ capture \in Seq(Frame) /\ active \in BOOLEAN /\ drop \in BOOLEAN
  BY DEF CaptureOK, FramesInv, DeviceInv
<1>2. /\ Warmup \in Nat /\ TailFrames \in Nat /\ 0 \in Nat
  BY CaptureSizes
\* What the actor's and the playback's steps leave of it.
<1>3. ASSUME UNCHANGED <<mic, capture, aec>>,
             mailbox' \in MailboxType, pcm' \in PcmType,
             scope' \in Scopes, caller' \in Commands \cup {"none"},
             restless' \in Nat, muted' \in BOOLEAN, forgotten' \in BOOLEAN
      PROVE  CaptureOK'
  BY <1>1, <1>3 DEF CaptureOK
<1>4. ASSUME UNCHANGED <<mic, capture, aec, mailbox, pcm, scope, caller, restless, muted, forgotten>>
      PROVE  CaptureOK'
  BY <1>1, <1>3, <1>4
<1>5. ASSUME NEW command \in Commands, Ask(command)
      PROVE  mailbox' \in MailboxType /\ caller' \in Commands \cup {"none"}
  <2>1. mailbox' = [mailbox EXCEPT !.command = command] /\ caller' = command
    BY <1>5 DEF Ask, Request
  <2> QED BY <1>1, <2>1 DEF MailboxType
<1>6. "reset" \in Commands /\ "prepare" \in Commands
  BY DEF Commands
<1>7. CASE UNCHANGED vars
  BY <1>4, <1>7 DEF vars, captureVars, actorVars
<1>8. CASE Reply
  <2>1. UNCHANGED captureVars /\ scope' = scope /\ forgotten' = forgotten /\ caller' = "none"
    BY <1>8 DEF Reply
  <2>2. muted' \in {FALSE, muted} /\ restless' \in {Warmup, restless}
    BY <1>8 DEF Reply
  <2> QED BY <1>1, <1>2, <1>3, <2>1, <2>2 DEF captureVars
<1>9. CASE CommandTimesOut
  <2>1. mailbox' = [mailbox EXCEPT !.failed = TRUE]
    BY <1>9 DEF CommandTimesOut, TimesOut
  <2>2. mailbox' \in MailboxType
    BY <1>1, <2>1 DEF MailboxType
  <2>3. UNCHANGED <<mic, capture, aec, pcm, scope, caller, restless, muted, forgotten>>
    BY <1>9 DEF CommandTimesOut, TimesOut, actorVars
  <2> QED BY <1>1, <1>3, <2>2, <2>3
<1>10. ASSUME AskPlayback PROVE CaptureOK'
  <2>1. mailbox' \in MailboxType /\ caller' \in Commands \cup {"none"}
    BY <1>5, <1>6, <1>10 DEF AskPlayback
  <2>2. UNCHANGED <<mic, capture, aec, pcm, scope, restless, muted, forgotten>>
    BY <1>10 DEF AskPlayback, CaptureRests, actorVars
  <2> QED BY <1>1, <1>3, <2>1, <2>2
<1>11. pcm' = Interrupted => pcm' \in PcmType
  BY <1>1, PcmIs
<1>12. CASE AnyCall
  <2>1. CASE Ask("reset") /\ CaptureRests /\ UNCHANGED <<playbackVars, pcm, scope, actorVars, muted, restless>>
    <3>1. mailbox' \in MailboxType /\ caller' \in Commands \cup {"none"}
      BY <1>5, <1>6, <2>1
    <3>2. UNCHANGED <<mic, capture, aec, pcm, scope, restless, muted, forgotten>>
      BY <2>1 DEF CaptureRests, actorVars
    <3> QED BY <1>1, <1>3, <3>1, <3>2
  <2>2. CASE UNCHANGED <<captureVars, scope, caller, actorVars, muted, restless>>
    BY <1>4, <2>2 DEF captureVars, actorVars
  <2>3. CASE Drops /\ CaptureRests /\ UNCHANGED <<mailbox, scope, caller, actorVars, muted>>
    <3>1. pcm' \in PcmType /\ restless' = 0
      BY <1>11, <2>3 DEF Drops
    <3>2. UNCHANGED <<mic, capture, aec, mailbox, scope, caller, muted, forgotten>>
      BY <2>3 DEF CaptureRests, actorVars
    <3> QED BY <1>1, <1>2, <1>3, <3>1, <3>2
  <2> QED BY <1>10, <1>12, <2>1, <2>2, <2>3 DEF AnyCall
<1>13. CASE CloseEngine
  <2>1. pcm' \in PcmType /\ restless' = 0
    BY <1>11, <1>13 DEF CloseEngine
  <2>2. UNCHANGED <<mic, capture, aec, mailbox, scope, caller, muted, forgotten>>
    BY <1>13 DEF CloseEngine, CaptureRests, actorVars
  <2> QED BY <1>1, <1>2, <1>3, <2>1, <2>2
<1>14. CASE EngineJoined
  <2>1. mailbox' = NewMailbox /\ capture' = <<>> /\ aec' = NewAec /\ restless' = 0
        /\ pcm' = [pcm EXCEPT !.started = FALSE, !.ended = FALSE]
        /\ muted' = FALSE /\ UNCHANGED <<mic, scope, caller, forgotten>>
    BY <1>14 DEF EngineJoined, actorVars
  <2>2. mailbox' \in MailboxType
    BY <2>1 DEF NewMailbox, MailboxType
  <2>3. Gate(aec') /\ pcm' \in PcmType
    BY <1>1, <2>1, GateIs, PcmIs
  <2>4. Len(capture') <= CaptureSlots
    BY <2>1, CaptureSizes
  <2>5. restless' \in Nat /\ muted' \in BOOLEAN
    BY <2>1
  <2> QED BY <1>1, <2>1, <2>2, <2>3, <2>4, <2>5 DEF CaptureOK
<1>15. CASE OpenEngine
  <2>1. mic' = "top" /\ UNCHANGED <<capture, aec, mailbox, pcm, scope, caller, restless, muted,
                                    forgotten>>
    BY <1>15 DEF OpenEngine, actorVars
  <2> QED BY <1>1, <2>1 DEF CaptureOK, MicPlaces
<1>16. CASE Conversation
  <2>1. ASSUME NEW r, Does(r), caller = "none", UNCHANGED <<mic, capture, aec>>
        PROVE  CaptureOK'
    <3>1. /\ scope' = scope /\ muted' \in BOOLEAN /\ forgotten' \in BOOLEAN
      BY <2>1 DEF Does
    <3>2. pcm' \in PcmType /\ restless' \in Nat
      <4>1. CASE "drop" \in r.does /\ active
        BY <1>2, <1>11, <2>1, <4>1 DEF Does, Drops
      <4>2. CASE ~("drop" \in r.does /\ active)
        BY <1>1, <2>1, <4>2 DEF Does
      <4> QED BY <4>1, <4>2
    <3>3. mailbox' \in MailboxType /\ caller' \in Commands \cup {"none"}
      <4>1. CASE "reset" \in r.does
        BY <1>5, <1>6, <2>1, <4>1 DEF Does
      <4>2. CASE "reset" \notin r.does
        BY <1>1, <2>1, <4>2 DEF Does
      <4> QED BY <4>1, <4>2
    <3> QED BY <1>1, <1>3, <2>1, <3>1, <3>2, <3>3
  <2>2. CASE TakeFrame
    <3>1. capture # <<>> /\ capture' = Tail(capture)
          /\ UNCHANGED <<mic, mailbox, aec, pcm, scope, caller, forgotten, muted, restless>>
      BY <2>2 DEF TakeFrame
    <3>2. Len(capture') <= CaptureSlots
      <4>1. Len(capture') = Len(capture) - 1 /\ Len(capture) \in Nat
        BY <1>1, <3>1
      <4> QED BY <1>1, <4>1, CaptureSizes
    <3> QED BY <1>1, <3>1, <3>2 DEF CaptureOK
  <2>3. CASE HandleFrame
    BY <2>1, <2>3 DEF HandleFrame, CaptureRests, Talks, Free
  <2>4. ASSUME NEW states, NEW r, Event(states, r) \/ Deadline(states, r) PROVE CaptureOK'
    BY <2>1, <2>4 DEF Event, Deadline, CaptureRests, Talks, Free
  <2>5. CASE \/ Cancelled \/ ServerError \/ TouchInterrupt \/ LateStart
             \/ DrainEnds \/ CancelTimeout \/ TurnTimeout \/ NobodySpeaks
    BY <2>4, <2>5 DEF Cancelled, ServerError, TouchInterrupt, LateStart, DrainEnds,
                      CancelTimeout, TurnTimeout, NobodySpeaks
  <2>6. CASE AudioStart
    BY <1>10, <2>6 DEF AudioStart
  <2>7. CASE Audio
    BY <1>4, <2>7 DEF Audio, captureVars, actorVars
  <2>8. CASE Done
    BY <1>4, <2>8 DEF Done, captureVars
  <2> QED BY <1>16, <2>2, <2>3, <2>5, <2>6, <2>7, <2>8 DEF Conversation
<1>17. CASE PlaybackThread
  <2>1. UNCHANGED <<mic, capture, aec, mailbox, scope, caller, forgotten>>
    BY <1>17 DEF PlaybackThread, CaptureRests, actorVars
  <2>2. pcm' \in PcmType /\ restless' \in Nat /\ muted' \in BOOLEAN
    <3>1. CASE RenderSlot
      <4>1. PICK audible \in {FALSE, ~muted} : pcm' = RenderStarted(audible)
        BY <3>1 DEF RenderSlot
      <4>2. audible \in BOOLEAN
        BY <1>1
      <4> QED BY <1>1, <3>1, <4>1, <4>2, PcmIs DEF RenderSlot
    <3>2. CASE EndDevice
      BY <1>1, <1>2, <3>2, PcmIs DEF EndDevice
    <3>3. CASE FinishedDone
      <4>1. pcm' \in {DeviceEnded, pcm} /\ muted' = FALSE /\ restless' = restless
        BY <3>3 DEF FinishedDone
      <4> QED BY <1>1, <4>1, PcmIs
    <3>4. CASE UNCHANGED <<pcm, muted, restless>>
      BY <1>1, <3>4
    <3> QED BY <1>17, <3>1, <3>2, <3>3, <3>4 DEF PlaybackThread
  <2> QED BY <1>1, <1>3, <2>1, <2>2
<1>18. CASE CaptureThread
  <2>1. UNCHANGED <<scope, caller, muted>>
    BY <1>18 DEF CaptureThread
  <2>2. ASSUME mic' \in MicPlaces, mailbox' \in MailboxType, Len(capture') <= CaptureSlots,
               Gate(aec'), pcm' \in PcmType, restless' \in Nat, forgotten' \in BOOLEAN
        PROVE  CaptureOK'
    BY <1>1, <2>1, <2>2 DEF CaptureOK
  <2>3. CASE HearGap /\ restless' = (IF Playing THEN Warmup ELSE Less(restless)) /\ forgotten' = forgotten
    <3>1. mic' = "top" /\ mailbox' = mailbox /\ pcm' = pcm /\ Push(GapFrame)
          /\ aec' \in {aec, [aec EXCEPT !.armed = TRUE, !.warmup = 0]}
      BY <2>3 DEF HearGap
    <3>2. GapFrame \in Frame
      BY DEF GapFrame, Frame
    <3>3. Len(capture') <= CaptureSlots
      BY <1>1, <3>1, <3>2, PushFits
    <3>4. Gate(aec')
      BY <1>1, <3>1, GateIs
    <3>5. restless' \in Nat
      BY <1>1, <1>2, <2>3, LessIs
    <3> QED BY <1>1, <2>2, <2>3, <3>1, <3>3, <3>4, <3>5 DEF MicPlaces
  <2>4. ASSUME NEW now \in BOOLEAN, NEW reference \in {FALSE, active /\ ~drop},
               Hear(now, reference), restless' = Less(restless),
               forgotten' = (forgotten \/ ForgetsSpeech(now, reference))
        PROVE  CaptureOK'
    <3> DEFINE f == [near |-> now /\ ~Suppresses(Gated(reference)), edge |-> Edge(UpdateVad(now)),
                     reference |-> reference, gap |-> FALSE]
    <3>1. mic' = "top" /\ mailbox' = mailbox /\ pcm' = [pcm EXCEPT !.ended = FALSE] /\ Push(f)
          /\ aec' = RunDown(Gated(reference))
      BY <2>4 DEF Hear
    <3>2. reference \in BOOLEAN /\ (now /\ ~Suppresses(Gated(reference))) \in BOOLEAN
      OBVIOUS
    <3>3. f \in Frame
      <4>1. Edge(UpdateVad(now)) \in {"none", "started", "ended"}
        BY DEF Edge
      <4> QED BY <3>2, <4>1 DEF Frame
    <3> HIDE DEF f
    <3>4. Len(capture') <= CaptureSlots
      BY <1>1, <3>1, <3>3, PushFits
    <3>5. Gate(aec') /\ pcm' \in PcmType
      BY <1>1, <3>1, <3>2, GateIs, PcmIs
    <3>6. restless' \in Nat /\ forgotten' \in BOOLEAN
      BY <1>1, <2>4, LessIs
    <3> QED BY <1>1, <2>2, <3>1, <3>4, <3>5, <3>6 DEF MicPlaces
  <2>5. CASE HearFrame
    BY <2>3, <2>4, <2>5 DEF HearFrame
  <2>6. CASE /\ LookForCommand \/ Answer \/ NoFrame \/ CarryOut \/ CaptureFails \/ CaptureStops
             /\ UNCHANGED <<restless, forgotten>>
    <3>1. CASE LookForCommand
      <4>1. mic' \in {"gone", "apply"} /\ UNCHANGED <<mailbox, capture, aec, pcm>>
        BY <3>1 DEF LookForCommand
      <4> QED BY <1>1, <2>2, <2>6, <4>1 DEF MicPlaces
    <3>2. CASE Answer
      <4>1. mic' \in {"gone", "read"} /\ UNCHANGED <<aec, pcm>>
            /\ capture' \in {capture, Undecided(capture)}
            /\ mailbox' = [mailbox EXCEPT !.command = "none", !.failed = @ \/ mic = "failing"]
        BY <3>2 DEF Answer
      <4>2. mailbox' \in MailboxType
        BY <1>1, <4>1 DEF MailboxType
      <4>3. Len(capture') <= CaptureSlots
        BY <1>1, <4>1, UndecidedFrames
      <4> QED BY <1>1, <2>2, <2>6, <4>1, <4>2, <4>3 DEF MicPlaces
    <3>3. CASE NoFrame
      BY <1>1, <2>2, <2>6, <3>3 DEF NoFrame, MicPlaces
    <3>4. CASE CarryOut
      <4>1. mic' \in {"done", "failing"} /\ mailbox' = mailbox /\ capture' = capture
            /\ aec' \in {aec, PrepareAec} /\ pcm' \in {pcm, NewPcm}
        BY <3>4 DEF CarryOut, ResetListener, PreparePlayback
      <4> QED BY <1>1, <2>2, <2>6, <4>1, GateIs, PcmIs DEF MicPlaces
    <3>5. CASE CaptureFails
      <4>1. mic' = "gone" /\ mailbox' = [mailbox EXCEPT !.failed = TRUE]
            /\ UNCHANGED <<capture, aec, pcm>>
        BY <3>5 DEF CaptureFails
      <4>2. mailbox' \in MailboxType
        BY <1>1, <4>1 DEF MailboxType
      <4> QED BY <1>1, <2>2, <2>6, <4>1, <4>2 DEF MicPlaces
    <3>6. CASE CaptureStops
      BY <1>1, <2>2, <2>6, <3>6 DEF CaptureStops, MicPlaces
    <3> QED BY <2>6, <3>1, <3>2, <3>3, <3>4, <3>5, <3>6
  <2> QED BY <1>18, <2>5, <2>6 DEF CaptureThread
<1> QED BY <1>7, <1>8, <1>9, <1>12, <1>13, <1>14, <1>15, <1>16, <1>17, <1>18 DEF Next-----------------------------------------------------------------------------
(* The engine is sound.                                                    *)

EngineInv ==
  /\ FramesInv /\ UtteranceInv /\ DeviceInv /\ FlowInv
  /\ FlagsOK /\ CaptureOK /\ Ranged(act)

\* No stage of a probe counts more frames than it waits for.
LEMMA ActorTypes ==
  ASSUME NEW a, Good(a), Ranged(a)
  PROVE  ActorOK(a)
<1>1. /\ a.state \in States /\ a.probe \in {"idle", "low", "clear", "verify"}
      /\ a.frames \in Nat /\ a.cooldown \in Nat /\ a.quiet \in Nat /\ a.silence \in Nat
      /\ a.follow \in Nat /\ a.pre \in Nat /\ a.spoken \in Nat
      /\ a.admitted \in BOOLEAN /\ a.ended \in BOOLEAN /\ a.full \in BOOLEAN
      /\ a.finish \in BOOLEAN /\ a.missed \in BOOLEAN
  BY DEF Good, ActorType
<1>2. a.frames <= BargeCandidate + BargeReferenceWait + BargeEchoClear + BargeConfirm
  <2>1. CASE a.probe = "idle"
    <3>1. a.frames = 0 \/ a.frames < BargeCandidate
      BY <1>1, <2>1 DEF Good, ActorInv
    <3> QED BY <1>1, <3>1, Sizes
  <2>2. CASE a.probe = "low"
    <3>1. a.frames < BargeReferenceWait + 1
      BY <2>2 DEF Good, ActorInv, Kept
    <3> QED BY <1>1, <3>1, Sizes
  <2>3. CASE a.probe = "clear"
    <3>1. a.frames < BargeEchoClear
      BY <2>3 DEF Good, ActorInv, Kept
    <3> QED BY <1>1, <3>1, Sizes
  <2>4. CASE a.probe = "verify"
    <3>1. a.frames < BargeConfirm
      BY <2>4 DEF Good, ActorInv, Kept
    <3> QED BY <1>1, <3>1, Sizes
  <2> QED BY <1>1, <2>1, <2>2, <2>3, <2>4
<1>3. a.spoken <= a.pre
  BY DEF Good, ActorInv
<1>4. /\ a.cooldown <= BargeRetryCooldown /\ a.quiet <= BargeReferenceLow
      /\ a.silence <= BargeTailFreeze /\ a.follow <= FollowUpNear /\ a.pre <= BargeBuffer
  BY DEF Ranged
<1>5. /\ a.frames \in 0..(BargeCandidate + BargeReferenceWait + BargeEchoClear + BargeConfirm)
      /\ a.cooldown \in 0..BargeRetryCooldown /\ a.quiet \in 0..BargeReferenceLow
      /\ a.silence \in 0..BargeTailFreeze /\ a.follow \in 0..FollowUpNear
      /\ a.pre \in 0..BargeBuffer /\ a.spoken \in 0..a.pre
  BY <1>1, <1>2, <1>3, <1>4, Sizes
<1> QED BY <1>1, <1>5 DEF ActorOK

LEMMA PlaybackTypes == EngineInv => PlaybackTypeOK
<1> SUFFICES ASSUME EngineInv PROVE PlaybackTypeOK
  OBVIOUS
<1>1. FlowInv /\ DeviceInv /\ FlagsOK
  BY DEF EngineInv
<1>2. TheRing.tts = tts /\ TheRing.tail = tts_tail /\ TheRing.count = tts_count
  BY DEF TheRing
<1>3. /\ tts \in [Index -> Slot] /\ tts_head \in Index /\ tts_count \in 0..Slots
      /\ tts_tail = Place(tts_head, tts_count)
  BY <1>1, <1>2 DEF FlowInv, RingIs
<1>4. tts_tail \in Index
  BY <1>3, PlaceIs
<1>5. queued_samples \in Nat /\ accepted \in Nat /\ queued_samples <= Slots * SlotSamples
  BY <1>1, RingGives
<1>6. Slots * SlotSamples \in Nat
  BY RingSizes
<1>7. queued_samples \in 0..(Slots * SlotSamples)
  BY <1>5, <1>6
<1>8. accepted \in 0..MaxSamples /\ rendered \in 0..MaxSamples
  <2>1. accepted <= MaxSamples /\ rendered \in Nat /\ rendered <= accepted
    BY <1>1 DEF FlowInv
  <2> QED BY <1>5, <2>1, RingSizes
<1>9. {active, ending, started, rebuffering, drop, sequence_set, stop, open,
       is_done, playback_failed} \subseteq BOOLEAN
  BY <1>1, Zenon DEF DeviceInv, FlagsOK
<1>10. thread \in [at : {"top", "wait", "render", "finish", "device", "done", "gone"},
                   slot : Slot, finish : BOOLEAN, discard : BOOLEAN, failed : BOOLEAN]
  <2>1. ThreadIs(thread) /\ thread.slot \in Slot /\ thread.finish \in BOOLEAN
    BY <1>1 DEF DeviceInv, FlowInv
  <2> QED BY <2>1 DEF ThreadIs
<1>11. asked \in SUBSET {"end", "drop"} /\ late \in Nat
  BY <1>1 DEF FlowInv, DeviceInv
<1> QED BY <1>3, <1>4, <1>7, <1>8, <1>9, <1>10, <1>11 DEF PlaybackTypeOK

LEMMA CaptureTypes == EngineInv => CaptureTypeOK
<1> SUFFICES ASSUME EngineInv PROVE CaptureTypeOK
  OBVIOUS
<1>1. FramesInv /\ CaptureOK
  BY DEF EngineInv
<1>2. aec \in [session : BOOLEAN, armed : BOOLEAN, warmup : 0..Warmup, tail : 0..TailFrames]
  <2>1. aec \in AecType /\ aec.warmup <= Warmup /\ aec.tail <= TailFrames
    BY <1>1 DEF CaptureOK, Gate
  <2>2. /\ aec = [session |-> aec.session, armed |-> aec.armed, warmup |-> aec.warmup,
                  tail |-> aec.tail]
        /\ aec.session \in BOOLEAN /\ aec.armed \in BOOLEAN
        /\ aec.warmup \in Nat /\ aec.tail \in Nat
    BY <2>1 DEF AecType
  <2>3. aec.warmup \in 0..Warmup /\ aec.tail \in 0..TailFrames
    BY <2>1, <2>2, CaptureSizes
  <2> QED BY <2>2, <2>3
<1>3. mic \in {"top", "apply", "done", "failing", "read", "gone"}
  BY <1>1 DEF CaptureOK, MicPlaces
<1>4. mailbox \in [command : Commands \cup {"none"}, failed : BOOLEAN]
  BY <1>1 DEF CaptureOK, MailboxType
<1>5. pcm \in [started : BOOLEAN, ended : BOOLEAN, interrupted : BOOLEAN]
  BY <1>1 DEF CaptureOK, PcmType
<1>6. /\ capture \in Seq(Frame) /\ Len(capture) <= CaptureSlots
      /\ vad \in [in_speech : BOOLEAN, run : Nat]
  BY <1>1 DEF FramesInv, CaptureOK
<1> QED BY <1>2, <1>3, <1>4, <1>5, <1>6 DEF CaptureTypeOK

LEMMA EngineTypes == EngineInv => TypeOK
<1> SUFFICES ASSUME EngineInv PROVE TypeOK
  OBVIOUS
<1>1. PlaybackTypeOK /\ CaptureTypeOK
  BY PlaybackTypes, CaptureTypes
<1>2. ActorOK(act)
  BY ActorTypes DEF EngineInv, UtteranceInv
<1>3. held \in Seq(Frame) /\ Len(held) <= 1
  BY DEF EngineInv, FramesInv
<1>4. /\ scope \in Scopes /\ caller \in Commands \cup {"none"}
      /\ restless \in Nat /\ muted \in BOOLEAN /\ forgotten \in BOOLEAN
  BY DEF EngineInv, CaptureOK
<1>5. {muted, forgotten} \subseteq BOOLEAN
  BY <1>4, Zenon
<1> QED BY <1>1, <1>2, <1>3, <1>4, <1>5 DEF TypeOK

\* The playback thread, the capture thread and the application share the engine
\* without harm, whatever the rings' sizes and the packets: the ring of 20 ms
\* slots keeps what QueueTts24k put there whole and in order through wrap-around,
\* short slots and drops; what the thread renders are the samples from the first
\* on; a playback that is reported done was dropped, has failed or has rendered
\* every sample; and no counter of the capture or of the barge-in leaves its
\* range (audio_engine.cpp 233-428, 430-560, voice_client.cpp 640-1010).
THEOREM EngineIsSound == Spec => []EngineSound
<1>1. Init => EngineInv
  BY UtteranceInit, DeviceInit, FlowInit, CaptureInitOK DEF EngineInv
<1>2. EngineInv /\ [Next]_vars => EngineInv'
  <2> SUFFICES ASSUME EngineInv, [Next]_vars PROVE EngineInv'
    OBVIOUS
  <2>1. /\ FramesInv /\ UtteranceInv /\ DeviceInv /\ FlowInv /\ FlagsOK /\ CaptureOK
        /\ Ranged(act)
    BY DEF EngineInv
  <2>2. FramesInv' /\ UtteranceInv' /\ DeviceInv'
    BY <2>1, FramesNext, UtteranceNext, DeviceNext
  <2>3. FlowInv' /\ FlagsOK' /\ CaptureOK' /\ Ranged(act')
    BY <2>1, FlowNext, FlagsNext, CaptureNextOK, RangedNext
  <2> QED BY <2>2, <2>3 DEF EngineInv
<1>3. EngineInv => EngineSound
  <2> SUFFICES ASSUME EngineInv PROVE EngineSound
    OBVIOUS
  <2>1. TypeOK
    BY EngineTypes
  <2>2. RingSound /\ RendersInOrder /\ DoneMeansAllRendered
    BY FlowSound DEF EngineInv
  <2>3. DropIsNotFailure /\ AtMostOneSlotAfterDrop /\ DeviceExclusive
    BY DEF EngineInv, DeviceInv, DeviceExclusive
  <2>4. MutedOnlyWhileProbing
    BY DEF EngineInv, UtteranceInv
  <2> QED BY <2>1, <2>2, <2>3, <2>4 DEF EngineSound
<1> QED BY <1>1, <1>2, <1>3, PTL DEF Spec

-----------------------------------------------------------------------------
(* The end of an utterance. The lemmas are about the first n frames of a   *)
(* sequence, so that they can be read of the queue before and after a step.*)

\* The user's voice without a break, and no break from i on to j.
Voices(q, s, i) == \A m \in s..i : q[m].near /\ ~q[m].gap
Unbroken(q, i, j) == \A m \in (i + 1)..j : ~q[m].gap

\* What tells the actor that speech is over.
Closes(f) == f.gap \/ f.edge = "ended"
Ends(q, i, n) == \E j \in (i + 1)..n : Closes(q[j])

\* The frames of a row of voice that starts at s, the first of them after
\* as many that the actor has counted already.
Counted(lead, s, i) == IF s = 1 THEN i + lead ELSE i - s + 1

Clocked(v) ==
  /\ v \in [in_speech : BOOLEAN, run : Nat]
  /\ v.run < IF v.in_speech THEN VadEnd ELSE VadStart

\* A suppression that began after a frame of voice has gone on for as many
\* frames as have come since.
Settles(q, n, a) ==
  \A i \in 1..n : q[i].near /\ Unbroken(q, i, n) =>
    /\ a.warmup = 0 \/ a.warmup + (n - i) >= Warmup
    /\ a.tail = 0 \/ a.tail + (n - i) >= TailFrames

\* The end of speech is told VadEnd frames after the last voice, and the
\* detector has counted no more frames than have come since.
EndsLate(q, n, v) ==
  /\ \A i \in 1..n : q[i].edge = "ended" => ~q[i].near
  /\ \A i \in 1..n : \A j \in (i + 1)..n :
       q[i].near /\ Unbroken(q, i, j) /\ q[j].edge = "ended" => j - i >= VadEnd
  /\ \A i \in 1..n : q[i].near /\ Unbroken(q, i, n) /\ v.in_speech => v.run <= n - i

DetectorInv(q, n, v, a) == Clocked(v) /\ Settles(q, n, a) /\ EndsLate(q, n, v)

\* A row of voice as long as the detector asks for was heard, and its end is
\* still to come; a shorter one the detector has counted.
RowsHeard(q, n, v, lead) ==
  /\ \A i \in 1..n : \A s \in 1..i :
       Voices(q, s, i) /\ Counted(lead, s, i) >= VadStart => v.in_speech \/ Ends(q, i, n)
  /\ \A s \in 1..(n + 1) : Voices(q, s, n) => v.in_speech \/ Counted(lead, s, n) <= v.run

LEMMA Relations ==
  /\ VadStart \in Nat /\ VadStart > 0 /\ VadEnd \in Nat /\ VadEnd > 0
  /\ CaptureSlots \in Nat /\ CaptureSlots > 0 /\ Warmup \in Nat /\ TailFrames \in Nat
  /\ VadStart <= BargeCandidate /\ VadStart < FollowUpNear
  /\ BargeReferenceWait + BargeEchoClear < VadEnd
  /\ CaptureSlots < Warmup /\ CaptureSlots < TailFrames
BY CaptureSizes, DetectorAssumption DEF DetectorAssumption

\* What a frame does to the detector.
LEMMA TurnIs ==
  ASSUME Clocked(vad), NEW now \in BOOLEAN
  PROVE  LET v == UpdateVad(now)
         IN /\ Clocked(v)
            /\ now => v.in_speech \/ v.run = vad.run + 1
            /\ now /\ v.in_speech => v.run = 0
            /\ now /\ vad.in_speech => v.in_speech
            /\ ~now /\ v.in_speech => vad.in_speech /\ v.run = vad.run + 1
            /\ Edge(v) = "ended" <=> vad.in_speech /\ ~v.in_speech
            /\ Edge(v) = "ended" => ~now /\ vad.run + 1 = VadEnd
            /\ Edge(v) = "started" => v.in_speech
<1> DEFINE v == UpdateVad(now)
<1>1. vad.in_speech \in BOOLEAN /\ vad.run \in Nat
      /\ vad = [in_speech |-> vad.in_speech, run |-> vad.run]
  BY DEF Clocked
<1>2. /\ [vad EXCEPT !.run = 0] = [in_speech |-> vad.in_speech, run |-> 0]
      /\ [vad EXCEPT !.run = @ + 1] = [in_speech |-> vad.in_speech, run |-> vad.run + 1]
  BY <1>1
<1>3. CASE now = vad.in_speech
  <2>1. v = [in_speech |-> vad.in_speech, run |-> 0]
    BY <1>2, <1>3 DEF UpdateVad
  <2> HIDE DEF v
  <2>2. v.in_speech = vad.in_speech /\ v.run = 0 /\ v \in [in_speech : BOOLEAN, run : Nat]
    BY <1>1, <2>1
  <2> QED BY <1>1, <1>3, <2>2, Relations DEF Clocked, Edge, v
<1>4. CASE now # vad.in_speech /\ vad.run + 1 = (IF now THEN VadStart ELSE VadEnd)
  <2>1. v = [in_speech |-> now, run |-> 0]
    BY <1>4 DEF UpdateVad
  <2> HIDE DEF v
  <2>2. v.in_speech = now /\ v.run = 0 /\ v \in [in_speech : BOOLEAN, run : Nat]
    BY <2>1
  <2> QED BY <1>1, <1>4, <2>2, Relations DEF Clocked, Edge, v
<1>5. CASE now # vad.in_speech /\ vad.run + 1 # (IF now THEN VadStart ELSE VadEnd)
  <2>1. v = [in_speech |-> vad.in_speech, run |-> vad.run + 1]
    BY <1>2, <1>5 DEF UpdateVad
  <2> HIDE DEF v
  <2>2. /\ v.in_speech = vad.in_speech /\ v.run = vad.run + 1
        /\ v \in [in_speech : BOOLEAN, run : Nat]
    BY <1>1, <2>1
  <2>3. vad.run < IF vad.in_speech THEN VadEnd ELSE VadStart
    BY DEF Clocked
  <2> QED BY <1>1, <1>5, <2>2, <2>3, Relations DEF Clocked, Edge, v
<1> QED BY <1>3, <1>4, <1>5

\* What a frame does to the suppression; no voice is taken in its last frame.
LEMMA SuppressionIs ==
  ASSUME Gate(aec), pcm \in PcmType, NEW reference \in BOOLEAN
  PROVE  LET a == Gated(reference)
             b == RunDown(a)
         IN /\ a.warmup \in {0, Warmup, aec.warmup} /\ a.tail \in {0, TailFrames, aec.tail}
            /\ aec.warmup \in Nat /\ aec.tail \in Nat
            /\ b.warmup = Less(a.warmup) /\ b.tail = Less(a.tail)
            /\ Expires(a) => Suppresses(a)
            /\ ~Suppresses(a) => a.warmup = 0 /\ a.tail = 0
<1> DEFINE a == Gated(reference)
<1>1. aec \in AecType
  BY DEF Gate
<1>2. /\ a \in AecType
      /\ pcm.ended => a.warmup = 0 /\ a.tail = (IF pcm.interrupted THEN 0 ELSE TailFrames)
      /\ ~pcm.ended =>
           /\ a.tail = aec.tail
           /\ aec.armed /\ pcm.started /\ reference => a.warmup = Warmup
           /\ ~(aec.armed /\ pcm.started /\ reference) => a.warmup = aec.warmup
  BY <1>1, GatedIs
<1> HIDE DEF a
<1>3. RunDown(a).warmup = Less(a.warmup) /\ RunDown(a).tail = Less(a.tail)
  BY <1>2, RunDownIs
<1>4. aec.warmup \in Nat /\ aec.tail \in Nat
  BY <1>1 DEF AecType
<1>5. /\ Expires(a) => Suppresses(a)
      /\ ~Suppresses(a) => a.warmup = 0 /\ a.tail = 0
  BY DEF Expires, Suppresses
<1>6. a.warmup \in {0, Warmup, aec.warmup} /\ a.tail \in {0, TailFrames, aec.tail}
  BY <1>2
<1> QED BY <1>3, <1>4, <1>5, <1>6 DEF a

\* A frame goes behind the others.
LEMMA PushedDetector ==
  ASSUME NEW n \in Nat, n <= CaptureSlots, NEW q, NEW p, \A i \in 1..n : p[i] = q[i],
         Gate(aec), pcm \in PcmType, DetectorInv(q, n, vad, aec),
         NEW now \in BOOLEAN, NEW reference \in BOOLEAN,
         p[n + 1].near <=> now /\ ~Suppresses(Gated(reference)),
         p[n + 1].edge = Edge(UpdateVad(now)), ~p[n + 1].gap
  PROVE  LET v == IF Expires(Gated(reference)) THEN NewVad ELSE UpdateVad(now)
             a == RunDown(Gated(reference))
         IN /\ DetectorInv(p, n + 1, v, a)
            /\ p[n + 1].near => now /\ v = UpdateVad(now)
            /\ \A i \in 1..n : q[i].near /\ Unbroken(q, i, n) => v = UpdateVad(now)
<1> DEFINE g == Gated(reference)
           a == RunDown(g)
           u == UpdateVad(now)
           v == IF Expires(g) THEN NewVad ELSE u
           e == Edge(u)
<1>1. /\ Clocked(vad) /\ Settles(q, n, aec) /\ EndsLate(q, n, vad)
  BY DEF DetectorInv
<1>2. /\ Clocked(u)
      /\ now => u.in_speech \/ u.run = vad.run + 1
      /\ now /\ u.in_speech => u.run = 0
      /\ ~now /\ u.in_speech => vad.in_speech /\ u.run = vad.run + 1
      /\ e = "ended" <=> vad.in_speech /\ ~u.in_speech
      /\ e = "ended" => ~now /\ vad.run + 1 = VadEnd
  BY <1>1, TurnIs
<1>3. /\ g.warmup \in {0, Warmup, aec.warmup} /\ g.tail \in {0, TailFrames, aec.tail}
      /\ aec.warmup \in Nat /\ aec.tail \in Nat
      /\ a.warmup = Less(g.warmup) /\ a.tail = Less(g.tail)
      /\ Expires(g) => Suppresses(g)
      /\ ~Suppresses(g) => g.warmup = 0 /\ g.tail = 0
  BY SuppressionIs
<1>4. Expires(g) <=> g.warmup = 1 \/ g.tail = 1
  BY DEF Expires
<1>5. p[n + 1].near <=> now /\ ~Suppresses(g)
  OBVIOUS
<1>6. p[n + 1].edge = e
  OBVIOUS
<1>7. Clocked(NewVad) /\ ~NewVad.in_speech
  BY Relations DEF Clocked, NewVad
<1> HIDE DEF g, a, u, e
<1>8. Clocked(v)
  BY <1>2, <1>7
<1>9. p[n + 1].near => now /\ v = u
  BY <1>3, <1>5
<1>10. g.warmup \in Nat /\ g.tail \in Nat
  BY <1>3, Relations
<1>11. /\ a.warmup = IF g.warmup = 0 THEN 0 ELSE g.warmup - 1
       /\ a.tail = IF g.tail = 0 THEN 0 ELSE g.tail - 1
  BY <1>3 DEF Less
<1>12. ASSUME NEW i \in 1..n, p[i].near, Unbroken(p, i, n + 1)
       PROVE  q[i].near /\ Unbroken(q, i, n)
  <2>1. \A m \in (i + 1)..n : p[m] = q[m] /\ m \in (i + 1)..(n + 1)
    OBVIOUS
  <2> QED BY <1>12, <2>1 DEF Unbroken
<1>13. ASSUME NEW i \in 1..n, q[i].near, Unbroken(q, i, n) PROVE v = u
  <2>1. /\ aec.warmup = 0 \/ aec.warmup + (n - i) >= Warmup
        /\ aec.tail = 0 \/ aec.tail + (n - i) >= TailFrames
    BY <1>1, <1>13 DEF Settles
  <2>2. g.warmup # 1 /\ g.tail # 1
    BY <1>3, <2>1, Relations
  <2> QED BY <1>4, <2>2
<1>14. Settles(p, n + 1, a)
  <2> SUFFICES ASSUME NEW i \in 1..(n + 1), p[i].near, Unbroken(p, i, n + 1)
               PROVE  /\ a.warmup = 0 \/ a.warmup + (n + 1 - i) >= Warmup
                      /\ a.tail = 0 \/ a.tail + (n + 1 - i) >= TailFrames
    BY DEF Settles
  <2>1. CASE i = n + 1
    <3>1. g.warmup = 0 /\ g.tail = 0
      BY <1>3, <1>5, <2>1
    <3> QED BY <1>11, <3>1
  <2>2. CASE i # n + 1
    <3>1. i \in 1..n
      BY <2>2
    <3>2. /\ aec.warmup = 0 \/ aec.warmup + (n - i) >= Warmup
          /\ aec.tail = 0 \/ aec.tail + (n - i) >= TailFrames
      BY <1>1, <1>12, <3>1 DEF Settles
    <3>3. a.warmup = 0 \/ a.warmup + (n + 1 - i) >= Warmup
      BY <1>3, <1>11, <3>1, <3>2, Relations
    <3>4. a.tail = 0 \/ a.tail + (n + 1 - i) >= TailFrames
      BY <1>3, <1>11, <3>1, <3>2, Relations
    <3> QED BY <3>3, <3>4
  <2> QED BY <2>1, <2>2
<1>15. \A i \in 1..(n + 1) : p[i].edge = "ended" => ~p[i].near
  <2>1. p[n + 1].edge = "ended" => ~p[n + 1].near
    BY <1>2, <1>5, <1>6
  <2>2. \A i \in 1..n : p[i].edge = "ended" => ~p[i].near
    BY <1>1 DEF EndsLate
  <2> QED BY <2>1, <2>2
<1>16. ASSUME NEW i \in 1..(n + 1), NEW j \in (i + 1)..(n + 1),
              p[i].near, Unbroken(p, i, j), p[j].edge = "ended"
       PROVE  j - i >= VadEnd
  <2>0. i \in 1..n /\ p[i] = q[i]
    OBVIOUS
  <2>1. CASE j = n + 1
    <3>1. q[i].near /\ Unbroken(q, i, n)
      BY <1>12, <1>16, <2>0, <2>1
    <3>2. vad.in_speech /\ vad.run + 1 = VadEnd
      BY <1>2, <1>6, <1>16, <2>1
    <3>3. vad.run <= n - i
      BY <1>1, <2>0, <3>1, <3>2 DEF EndsLate
    <3>4. vad.run \in Nat
      BY <1>1 DEF Clocked
    <3> QED BY <2>1, <3>2, <3>3, <3>4
  <2>2. CASE j # n + 1
    <3>1. j \in (i + 1)..n /\ p[j] = q[j]
      BY <2>2
    <3>2. \A m \in (i + 1)..j : p[m] = q[m]
      BY <3>1
    <3>3. Unbroken(q, i, j)
      BY <1>16, <3>2 DEF Unbroken
    <3> QED BY <1>1, <1>16, <2>0, <3>1, <3>3 DEF EndsLate
  <2> QED BY <2>1, <2>2
<1>17. ASSUME NEW i \in 1..(n + 1), p[i].near, Unbroken(p, i, n + 1), v.in_speech
       PROVE  v.run <= n + 1 - i
  <2>1. v = u
    BY <1>7, <1>17
  <2>2. CASE i = n + 1
    <3>1. now /\ u.in_speech
      BY <1>9, <1>17, <2>1, <2>2
    <3> QED BY <1>2, <2>1, <2>2, <3>1
  <2>3. CASE i # n + 1
    <3>1. i \in 1..n /\ q[i].near /\ Unbroken(q, i, n)
      BY <1>12, <1>17, <2>3
    <3>2. CASE now
      BY <1>2, <1>17, <2>1, <3>1, <3>2
    <3>3. CASE ~now
      <4>1. vad.in_speech /\ u.run = vad.run + 1
        BY <1>2, <1>17, <2>1, <3>3
      <4>2. vad.run <= n - i
        BY <1>1, <3>1, <4>1 DEF EndsLate
      <4>3. vad.run \in Nat
        BY <1>1 DEF Clocked
      <4> QED BY <2>1, <3>1, <4>1, <4>2, <4>3
    <3> QED BY <3>2, <3>3
  <2> QED BY <2>2, <2>3
<1>18. EndsLate(p, n + 1, v)
  BY <1>15, <1>16, <1>17 DEF EndsLate
<1>19. DetectorInv(p, n + 1, v, a)
  BY <1>8, <1>14, <1>18 DEF DetectorInv
<1> QED BY <1>9, <1>13, <1>19 DEF g, a, u, v

LEMMA PushedRows ==
  ASSUME NEW n \in Nat, n <= CaptureSlots, NEW q, NEW p, \A i \in 1..n : p[i] = q[i],
         Gate(aec), pcm \in PcmType, DetectorInv(q, n, vad, aec),
         NEW lead \in Int, RowsHeard(q, n, vad, lead),
         NEW now \in BOOLEAN, NEW reference \in BOOLEAN,
         p[n + 1].near <=> now /\ ~Suppresses(Gated(reference)),
         p[n + 1].edge = Edge(UpdateVad(now)), ~p[n + 1].gap
  PROVE  LET v == IF Expires(Gated(reference)) THEN NewVad ELSE UpdateVad(now)
         IN RowsHeard(p, n + 1, v, lead)
<1> DEFINE u == UpdateVad(now)
           v == IF Expires(Gated(reference)) THEN NewVad ELSE u
<1>1. /\ p[n + 1].near => now /\ v = u
      /\ \A i \in 1..n : q[i].near /\ Unbroken(q, i, n) => v = u
  BY PushedDetector
<1>2. Clocked(vad) /\ vad.run \in Nat
  BY DEF DetectorInv, Clocked
<1>3. /\ now => u.in_speech \/ u.run = vad.run + 1
      /\ now /\ vad.in_speech => u.in_speech
      /\ Edge(u) = "ended" <=> vad.in_speech /\ ~u.in_speech
      /\ Clocked(u)
  BY <1>2, TurnIs
<1>4. p[n + 1].edge = Edge(u)
  OBVIOUS
<1>5. Clocked(v)
  <2>1. Clocked(NewVad)
    BY Relations DEF Clocked, NewVad
  <2> QED BY <1>3, <2>1
<1> HIDE DEF u, v
<1>6. ASSUME NEW i \in 1..n, Ends(q, i, n) PROVE Ends(p, i, n + 1)
  <2>1. PICK j \in (i + 1)..n : Closes(q[j])
    BY <1>6 DEF Ends
  <2>2. j \in (i + 1)..(n + 1) /\ p[j] = q[j]
    OBVIOUS
  <2> QED BY <2>1, <2>2 DEF Ends
\* The row that the new frame prolongs.
<1>7. ASSUME NEW s \in 1..(n + 1), Voices(p, s, n + 1)
      PROVE  /\ v.in_speech \/ Counted(lead, s, n + 1) <= v.run
             /\ Counted(lead, s, n + 1) >= VadStart => v.in_speech
  <2>1. p[n + 1].near /\ now /\ v = u
    BY <1>1, <1>7 DEF Voices
  <2>2. Voices(q, s, n)
    <3>1. \A m \in s..n : p[m] = q[m] /\ m \in s..(n + 1)
      OBVIOUS
    <3> QED BY <1>7, <3>1 DEF Voices
  <2>3. vad.in_speech \/ Counted(lead, s, n) <= vad.run
    BY <2>2 DEF RowsHeard
  <2>4. Counted(lead, s, n + 1) = Counted(lead, s, n) + 1 /\ Counted(lead, s, n) \in Int
    BY DEF Counted
  <2>5. v.in_speech \/ Counted(lead, s, n + 1) <= v.run
    BY <1>2, <1>3, <2>1, <2>3, <2>4
  <2>6. ~v.in_speech => v.run < VadStart /\ v.run \in Nat
    BY <1>5 DEF Clocked
  <2> QED BY <2>4, <2>5, <2>6, Relations
<1>8. ASSUME NEW i \in 1..(n + 1), NEW s \in 1..i,
             Voices(p, s, i), Counted(lead, s, i) >= VadStart
      PROVE  v.in_speech \/ Ends(p, i, n + 1)
  <2>1. CASE i = n + 1
    BY <1>7, <1>8, <2>1
  <2>2. CASE i # n + 1
    <3>1. i \in 1..n /\ \A m \in s..i : p[m] = q[m]
      BY <2>2
    <3>2. Voices(q, s, i) /\ q[i].near
      BY <1>8, <3>1 DEF Voices
    <3>3. vad.in_speech \/ Ends(q, i, n)
      BY <1>8, <3>1, <3>2 DEF RowsHeard
    <3>4. CASE Ends(q, i, n)
      BY <1>6, <3>1, <3>4
    <3>5. CASE vad.in_speech /\ ~Unbroken(q, i, n)
      <4>1. PICK m \in (i + 1)..n : q[m].gap
        BY <3>5 DEF Unbroken
      <4>2. Ends(q, i, n)
        BY <4>1 DEF Ends, Closes
      <4> QED BY <1>6, <3>1, <4>2
    <3>6. CASE vad.in_speech /\ Unbroken(q, i, n)
      <4>1. v = u
        BY <1>1, <3>1, <3>2, <3>6
      <4>2. CASE u.in_speech
        BY <4>1, <4>2
      <4>3. CASE ~u.in_speech
        <5>1. p[n + 1].edge = "ended" /\ n + 1 \in (i + 1)..(n + 1)
          BY <1>3, <1>4, <3>1, <3>6, <4>3
        <5> QED BY <5>1 DEF Ends, Closes
      <4> QED BY <4>2, <4>3
    <3> QED BY <3>3, <3>4, <3>5, <3>6
  <2> QED BY <2>1, <2>2
<1>9. ASSUME NEW s \in 1..(n + 2), Voices(p, s, n + 1)
      PROVE  v.in_speech \/ Counted(lead, s, n + 1) <= v.run
  <2>1. CASE s = n + 2
    <3>1. Counted(lead, s, n + 1) = 0
      BY <2>1 DEF Counted
    <3> QED BY <1>5, <3>1 DEF Clocked
  <2>2. CASE s # n + 2
    <3>1. s \in 1..(n + 1)
      BY <2>2
    <3> QED BY <1>7, <1>9, <3>1
  <2> QED BY <2>1, <2>2
<1>10. (n + 1) + 1 = n + 2
  OBVIOUS
<1> QED BY <1>8, <1>9, <1>10 DEF RowsHeard, u, v

\* A break replaces what is in the ring; n is what the actor holds, at most
\* one frame.
LEMMA BrokenQueue ==
  ASSUME NEW n \in Nat, n <= 1, NEW q, NEW p, \A i \in 1..n : p[i] = q[i],
         NEW m \in Nat, n <= m, NEW old, NEW gate, DetectorInv(q, m, old, gate),
         NEW v, Clocked(v), NEW a, NEW lead,
         p[n + 1].gap, p[n + 1].edge = "ended" => ~p[n + 1].near,
         p[n + 1].near => (v.in_speech => v.run = 0) /\ a.warmup = 0 /\ a.tail = 0
  PROVE  DetectorInv(p, n + 1, v, a) /\ RowsHeard(p, n + 1, v, lead) /\ Ends(p, 0, n + 1)
<1>1. Ends(p, 0, n + 1) /\ \A i \in 1..n : Ends(p, i, n + 1) /\ ~Unbroken(p, i, n + 1)
  <2>1. \A i \in 0..n : n + 1 \in (i + 1)..(n + 1) /\ Closes(p[n + 1])
    BY DEF Closes
  <2> QED BY <2>1 DEF Ends, Unbroken
<1>2. \A s \in 1..(n + 1) : ~Voices(p, s, n + 1)
  BY DEF Voices
<1>3. v.run \in Nat
  BY DEF Clocked
<1>4. Settles(p, n + 1, a)
  BY <1>1 DEF Settles
<1>5. \A i \in 1..(n + 1) : p[i].edge = "ended" => ~p[i].near
  BY DEF DetectorInv, EndsLate
<1>6. \A i \in 1..(n + 1) : \A j \in (i + 1)..(n + 1) : ~Unbroken(p, i, j)
  <2>1. ASSUME NEW i \in 1..(n + 1), NEW j \in (i + 1)..(n + 1) PROVE i = 1 /\ n = 1 /\ j = n + 1
    OBVIOUS
  <2>2. ASSUME NEW i \in 1..(n + 1), NEW j \in (i + 1)..(n + 1) PROVE ~Unbroken(p, i, j)
    <3>1. i = 1 /\ n = 1 /\ j = n + 1
      BY <2>1
    <3> QED BY <1>1, <3>1
  <2> QED BY <2>2
<1>7. \A i \in 1..(n + 1) : p[i].near /\ Unbroken(p, i, n + 1) /\ v.in_speech => v.run <= n + 1 - i
  <2> SUFFICES ASSUME NEW i \in 1..(n + 1), p[i].near, Unbroken(p, i, n + 1), v.in_speech
               PROVE  v.run <= n + 1 - i
    OBVIOUS
  <2>1. i = n + 1
    BY <1>1
  <2> QED BY <2>1
<1>8. DetectorInv(p, n + 1, v, a)
  BY <1>4, <1>5, <1>6, <1>7 DEF DetectorInv, EndsLate
<1>9. \A i \in 1..(n + 1) : \A s \in 1..i :
        Voices(p, s, i) => v.in_speech \/ Ends(p, i, n + 1)
  <2> SUFFICES ASSUME NEW i \in 1..(n + 1), NEW s \in 1..i, Voices(p, s, i)
               PROVE  Ends(p, i, n + 1)
    OBVIOUS
  <2>1. i # n + 1
    BY <1>2
  <2> QED BY <1>1, <2>1
<1>10. \A s \in 1..((n + 1) + 1) : Voices(p, s, n + 1) => Counted(lead, s, n + 1) <= v.run
  <2> SUFFICES ASSUME NEW s \in 1..((n + 1) + 1), Voices(p, s, n + 1)
               PROVE  Counted(lead, s, n + 1) <= v.run
    OBVIOUS
  <2>1. s = n + 2
    BY <1>2
  <2>2. Counted(lead, s, n + 1) = 0
    BY <2>1 DEF Counted
  <2> QED BY <1>3, <2>2
<1> QED BY <1>1, <1>8, <1>9, <1>10 DEF RowsHeard

\* The actor takes the first frame of the queue.
LEMMA ShiftedDetector ==
  ASSUME NEW n \in Nat, NEW q, NEW p, \A i \in 1..n : p[i] = q[i + 1],
         NEW v, NEW a, DetectorInv(q, n + 1, v, a)
  PROVE  DetectorInv(p, n, v, a)
<1>1. Clocked(v) /\ Settles(q, n + 1, a) /\ EndsLate(q, n + 1, v)
  BY DEF DetectorInv
<1>2. ASSUME NEW i \in 1..n, NEW j \in i..n, Unbroken(p, i, j) PROVE Unbroken(q, i + 1, j + 1)
  <2> SUFFICES ASSUME NEW m \in (i + 2)..(j + 1) PROVE ~q[m].gap
    BY DEF Unbroken
  <2>1. m - 1 \in (i + 1)..j /\ m - 1 \in 1..n /\ (m - 1) + 1 = m
    OBVIOUS
  <2>2. p[m - 1] = q[m]
    BY <2>1
  <2> QED BY <1>2, <2>1, <2>2 DEF Unbroken
<1>3. Settles(p, n, a)
  <2> SUFFICES ASSUME NEW i \in 1..n, p[i].near, Unbroken(p, i, n)
               PROVE  /\ a.warmup = 0 \/ a.warmup + (n - i) >= Warmup
                      /\ a.tail = 0 \/ a.tail + (n - i) >= TailFrames
    BY DEF Settles
  <2>1. i + 1 \in 1..(n + 1) /\ q[i + 1].near /\ Unbroken(q, i + 1, n + 1)
    BY <1>2
  <2>2. (n + 1) - (i + 1) = n - i
    OBVIOUS
  <2>3. /\ a.warmup = 0 \/ a.warmup + ((n + 1) - (i + 1)) >= Warmup
        /\ a.tail = 0 \/ a.tail + ((n + 1) - (i + 1)) >= TailFrames
    BY <1>1, <2>1 DEF Settles
  <2> QED BY <2>2, <2>3
<1>4. \A i \in 1..n : p[i].edge = "ended" => ~p[i].near
  BY <1>1 DEF EndsLate
<1>5. ASSUME NEW i \in 1..n, NEW j \in (i + 1)..n,
             p[i].near, Unbroken(p, i, j), p[j].edge = "ended"
      PROVE  j - i >= VadEnd
  <2>1. /\ i + 1 \in 1..(n + 1) /\ j + 1 \in ((i + 1) + 1)..(n + 1)
        /\ q[i + 1].near /\ Unbroken(q, i + 1, j + 1) /\ q[j + 1].edge = "ended"
    BY <1>2, <1>5
  <2>2. (j + 1) - (i + 1) >= VadEnd
    BY <1>1, <2>1 DEF EndsLate
  <2> QED BY <2>2
<1>6. ASSUME NEW i \in 1..n, p[i].near, Unbroken(p, i, n), v.in_speech
      PROVE  v.run <= n - i
  <2>1. i + 1 \in 1..(n + 1) /\ q[i + 1].near /\ Unbroken(q, i + 1, n + 1)
    BY <1>2, <1>6
  <2>2. v.run <= (n + 1) - (i + 1)
    BY <1>1, <1>6, <2>1 DEF EndsLate
  <2> QED BY <2>2
<1>7. EndsLate(p, n, v)
  BY <1>4, <1>5, <1>6 DEF EndsLate
<1> QED BY <1>1, <1>3, <1>7 DEF DetectorInv

\* It counts no more voice than it has taken.
LEMMA ShiftedRows ==
  ASSUME NEW n \in Nat, NEW q, NEW p, \A i \in 1..n : p[i] = q[i + 1],
         NEW v, Clocked(v), NEW lead \in Int, RowsHeard(q, n + 1, v, lead),
         NEW new \in Int, new <= IF q[1].near /\ ~q[1].gap THEN lead + 1 ELSE 0
  PROVE  RowsHeard(p, n, v, new)
<1>1. ASSUME NEW i \in 1..n, Ends(q, i + 1, n + 1) PROVE Ends(p, i, n)
  <2>1. PICK j \in ((i + 1) + 1)..(n + 1) : Closes(q[j])
    BY <1>1 DEF Ends
  <2>2. j - 1 \in (i + 1)..n /\ (j - 1) + 1 = j /\ j - 1 \in 1..n
    OBVIOUS
  <2>3. p[j - 1] = q[j]
    BY <2>2
  <2> QED BY <2>1, <2>2, <2>3 DEF Ends
\* The same row in the old queue, and as long.
<1>2. ASSUME NEW i \in 0..n, NEW s \in 1..(i + 1), Voices(p, s, i)
      PROVE  \E t \in 1..(i + 2) : Voices(q, t, i + 1) /\ Counted(lead, t, i + 1) >= Counted(new, s, i)
  <2>1. Voices(q, s + 1, i + 1)
    <3> SUFFICES ASSUME NEW m \in (s + 1)..(i + 1) PROVE q[m].near /\ ~q[m].gap
      BY DEF Voices
    <3>1. m - 1 \in s..i /\ m - 1 \in 1..n /\ (m - 1) + 1 = m
      OBVIOUS
    <3>2. p[m - 1] = q[m]
      BY <3>1
    <3> QED BY <1>2, <3>1, <3>2 DEF Voices
  <2>2. Counted(lead, s + 1, i + 1) = i - s + 1
    BY DEF Counted
  <2>3. CASE s # 1
    <3>1. Counted(new, s, i) = i - s + 1
      BY <2>3 DEF Counted
    <3>2. s + 1 \in 1..(i + 2)
      OBVIOUS
    <3> QED BY <2>1, <2>2, <3>1, <3>2
  <2>4. CASE s = 1 /\ q[1].near /\ ~q[1].gap
    <3>1. Voices(q, 1, i + 1)
      <4> SUFFICES ASSUME NEW m \in 1..(i + 1) PROVE q[m].near /\ ~q[m].gap
        BY DEF Voices
      <4>1. m = 1 \/ m \in (s + 1)..(i + 1)
        BY <2>4
      <4> QED BY <2>1, <2>4, <4>1 DEF Voices
    <3>2. Counted(lead, 1, i + 1) = i + 1 + lead /\ Counted(new, s, i) = i + new
      BY <2>4 DEF Counted
    <3>3. new <= lead + 1 /\ 1 \in 1..(i + 2)
      BY <2>4
    <3> QED BY <3>1, <3>2, <3>3
  <2>5. CASE s = 1 /\ ~(q[1].near /\ ~q[1].gap)
    <3>1. new <= 0 /\ Counted(new, s, i) = i + new
      BY <2>5 DEF Counted
    <3>2. s + 1 \in 1..(i + 2) /\ i - s + 1 = i
      BY <2>5
    <3> QED BY <2>1, <2>2, <3>1, <3>2
  <2> QED BY <2>3, <2>4, <2>5
<1>3. ASSUME NEW i \in 0..n, NEW s \in 1..(i + 1) PROVE Counted(new, s, i) \in Int
  BY DEF Counted
<1>4. ASSUME NEW i \in 0..n, NEW t \in 1..(i + 2) PROVE Counted(lead, t, i + 1) \in Int
  BY DEF Counted
<1>5. ASSUME NEW i \in 1..n, NEW s \in 1..i, Voices(p, s, i), Counted(new, s, i) >= VadStart
      PROVE  v.in_speech \/ Ends(p, i, n)
  <2>1. PICK t \in 1..(i + 2) :
          Voices(q, t, i + 1) /\ Counted(lead, t, i + 1) >= Counted(new, s, i)
    BY <1>2, <1>5
  <2>2. Counted(lead, t, i + 1) \in Int /\ Counted(new, s, i) \in Int
    BY <1>3, <1>4
  <2>3. Counted(lead, t, i + 1) >= VadStart
    BY <1>5, <2>1, <2>2, Relations
  <2>4. t \in 1..(i + 1)
    <3>1. CASE t = i + 2
      <4>1. Counted(lead, t, i + 1) = 0
        BY <3>1 DEF Counted
      <4> QED BY <2>3, <4>1, Relations
    <3> QED BY <3>1
  <2>5. v.in_speech \/ Ends(q, i + 1, n + 1)
    BY <2>1, <2>3, <2>4 DEF RowsHeard
  <2> QED BY <1>1, <2>5
<1>6. ASSUME NEW s \in 1..(n + 1), Voices(p, s, n)
      PROVE  v.in_speech \/ Counted(new, s, n) <= v.run
  <2>1. PICK t \in 1..(n + 2) :
          Voices(q, t, n + 1) /\ Counted(lead, t, n + 1) >= Counted(new, s, n)
    BY <1>2, <1>6
  <2>2. Counted(lead, t, n + 1) \in Int /\ Counted(new, s, n) \in Int
    BY <1>3, <1>4
  <2>3. v.in_speech \/ Counted(lead, t, n + 1) <= v.run
    <3>1. (n + 1) + 1 = n + 2
      OBVIOUS
    <3> QED BY <2>1, <3>1 DEF RowsHeard
  <2>4. v.run \in Nat
    BY DEF Clocked
  <2> QED BY <2>1, <2>2, <2>3, <2>4
<1> QED BY <1>5, <1>6 DEF RowsHeard

\* Counting less asks for less.
LEMMA FewerRows ==
  ASSUME NEW n \in Nat, NEW q, NEW v, Clocked(v), NEW lead \in Int, RowsHeard(q, n, v, lead),
         NEW new \in Int, new <= lead
  PROVE  RowsHeard(q, n, v, new)
<1>1. ASSUME NEW i \in 0..n, NEW s \in 1..(i + 1)
      PROVE  /\ Counted(new, s, i) <= Counted(lead, s, i)
             /\ Counted(new, s, i) \in Int /\ Counted(lead, s, i) \in Int
  BY DEF Counted
<1>2. ASSUME NEW i \in 1..n, NEW s \in 1..i, Voices(q, s, i), Counted(new, s, i) >= VadStart
      PROVE  v.in_speech \/ Ends(q, i, n)
  <2>1. Counted(lead, s, i) >= VadStart
    BY <1>1, <1>2, Relations
  <2> QED BY <1>2, <2>1 DEF RowsHeard
<1>3. ASSUME NEW s \in 1..(n + 1), Voices(q, s, n)
      PROVE  v.in_speech \/ Counted(new, s, n) <= v.run
  <2>1. v.in_speech \/ Counted(lead, s, n) <= v.run
    BY <1>3 DEF RowsHeard
  <2>2. v.run \in Nat
    BY DEF Clocked
  <2> QED BY <1>1, <2>1, <2>2
<1> QED BY <1>2, <1>3 DEF RowsHeard

\* A reset takes back what was decided of the frames in the ring, not of the
\* one in the actor's hand.
LEMMA UndecidedDetector ==
  ASSUME NEW n \in Nat, NEW q, NEW p, NEW v, NEW a, DetectorInv(q, n, v, a),
         \A i \in 1..n : p[i].gap = q[i].gap /\ (p[i] = q[i] \/ (~p[i].near /\ p[i].edge = "none"))
  PROVE  DetectorInv(p, n, v, a)
<1>1. Clocked(v) /\ Settles(q, n, a) /\ EndsLate(q, n, v)
  BY DEF DetectorInv
<1>2. ASSUME NEW i \in 1..n, NEW j \in i..n, Unbroken(p, i, j) PROVE Unbroken(q, i, j)
  <2>1. \A m \in (i + 1)..j : q[m].gap = p[m].gap
    OBVIOUS
  <2> QED BY <1>2, <2>1 DEF Unbroken
<1>3. ASSUME NEW i \in 1..n
      PROVE  (p[i].near => q[i].near) /\ (p[i].edge = "ended" => q[i].edge = "ended" /\ p[i] = q[i])
  OBVIOUS
<1>4. Settles(p, n, a)
  BY <1>1, <1>2, <1>3 DEF Settles
<1>5. EndsLate(p, n, v)
  BY <1>1, <1>2, <1>3 DEF EndsLate
<1> QED BY <1>1, <1>4, <1>5 DEF DetectorInv

LEMMA UndecidedRows ==
  ASSUME NEW n \in Nat, NEW p, NEW v, Clocked(v), NEW h \in Nat, h <= 1, NEW lead \in Int,
         lead <= 0, h + lead <= 0, \A i \in 1..n : i > h => ~p[i].near
  PROVE  RowsHeard(p, n, v, lead)
<1>1. ASSUME NEW i \in 1..n, NEW s \in 1..i, Voices(p, s, i) PROVE Counted(lead, s, i) <= 0
  <2>1. p[i].near
    BY <1>1 DEF Voices
  <2>2. i = 1 /\ s = 1 /\ h = 1
    BY <2>1
  <2> QED BY <2>2 DEF Counted
<1>2. ASSUME NEW s \in 1..(n + 1), Voices(p, s, n) PROVE Counted(lead, s, n) <= 0
  <2>1. CASE s = n + 1
    BY <2>1 DEF Counted
  <2>2. CASE s # n + 1
    <3>1. n \in 1..n /\ s \in 1..n
      BY <2>2
    <3> QED BY <1>1, <1>2, <3>1
  <2> QED BY <2>1, <2>2
<1>3. \A i \in 0..n : \A s \in 1..(i + 1) : Counted(lead, s, i) \in Int
  BY DEF Counted
<1>4. ASSUME NEW i \in 1..n, NEW s \in 1..i, Voices(p, s, i), Counted(lead, s, i) >= VadStart
      PROVE  FALSE
  BY <1>1, <1>3, <1>4, Relations
<1>5. ASSUME NEW s \in 1..(n + 1), Voices(p, s, n) PROVE Counted(lead, s, n) <= v.run
  <2>1. v.run \in Nat
    BY DEF Clocked
  <2> QED BY <1>2, <1>3, <1>5, <2>1
<1> QED BY <1>4, <1>5 DEF RowsHeard

\* The frames of voice in a row that the actor has counted up to now. The
\* first one of a follow-up may be from before the reset, in its hand.
LeadOf(a) ==
  IF a.state \in Answering /\ a.probe = "idle" THEN a.frames
  ELSE IF a.state = "FollowUp" THEN a.follow - 1 ELSE 0

\* The utterance is being sent or waits to be, or is in doubt.
Awaits(a) == ((a.state = "Capturing" \/ a.admitted) /\ ~a.ended) \/ a.probe # "idle"

\* The states in which the detector is reset.
Rests(a) == a.state \in {"Wake", "Speech", "FollowUp"} /\ (a.state = "FollowUp" => a.follow = 0)

\* How a frame f gets the actor a to where r leaves it.
HearsWell(a, f, r) ==
  LET b == r.actor
  IN /\ "reset" \in r.does => Rests(b)
     /\ b.state # "Wake" /\ "reset" \notin r.does =>
          /\ a.state # "Wake"
          /\ b.state = "Speech" => a.state = "Speech"
          /\ LeadOf(b) <= IF f.near /\ ~f.gap THEN LeadOf(a) + 1 ELSE 0
     /\ (b.state = "Capturing" \/ b.admitted) /\ ~b.ended => ~f.gap /\
          \/ (a.state = "Capturing" \/ a.admitted) /\ ~a.ended /\ f.edge # "ended"
          \/ a.state = "Speech" /\ f.edge = "started"
          \/ a.state = "FollowUp" /\ f.near /\ a.follow + 1 >= FollowUpNear
          \/ a.probe = "verify" /\ f.near
     /\ b.probe = "low" => ~f.gap /\
          \/ a.probe = "low" /\ b.frames = a.frames + 1 /\ b.frames <= BargeReferenceWait
          \/ /\ a.state \in Answering /\ a.probe = "idle" /\ f.near
             /\ a.frames + 1 >= BargeCandidate /\ b.frames = 0
     /\ b.probe = "clear" => ~f.gap /\
          \/ a.probe = "low" /\ b.frames = 0 /\ a.frames + 1 <= BargeReferenceWait
          \/ a.probe = "clear" /\ b.frames = a.frames + 1 /\ b.frames < BargeEchoClear
     /\ b.probe = "verify" => ~f.gap /\
          \/ a.probe = "clear" /\ a.frames + 1 <= BargeEchoClear
          \/ a.probe = "verify" /\ f.near

\* Saving a frame changes nothing but the pre-roll.
LEMMA SavedKeeps ==
  ASSUME NEW a, Good(a), NEW f \in Frame, NEW loud \in BOOLEAN
  PROVE  LET b == Saved(a, f, loud)
         IN /\ b \in ActorType /\ SameCounts(a, b) /\ b.ended = a.ended /\ b.follow = a.follow
<1>1. a \in ActorType
  BY DEF Good
<1>2. Saved(a, f, loud) \in ActorType /\ SameCounts(a, Saved(a, f, loud))
      /\ Saved(a, f, loud).ended = a.ended
  BY SavedGood DEF SavedWell
<1> DEFINE u == Unfrozen(a, f)
           belongs == Belongs(u, loud)
           limit == IF u.probe # "idle" \/ Waiting(u) THEN BargeBuffer ELSE PreRoll
           said == IF belongs THEN u.spoken + 1 ELSE 0
           kept == IF u.pre < limit THEN u.pre + 1 ELSE u.pre
           over == IF said > kept THEN kept ELSE said
           miss == belongs /\ (u.missed \/ said > kept)
           waits == [u EXCEPT !.missed = @ \/ (f.near /\ ~u.ended)]
           x == [u EXCEPT !.full = TRUE]
           y == [u EXCEPT !.pre = kept, !.spoken = over, !.missed = miss]
<1>3. u \in ActorType
  BY <1>1, UnfrozenGood
<1>4. u.follow = a.follow
  BY <1>1 DEF ActorType, Unfrozen
<1>5. Saved(a, f, loud) \in {u, waits, x, y}
  BY DEF Saved, Save
<1> HIDE DEF u, kept, over, miss
<1>6. waits.follow = u.follow /\ x.follow = u.follow /\ y.follow = u.follow
  BY <1>3 DEF ActorType
<1> HIDE DEF waits, x, y
<1>7. Saved(a, f, loud).follow = a.follow
  BY <1>4, <1>5, <1>6
<1> QED BY <1>2, <1>7

\* A step that leaves nothing to wait for.
LEMMA QuietHears ==
  ASSUME NEW a, NEW f, NEW b, NEW does, b.probe = "idle", ~b.admitted, b.state # "Capturing",
         "reset" \in does => Rests(b),
         b.state # "Wake" /\ "reset" \notin does =>
           /\ a.state # "Wake"
           /\ b.state = "Speech" => a.state = "Speech"
           /\ LeadOf(b) <= IF f.near /\ ~f.gap THEN LeadOf(a) + 1 ELSE 0
  PROVE  HearsWell(a, f, Result(b, does))
BY ResultIs DEF HearsWell

LEMMA DiscontinuityHears ==
  ASSUME NEW a, Good(a), NEW f, f.gap
  PROVE  HearsWell(a, f, Discontinuity(a))
<1> DEFINE n == NoPreRoll(a)
           r == ResetBargeTurn(n)
           c1 == [r EXCEPT !.finish = TRUE]
           c2 == [n EXCEPT !.state = "Wake"]
           d == ResetBargeTurn(ResetBargeProbe(n))
           c3 == [d EXCEPT !.finish = TRUE, !.state = "CancelPending"]
<1>1. a \in ActorType /\ ActorInv(a)
  BY DEF Good
<1>2. n \in ActorType /\ SameCounts(a, n)
  BY <1>1, NoPreRollGood
<1>3. d \in ActorType /\ d.probe = "idle" /\ ~d.admitted
  BY <1>2, ResetsGood
<1>4. r \in ActorType /\ r.state = n.state /\ r.probe = n.probe /\ ~r.admitted
  <2> HIDE DEF n
  <2> QED BY <1>2 DEF ActorType, ResetBargeTurn
<1>5. CASE a.state = "CancelPending"
  <2>1. Discontinuity(a) = Result(c1, {})
    BY <1>5 DEF Discontinuity, Stay, Answering
  <2> HIDE DEF n, r
  <2>2. c1.state = "CancelPending" /\ c1.probe = n.probe /\ ~c1.admitted
    BY <1>2, <1>4, <1>5 DEF ActorType, SameCounts
  <2> HIDE DEF c1
  <2>3. c1.probe = "idle" /\ LeadOf(c1) = 0
    BY <1>1, <1>2, <1>5, <2>2 DEF ActorInv, SameCounts, Answering, LeadOf
  <2> QED BY <1>5, <2>1, <2>2, <2>3, QuietHears
<1>6. CASE a.state \in Answering \cup {"Capturing", "Response"}
  <2>1. Discontinuity(a) = Result(c3, {"drop", "unmute"})
    BY <1>6 DEF Discontinuity, AbortCurrent, Answering
  <2> HIDE DEF d
  <2>2. c3.state = "CancelPending" /\ c3.probe = "idle" /\ ~c3.admitted
    BY <1>3 DEF ActorType
  <2> HIDE DEF c3
  <2>3. LeadOf(c3) = 0 /\ a.state # "Wake"
    BY <1>6, <2>2 DEF LeadOf, Answering
  <2> QED BY <2>1, <2>2, <2>3, QuietHears
<1>7. CASE a.state \notin Answering \cup {"Capturing", "Response", "CancelPending"}
  <2>1. Discontinuity(a) = Result(c2, {"drop", "reset"})
    <3>1. a.state # "CancelPending" /\ ~(a.state \in Answering \cup {"Capturing", "Response"})
      BY <1>7
    <3> QED BY <3>1 DEF Discontinuity
  <2> HIDE DEF n
  <2>2. c2.state = "Wake" /\ c2.probe = n.probe /\ c2.admitted = n.admitted
    BY <1>2 DEF ActorType
  <2> HIDE DEF c2
  <2>3. c2.probe = "idle" /\ ~c2.admitted /\ Rests(c2)
    BY <1>1, <1>2, <1>7, <2>2 DEF ActorInv, ActorType, SameCounts, Rests
  <2> QED BY <2>1, <2>2, <2>3, QuietHears
<1> QED BY <1>5, <1>6, <1>7

LEMMA RejectedHears ==
  ASSUME NEW a, NEW f, NEW b \in ActorType, b.state = a.state, a.state \in Answering,
         a.frames \in Nat, a.probe # "idle"
  PROVE  HearsWell(a, f, Rejected(b))
<1> DEFINE c == ResetBargeTurn(ResetBargeProbe(b))
           d == [c EXCEPT !.cooldown = BargeRetryCooldown]
<1>1. /\ c \in ActorType /\ c.state = b.state /\ c.frames = 0 /\ c.probe = "idle" /\ ~c.admitted
  BY ResetsGood
<1>2. Rejected(b) = Result(d, {"unmute"})
  BY DEF Rejected
<1> HIDE DEF c
<1>3. d.state = a.state /\ d.frames = 0 /\ d.probe = "idle" /\ ~d.admitted
  BY <1>1 DEF ActorType
<1> HIDE DEF d
<1>4. LeadOf(d) = 0 /\ LeadOf(a) = 0
  BY <1>3 DEF LeadOf, Answering
<1> QED BY <1>2, <1>3, <1>4, QuietHears DEF Answering

LEMMA CandidateHears ==
  ASSUME NEW a, Good(a), NEW f, ~f.gap, NEW loud \in BOOLEAN, loud => f.near,
         NEW b \in ActorType, SameCounts(a, b), a.state \in Answering, a.probe = "idle"
  PROVE  HearsWell(a, f, Candidate(b, loud))
<1> DEFINE c1 == [b EXCEPT !.cooldown = @ - 1]
           c2 == [b EXCEPT !.frames = 0]
           c3 == [b EXCEPT !.frames = @ + 1]
           k == KeepNewest(b, BargeCandidate)
           r == ResetBargeTurn(k)
           c4 == [r EXCEPT !.frames = 0, !.probe = "low"]
<1>1. /\ a.frames \in Nat /\ a.cooldown \in Nat /\ ~a.admitted
      /\ a.cooldown # 0 => a.frames = 0
      /\ LeadOf(a) = a.frames
  BY DEF Good, ActorInv, ActorType, Answering, LeadOf
<1>2. /\ b.state = a.state /\ b.probe = "idle" /\ b.frames = a.frames /\ b.cooldown = a.cooldown
      /\ ~b.admitted
  BY <1>1 DEF SameCounts
<1>3. ASSUME NEW c, c.state = a.state, c.probe = "idle", ~c.admitted, c.frames \in Nat,
             c.frames = 0 \/ (f.near /\ c.frames = a.frames + 1)
      PROVE  HearsWell(a, f, Result(c, {}))
  <2>1. LeadOf(c) = c.frames /\ c.state # "Capturing" /\ c.state \notin {"Wake", "Speech"}
    BY <1>3 DEF LeadOf, Answering
  <2>2. LeadOf(c) <= IF f.near /\ ~f.gap THEN LeadOf(a) + 1 ELSE 0
    BY <1>1, <1>3, <2>1
  <2> QED BY <1>3, <2>1, <2>2, QuietHears
<1>4. CASE b.cooldown # 0
  <2>1. Candidate(b, loud) = Result(c1, {})
    BY <1>4 DEF Candidate, Stay
  <2>2. c1.state = b.state /\ c1.probe = b.probe /\ c1.admitted = b.admitted /\ c1.frames = b.frames
    BY DEF ActorType
  <2> HIDE DEF c1
  <2> QED BY <1>1, <1>2, <1>3, <1>4, <2>1, <2>2
<1>5. CASE b.cooldown = 0 /\ ~loud
  <2>1. Candidate(b, loud) = Result(c2, {})
    BY <1>5 DEF Candidate, Stay
  <2>2. c2.state = b.state /\ c2.probe = b.probe /\ c2.admitted = b.admitted /\ c2.frames = 0
    BY DEF ActorType
  <2> HIDE DEF c2
  <2> QED BY <1>2, <1>3, <2>1, <2>2
<1>6. CASE b.cooldown = 0 /\ loud /\ b.frames + 1 < BargeCandidate
  <2>1. Candidate(b, loud) = Result(c3, {})
    BY <1>6 DEF Candidate, Stay
  <2>2. /\ c3.state = b.state /\ c3.probe = b.probe /\ c3.admitted = b.admitted
        /\ c3.frames = b.frames + 1
    BY DEF ActorType
  <2> HIDE DEF c3
  <2>3. c3.frames \in Nat /\ c3.frames = a.frames + 1
    BY <1>1, <1>2, <2>2
  <2>4. f.near
    BY <1>6
  <2>5. HearsWell(a, f, Result(c3, {}))
    BY <1>2, <1>3, <2>2, <2>3, <2>4, Zenon
  <2> QED BY <2>1, <2>5
<1>7. CASE b.cooldown = 0 /\ loud /\ ~(b.frames + 1 < BargeCandidate)
  <2>1. Candidate(b, loud) = Result(c4, {"mute"})
    BY <1>7 DEF Candidate
  <2>2. k \in ActorType /\ SameCounts(b, k)
    BY Sizes DEF ActorType, KeepNewest, SameCounts
  <2> HIDE DEF k
  <2>3. r \in ActorType /\ r.state = k.state /\ ~r.admitted
    BY <2>2 DEF ActorType, ResetBargeTurn
  <2> HIDE DEF r
  <2>4. c4.state = r.state /\ c4.frames = 0 /\ c4.probe = "low" /\ ~c4.admitted
    BY <2>3 DEF ActorType
  <2> HIDE DEF c4
  <2>5. c4.state = a.state
    BY <1>2, <2>2, <2>3, <2>4 DEF SameCounts
  <2>6. c4.state \notin {"Capturing", "Wake", "Speech"} /\ LeadOf(c4) = 0 /\ a.state # "Wake"
    BY <2>4, <2>5 DEF LeadOf, Answering
  <2>7. a.frames + 1 >= BargeCandidate /\ f.near
    BY <1>1, <1>2, <1>7, Sizes
  <2> QED BY <1>1, <2>1, <2>4, <2>6, <2>7, ResultIs DEF HearsWell
<1> QED BY <1>4, <1>5, <1>6, <1>7

LEMMA AwaitReferenceLowHears ==
  ASSUME NEW a, Good(a), NEW f, ~f.gap, NEW b \in ActorType, SameCounts(a, b), a.probe = "low"
  PROVE  HearsWell(a, f, AwaitReferenceLow(b, f))
<1> DEFINE low == IF f.reference THEN 0 ELSE b.quiet + 1
           c1 == [b EXCEPT !.frames = b.frames + 1, !.quiet = low]
           c2 == [b EXCEPT !.frames = 0, !.quiet = low, !.probe = "clear"]
<1>1. a.state \in Answering /\ ~a.admitted /\ a.frames \in Nat
  BY DEF Good, ActorInv, ActorType, Answering
<1>2. /\ b.state = a.state /\ b.probe = "low" /\ b.frames = a.frames /\ ~b.admitted
  BY <1>1 DEF SameCounts
<1> HIDE DEF low
<1>3. /\ c1.state = b.state /\ c1.probe = b.probe /\ c1.admitted = b.admitted
      /\ c1.frames = b.frames + 1
      /\ c2.state = b.state /\ c2.probe = "clear" /\ c2.admitted = b.admitted /\ c2.frames = 0
  BY DEF ActorType
<1>4. CASE b.frames + 1 > BargeReferenceWait
  BY <1>1, <1>2, <1>4, RejectedHears DEF AwaitReferenceLow
<1>5. CASE ~(b.frames + 1 > BargeReferenceWait)
  <2>1. AwaitReferenceLow(b, f) \in {Result(c1, {}), Result(c2, {})}
    BY <1>5 DEF AwaitReferenceLow, Stay, low
  <2> HIDE DEF c1, c2
  <2>2. LeadOf(c1) = 0 /\ LeadOf(c2) = 0 /\ LeadOf(a) = 0 /\ a.state \notin {"Wake", "Capturing", "Speech"}
    BY <1>1, <1>2, <1>3 DEF LeadOf, Answering
  <2>3. b.frames + 1 <= BargeReferenceWait
    BY <1>1, <1>2, <1>5, Sizes
  <2>4. HearsWell(a, f, Result(c1, {}))
    BY <1>2, <1>3, <2>2, <2>3, ResultIs DEF HearsWell
  <2>5. HearsWell(a, f, Result(c2, {}))
    BY <1>2, <1>3, <2>2, <2>3, ResultIs DEF HearsWell
  <2> QED BY <2>1, <2>4, <2>5
<1> QED BY <1>4, <1>5

LEMMA AwaitEchoClearHears ==
  ASSUME NEW a, Good(a), NEW f, ~f.gap, NEW b \in ActorType, SameCounts(a, b), a.probe = "clear"
  PROVE  HearsWell(a, f, AwaitEchoClear(b, f))
<1> DEFINE c1 == [b EXCEPT !.frames = b.frames + 1]
           c2 == [b EXCEPT !.frames = 0, !.probe = "verify"]
<1>1. a.state \in Answering /\ ~a.admitted /\ a.frames \in Nat /\ a.frames < BargeEchoClear
  BY DEF Good, ActorInv, ActorType, Answering, Kept
<1>2. /\ b.state = a.state /\ b.probe = "clear" /\ b.frames = a.frames /\ ~b.admitted
  BY <1>1 DEF SameCounts
<1>3. /\ c1.state = b.state /\ c1.probe = b.probe /\ c1.admitted = b.admitted
      /\ c1.frames = b.frames + 1
      /\ c2.state = b.state /\ c2.probe = "verify" /\ c2.admitted = b.admitted /\ c2.frames = 0
  BY DEF ActorType
<1>4. CASE f.reference
  BY <1>1, <1>2, <1>4, RejectedHears DEF AwaitEchoClear
<1>5. CASE ~f.reference
  <2>1. AwaitEchoClear(b, f) =
          IF b.frames + 1 < BargeEchoClear THEN Result(c1, {}) ELSE Result(c2, {})
    BY <1>5 DEF AwaitEchoClear, Stay
  <2> HIDE DEF c1, c2
  <2>2. LeadOf(c1) = 0 /\ LeadOf(c2) = 0 /\ LeadOf(a) = 0 /\ a.state \notin {"Wake", "Capturing", "Speech"}
    BY <1>1, <1>2, <1>3 DEF LeadOf, Answering
  <2>3. a.frames + 1 <= BargeEchoClear
    BY <1>1, Sizes
  <2>4. b.frames + 1 < BargeEchoClear => HearsWell(a, f, Result(c1, {}))
    BY <1>2, <1>3, <2>2, ResultIs DEF HearsWell
  <2>5. HearsWell(a, f, Result(c2, {}))
    BY <1>2, <1>3, <2>2, <2>3, ResultIs DEF HearsWell
  <2> QED BY <2>1, <2>4, <2>5
<1> QED BY <1>4, <1>5

LEMMA VerifyHears ==
  ASSUME NEW a, Good(a), NEW f, ~f.gap, NEW loud \in BOOLEAN, loud => f.near,
         NEW b \in ActorType, SameCounts(a, b), a.probe = "verify"
  PROVE  HearsWell(a, f, Verify(b, f, loud))
<1> DEFINE c1 == [b EXCEPT !.frames = b.frames + 1]
           r == ResetBargeProbe(b)
           c2 == [r EXCEPT !.admitted = TRUE, !.ended = FALSE, !.silence = 0,
                           !.full = FALSE, !.finish = FALSE, !.state = "CancelPending"]
<1>1. a.state \in Answering /\ ~a.admitted /\ a.frames \in Nat
  BY DEF Good, ActorInv, ActorType, Answering
<1>2. /\ b.state = a.state /\ b.probe = "verify" /\ b.frames = a.frames /\ ~b.admitted
  BY <1>1 DEF SameCounts
<1>3. /\ c1.state = b.state /\ c1.probe = b.probe /\ c1.admitted = b.admitted
  BY DEF ActorType
<1>4. CASE f.reference \/ ~loud
  BY <1>1, <1>2, <1>4, RejectedHears DEF Verify
<1>5. CASE ~(f.reference \/ ~loud)
  <2>1. Verify(b, f, loud) \in {Result(c1, {}), Result(c2, {"drop", "unmute"})}
    BY <1>5 DEF Verify, ConfirmBarge, Stay
  <2>2. r \in ActorType /\ r.probe = "idle"
    BY DEF ActorType, ResetBargeProbe
  <2> HIDE DEF r
  <2>3. c2.state = "CancelPending" /\ c2.probe = "idle"
    BY <2>2 DEF ActorType
  <2> HIDE DEF c1, c2
  <2>4. LeadOf(c1) = 0 /\ LeadOf(c2) = 0 /\ LeadOf(a) = 0 /\ a.state \notin {"Wake", "Capturing", "Speech"}
    BY <1>1, <1>2, <1>3, <2>3 DEF LeadOf, Answering
  <2>5. f.near
    BY <1>5
  <2>6. HearsWell(a, f, Result(c1, {}))
    BY <1>2, <1>3, <2>4, <2>5, ResultIs DEF HearsWell
  <2>7. HearsWell(a, f, Result(c2, {"drop", "unmute"}))
    BY <2>3, <2>4, <2>5, ResultIs DEF HearsWell
  <2> QED BY <2>1, <2>6, <2>7
<1> QED BY <1>4, <1>5

LEMMA HandleBargeHears ==
  ASSUME NEW a, Good(a), NEW f, ~f.gap, NEW loud \in BOOLEAN, loud => f.near,
         NEW b \in ActorType, SameCounts(a, b), a.state \in Answering
  PROVE  HearsWell(a, f, HandleBarge(b, f, loud))
<1>1. b.probe = a.probe /\ a.probe \in {"idle", "low", "clear", "verify"}
  BY DEF SameCounts, Good, ActorType
<1>2. CASE a.probe = "idle"
  BY <1>1, <1>2, CandidateHears DEF HandleBarge
<1>3. CASE a.probe = "low"
  BY <1>1, <1>3, AwaitReferenceLowHears DEF HandleBarge
<1>4. CASE a.probe = "clear"
  BY <1>1, <1>4, AwaitEchoClearHears DEF HandleBarge
<1>5. CASE a.probe = "verify"
  BY <1>1, <1>5, VerifyHears DEF HandleBarge
<1> QED BY <1>1, <1>2, <1>3, <1>4, <1>5

LEMMA StartTurnIs ==
  ASSUME NEW a \in ActorType, NEW ended \in BOOLEAN
  PROVE  LET b == StartTurn(a, ended)
         IN /\ b \in ActorType /\ b.state = (IF ended THEN "Response" ELSE "Capturing")
            /\ b.probe = a.probe /\ b.admitted = a.admitted /\ b.ended = a.ended
<1> DEFINE n == NoPreRoll(a)
<1>1. n \in ActorType /\ SameCounts(a, n) /\ n.ended = a.ended
  BY NoPreRollGood
<1> HIDE DEF n
<1>2. StartTurn(a, ended) = [n EXCEPT !.state = IF ended THEN "Response" ELSE "Capturing"]
  BY DEF StartTurn, n
<1> QED BY <1>1, <1>2 DEF ActorType, SameCounts, States

\* What a frame does to the actor.
LEMMA OnFrameHears ==
  ASSUME NEW a, Good(a), NEW f \in Frame, NEW loud \in BOOLEAN, loud => f.near,
         NEW wake \in BOOLEAN
  PROVE  HearsWell(a, f, OnFrame(a, f, loud, wake))
<1> DEFINE b == Saved(a, f, loud)
<1>1. a \in ActorType /\ ActorInv(a) /\ a.follow \in Nat
  BY DEF Good, ActorType
<1>2. /\ b \in ActorType /\ SameCounts(a, b) /\ b.ended = a.ended /\ b.follow = a.follow
      /\ b.state = a.state /\ b.probe = a.probe /\ b.admitted = a.admitted
  BY SavedKeeps DEF SameCounts
<1> HIDE DEF b
<1>3. CASE f.gap
  BY <1>3, DiscontinuityHears DEF OnFrame
<1>4. CASE ~f.gap /\ a.state \in Answering
  <2>1. OnFrame(a, f, loud, wake) = HandleBarge(b, f, loud)
    BY <1>2, <1>4 DEF OnFrame, b, Answering
  <2> QED BY <1>2, <1>4, <2>1, HandleBargeHears
<1>5. ASSUME a.state \notin Answering
      PROVE  a.probe = "idle" /\ (a.state # "CancelPending" => ~a.admitted)
  BY <1>1, <1>5 DEF ActorInv, ActorType
<1>6. CASE ~f.gap /\ a.state = "Wake"
  <2> DEFINE c == [b EXCEPT !.state = "Speech"]
  <2>1. c.state = "Speech" /\ c.probe = b.probe /\ c.admitted = b.admitted
    BY <1>2 DEF ActorType
  <2>2. OnFrame(a, f, loud, wake) = IF wake THEN Result(c, {"reset"}) ELSE Result(b, {})
    BY <1>2, <1>6 DEF OnFrame, b, Answering, Stay
  <2> HIDE DEF c
  <2>3. c.probe = "idle" /\ ~c.admitted /\ Rests(c) /\ b.probe = "idle" /\ ~b.admitted
    BY <1>2, <1>5, <1>6, <2>1 DEF Answering, Rests
  <2>4. HearsWell(a, f, Result(c, {"reset"}))
    BY <2>1, <2>3, QuietHears
  <2>5. HearsWell(a, f, Result(b, {}))
    BY <1>2, <1>6, <2>3, QuietHears
  <2> QED BY <2>2, <2>4, <2>5
<1>7. CASE ~f.gap /\ a.state = "Speech"
  <2> DEFINE c == StartTurn(b, FALSE)
  <2>1. c.state = "Capturing" /\ c.probe = b.probe /\ c.admitted = b.admitted
    BY <1>2, StartTurnIs
  <2>2. OnFrame(a, f, loud, wake) =
          IF f.edge = "started" THEN Result(c, {}) ELSE Result(b, {})
    BY <1>2, <1>7 DEF OnFrame, b, Answering, Stay
  <2> HIDE DEF c
  <2>3. c.probe = "idle" /\ ~c.admitted /\ b.probe = "idle" /\ ~b.admitted
    BY <1>2, <1>5, <1>7, <2>1 DEF Answering
  <2>4. LeadOf(c) = 0 /\ LeadOf(b) = 0 /\ LeadOf(a) = 0
    BY <1>2, <1>7, <2>1 DEF LeadOf, Answering
  <2>5. f.edge = "started" => HearsWell(a, f, Result(c, {}))
    BY <1>7, <2>1, <2>3, <2>4, ResultIs DEF HearsWell
  <2>6. HearsWell(a, f, Result(b, {}))
    BY <1>2, <1>7, <2>3, <2>4, QuietHears
  <2> QED BY <2>2, <2>5, <2>6
<1>8. CASE ~f.gap /\ a.state = "FollowUp"
  <2> DEFINE c1 == [b EXCEPT !.follow = 0]
             c2 == [b EXCEPT !.follow = @ + 1]
             s == StartTurn(b, FALSE)
             c3 == [s EXCEPT !.follow = 0]
  <2>1. s \in ActorType /\ s.state = "Capturing" /\ s.probe = b.probe /\ s.admitted = b.admitted
    BY <1>2, StartTurnIs
  <2>2. OnFrame(a, f, loud, wake) =
          IF ~f.near THEN Result(c1, {})
          ELSE IF b.follow + 1 < FollowUpNear THEN Result(c2, {}) ELSE Result(c3, {})
    BY <1>2, <1>8 DEF OnFrame, b, Answering, AwaitFollowUp, Stay
  <2> HIDE DEF s
  <2>3. /\ c1.state = "FollowUp" /\ c1.follow = 0 /\ c1.probe = b.probe /\ c1.admitted = b.admitted
        /\ c2.state = "FollowUp" /\ c2.follow = a.follow + 1 /\ c2.probe = b.probe
        /\ c2.admitted = b.admitted
        /\ c3.state = "Capturing" /\ c3.probe = b.probe /\ c3.admitted = b.admitted
    BY <1>2, <1>8, <2>1 DEF ActorType
  <2> HIDE DEF c1, c2, c3
  <2>4. /\ LeadOf(c1) = -1 /\ LeadOf(c2) = a.follow /\ LeadOf(c3) = 0 /\ LeadOf(a) = a.follow - 1
    BY <1>1, <1>8, <2>3 DEF LeadOf, Answering
  <2>5. b.probe = "idle" /\ ~b.admitted
    BY <1>2, <1>5, <1>8 DEF Answering
  <2>6. HearsWell(a, f, Result(c1, {}))
    <3>1. LeadOf(c1) <= IF f.near /\ ~f.gap THEN LeadOf(a) + 1 ELSE 0
      BY <1>1, <2>4
    <3> QED BY <1>8, <2>3, <2>5, <3>1, QuietHears
  <2>7. f.near => HearsWell(a, f, Result(c2, {}))
    <3>1. f.near => LeadOf(c2) <= IF f.near /\ ~f.gap THEN LeadOf(a) + 1 ELSE 0
      BY <1>1, <1>8, <2>4
    <3> QED BY <1>8, <2>3, <2>5, <3>1, QuietHears
  <2>8. f.near /\ ~(b.follow + 1 < FollowUpNear) => HearsWell(a, f, Result(c3, {}))
    <3> SUFFICES ASSUME f.near, ~(b.follow + 1 < FollowUpNear)
                 PROVE  HearsWell(a, f, Result(c3, {}))
      OBVIOUS
    <3>1. LeadOf(c3) <= IF f.near /\ ~f.gap THEN LeadOf(a) + 1 ELSE 0
      BY <1>1, <1>8, <2>4
    <3>2. a.follow + 1 >= FollowUpNear
      BY <1>1, <1>2, Sizes
    <3>3. Result(c3, {}).actor = c3 /\ Result(c3, {}).does = {}
      BY ResultIs
    <3> QED BY <1>8, <2>3, <2>5, <3>1, <3>2, <3>3 DEF HearsWell
  <2> QED BY <2>2, <2>6, <2>7, <2>8
<1>9. CASE ~f.gap /\ a.state = "Capturing"
  <2> DEFINE c == [b EXCEPT !.ended = FALSE, !.state = "Response"]
  <2>1. c.state = "Response" /\ c.probe = b.probe /\ c.admitted = b.admitted
    BY <1>2 DEF ActorType
  <2>2. OnFrame(a, f, loud, wake) =
          IF b.ended \/ f.edge = "ended" THEN Result(c, {}) ELSE Result(b, {})
    BY <1>2, <1>9 DEF OnFrame, b, Answering, Stay
  <2> HIDE DEF c
  <2>3. b.probe = "idle" /\ ~b.admitted /\ c.probe = "idle" /\ ~c.admitted
    BY <1>2, <1>5, <1>9, <2>1 DEF Answering
  <2>4. LeadOf(c) = 0 /\ LeadOf(b) = 0 /\ LeadOf(a) = 0
    BY <1>2, <1>9, <2>1 DEF LeadOf, Answering
  <2>5. HearsWell(a, f, Result(c, {}))
    BY <1>9, <2>1, <2>3, <2>4, QuietHears
  <2>6. ~(b.ended \/ f.edge = "ended") => HearsWell(a, f, Result(b, {}))
    BY <1>2, <1>9, <2>3, <2>4, ResultIs DEF HearsWell
  <2> QED BY <2>2, <2>5, <2>6
<1>10. CASE ~f.gap /\ a.state = "CancelPending"
  <2> DEFINE quiet == IF f.near THEN 0 ELSE IF b.silence < BargeTailFreeze THEN b.silence + 1
                                            ELSE b.silence
             e == b.ended \/ f.edge = "ended"
             c == [b EXCEPT !.silence = quiet, !.ended = e]
  <2>1. OnFrame(a, f, loud, wake) = Track(b, f)
    BY <1>2, <1>10 DEF OnFrame, b, Answering
  <2>2. Track(b, f) = Result(c, {})
    BY DEF Track, Stay
  <2> HIDE DEF quiet, e
  <2>3. c.state = b.state /\ c.probe = b.probe /\ c.admitted = b.admitted /\ c.ended = e
    BY <1>2 DEF ActorType
  <2> HIDE DEF c
  <2>4. LeadOf(c) = 0 /\ LeadOf(a) = 0 /\ c.probe = "idle"
    BY <1>2, <1>5, <1>10, <2>3 DEF LeadOf, Answering
  <2>5. ~c.ended => ~a.ended /\ f.edge # "ended"
    BY <1>2, <2>3 DEF e
  <2>6. HearsWell(a, f, Result(c, {}))
    BY <1>2, <1>10, <2>3, <2>4, <2>5, ResultIs DEF HearsWell
  <2> QED BY <2>1, <2>2, <2>6
<1>11. CASE ~f.gap /\ a.state = "Response"
  <2>1. OnFrame(a, f, loud, wake) = Result(b, {})
    BY <1>2, <1>11 DEF OnFrame, b, Answering, Stay
  <2>2. LeadOf(b) = 0 /\ LeadOf(a) = 0 /\ b.probe = "idle" /\ ~b.admitted
    BY <1>2, <1>5, <1>11 DEF LeadOf, Answering
  <2> QED BY <1>2, <1>11, <2>1, <2>2, QuietHears
<1>12. a.state \in States /\ f.gap \in BOOLEAN
  BY <1>1 DEF ActorType, Frame
<1> QED BY <1>3, <1>4, <1>6, <1>7, <1>8, <1>9, <1>10, <1>11, <1>12 DEF States, Answering

\* An event or a deadline ends a turn, or goes on with what was said into it.
EndsWell(a, r) ==
  LET b == r.actor
  IN /\ "reset" \in r.does => Rests(b)
     /\ b.probe = "idle" /\ ~b.admitted
     /\ b.state # "Speech" /\ (b.state = "Wake" \/ "reset" \in r.does \/ LeadOf(b) = 0)
     /\ b.state = "Capturing" => a.admitted /\ ~a.ended

LEMMA EventsHear ==
  ASSUME NEW a, Good(a), NEW normal
  PROVE  /\ EndsWell(a, FinishTurn(a, normal)) /\ EndsWell(a, AbortCurrent(a))
         /\ EndsWell(a, LoseConnection(a))
         /\ a.state = "CancelPending" => EndsWell(a, CompleteCancel(a))
         /\ a.state \in {"Speech", "FollowUp"} =>
              EndsWell(a, Result([NoPreRoll(a) EXCEPT !.state = "Wake"], {"reset"}))
<1>1. a \in ActorType /\ ActorInv(a)
  BY DEF Good
<1>2. ASSUME NEW x \in ActorType, NEW n PROVE EndsWell(a, FinishTurn(x, n))
  <2> DEFINE b == ResetBargeTurn(ResetBargeProbe(x))
             c == [b EXCEPT !.follow = 0, !.finish = FALSE, !.state = "FollowUp"]
  <2>1. b \in ActorType /\ b.probe = "idle" /\ ~b.admitted
    BY ResetsGood
  <2>2. FollowUp(x) = c
    BY DEF FollowUp
  <2> HIDE DEF b
  <2>3. c.state = "FollowUp" /\ c.follow = 0 /\ c.probe = "idle" /\ ~c.admitted
    BY <2>1 DEF ActorType
  <2> HIDE DEF c
  <2>4. FinishTurn(x, n).actor = c /\ "reset" \in FinishTurn(x, n).does
    BY <2>2, ResultIs DEF FinishTurn
  <2> QED BY <2>3, <2>4 DEF EndsWell, Rests
<1>3. EndsWell(a, AbortCurrent(a))
  <2> DEFINE b == ResetBargeTurn(ResetBargeProbe(a))
             c == [b EXCEPT !.finish = TRUE, !.state = "CancelPending"]
  <2>1. b \in ActorType /\ b.probe = "idle" /\ ~b.admitted
    BY <1>1, ResetsGood
  <2>2. AbortCurrent(a) = Result(c, {"drop", "unmute"})
    BY DEF AbortCurrent
  <2> HIDE DEF b
  <2>3. c.state = "CancelPending" /\ c.probe = "idle" /\ ~c.admitted
    BY <2>1 DEF ActorType
  <2> HIDE DEF c
  <2>4. LeadOf(c) = 0
    BY <2>3 DEF LeadOf, Answering
  <2> QED BY <2>2, <2>3, <2>4, ResultIs DEF EndsWell
<1>4. EndsWell(a, LoseConnection(a))
  <2>1. LoseConnection(a).actor = NewActor
    BY ResultIs DEF LoseConnection
  <2>2. NewActor.state = "Wake" /\ NewActor.probe = "idle" /\ ~NewActor.admitted
    BY DEF NewActor
  <2> QED BY <2>1, <2>2 DEF EndsWell, Rests
<1> DEFINE n == NoPreRoll(a)
<1>5. n \in ActorType /\ SameCounts(a, n)
  BY <1>1, NoPreRollGood
<1>6. ASSUME a.state = "CancelPending" PROVE EndsWell(a, CompleteCancel(a))
  <2> DEFINE s == StartTurn(a, a.ended)
             c == [s EXCEPT !.admitted = FALSE, !.ended = FALSE, !.finish = FALSE]
  <2>1. a.probe = "idle" /\ a.ended \in BOOLEAN
    BY <1>1, <1>6 DEF ActorInv, ActorType, Answering
  <2>2. /\ s \in ActorType /\ s.state = (IF a.ended THEN "Response" ELSE "Capturing")
        /\ s.probe = "idle"
    BY <1>1, <2>1, StartTurnIs
  <2> HIDE DEF s
  <2>3. c.state = s.state /\ c.probe = "idle" /\ ~c.admitted
    BY <2>2 DEF ActorType
  <2> HIDE DEF c
  <2>4. LeadOf(c) = 0 /\ c.state \in {"Response", "Capturing"} /\ (c.state = "Capturing" => ~a.ended)
    BY <2>1, <2>2, <2>3 DEF LeadOf, Answering
  <2>5. a.admitted => EndsWell(a, Result(c, {"drop"}))
    BY <2>3, <2>4, ResultIs DEF EndsWell
  <2>6. \/ CompleteCancel(a) \in {FinishTurn(a, FALSE), FinishTurn(n, FALSE)}
        \/ a.admitted /\ CompleteCancel(a) = Result(c, {"drop"})
    BY DEF CompleteCancel, ResumeAfterBarge, c, s
  <2> QED BY <1>1, <1>2, <1>5, <2>5, <2>6
<1>7. ASSUME a.state \in {"Speech", "FollowUp"}
      PROVE  EndsWell(a, Result([NoPreRoll(a) EXCEPT !.state = "Wake"], {"reset"}))
  <2> DEFINE c == [n EXCEPT !.state = "Wake"]
  <2> HIDE DEF n
  <2>1. c.state = "Wake" /\ c.probe = n.probe /\ c.admitted = n.admitted
    BY <1>5 DEF ActorType
  <2> HIDE DEF c
  <2>2. c.probe = "idle" /\ ~c.admitted
    BY <1>1, <1>5, <1>7, <2>1 DEF ActorInv, ActorType, SameCounts, Answering
  <2>3. EndsWell(a, Result(c, {"reset"}))
    BY <2>1, <2>2, ResultIs DEF EndsWell, Rests
  <2> QED BY <2>3 DEF c, n
<1> QED BY <1>1, <1>2, <1>3, <1>4, <1>6, <1>7

\* Frames that a probe has let by since its candidate, at most.
Spent(a) == IF a.probe = "low" THEN a.frames ELSE BargeReferenceWait + a.frames

Heard(q, n, v, lost) == v.in_speech \/ lost \/ Ends(q, 0, n)

\* The actor and the detector: what the actor waits for the end of, the
\* detector hears or has told of; in a probe there is time before the end can
\* be told; and who waits for speech to start finds it going on.
HearingInv(q, n, v, gate, a, lost, told) ==
  /\ DetectorInv(q, n, v, gate)
  /\ told => RowsHeard(q, n, v, LeadOf(a))
  /\ Awaits(a) => Heard(q, n, v, lost)
  /\ a.probe \in {"low", "clear"} /\ Unbroken(q, 0, n) =>
       /\ \A j \in 1..n : q[j].edge = "ended" => j + Spent(a) >= VadEnd
       /\ v.in_speech => v.run <= Spent(a) + n
  /\ told /\ a.state = "Speech" =>
       \A i \in 1..n : q[i].edge = "started" => v.in_speech \/ lost \/ Ends(q, i, n)

LEMMA ActorNumbers ==
  ASSUME NEW a, Good(a)
  PROVE  /\ LeadOf(a) \in Int /\ Spent(a) \in Nat /\ a.frames \in Nat /\ a.follow \in Nat
         /\ a.admitted \in BOOLEAN /\ a.ended \in BOOLEAN
         /\ a.state # "FollowUp" => LeadOf(a) >= 0
         /\ a.admitted => a.state = "CancelPending"
         /\ a.probe # "idle" => a.state \in Answering
         /\ Rests(a) => ~Awaits(a) /\ a.probe = "idle"
         /\ Awaits(a) => CountsOnDetector(a)
<1>1. /\ a.frames \in Nat /\ a.follow \in Nat /\ a.admitted \in BOOLEAN /\ a.ended \in BOOLEAN
      /\ a.admitted => a.state = "CancelPending"
      /\ a.state \notin Answering => a.probe = "idle"
  BY DEF Good, ActorType, ActorInv
<1>2. LeadOf(a) \in Int /\ (a.state # "FollowUp" => LeadOf(a) >= 0)
  BY <1>1 DEF LeadOf
<1>3. Spent(a) \in Nat
  BY <1>1, Sizes DEF Spent
<1>4. Rests(a) => ~Awaits(a) /\ a.probe = "idle"
  BY <1>1 DEF Rests, Awaits, Answering
<1>5. Awaits(a) => CountsOnDetector(a)
  BY <1>1 DEF Awaits, CountsOnDetector
<1> QED BY <1>1, <1>2, <1>3, <1>4, <1>5

LEMMA PushedHearing ==
  ASSUME NEW n \in Nat, n <= CaptureSlots, NEW q, NEW p, \A i \in 1..n : p[i] = q[i],
         Gate(aec), pcm \in PcmType, Good(act), NEW told \in BOOLEAN, forgotten \in BOOLEAN,
         HearingInv(q, n, vad, aec, act, forgotten, told),
         NEW now \in BOOLEAN, NEW reference \in BOOLEAN,
         p[n + 1].near <=> now /\ ~Suppresses(Gated(reference)),
         p[n + 1].edge = Edge(UpdateVad(now)), ~p[n + 1].gap,
         NEW v, v = IF Expires(Gated(reference)) THEN NewVad ELSE UpdateVad(now),
         NEW lost, lost = (forgotten \/ ForgetsSpeech(now, reference))
  PROVE  HearingInv(p, n + 1, v, RunDown(Gated(reference)), act, lost, told)
<1> DEFINE u == UpdateVad(now)
           a == RunDown(Gated(reference))
<1>1. DetectorInv(q, n, vad, aec) /\ Clocked(vad) /\ vad.run \in Nat
  BY DEF HearingInv, DetectorInv, Clocked
<1>2. DetectorInv(p, n + 1, v, a)
  BY <1>1, PushedDetector
<1>3. told => RowsHeard(p, n + 1, v, LeadOf(act))
  <2> SUFFICES ASSUME told PROVE RowsHeard(p, n + 1, v, LeadOf(act))
    OBVIOUS
  <2>1. RowsHeard(q, n, vad, LeadOf(act))
    BY DEF HearingInv
  <2>2. LeadOf(act) \in Int
    BY ActorNumbers
  <2> QED BY <1>1, <2>1, <2>2, PushedRows
<1>4. /\ now /\ u.in_speech => u.run = 0
      /\ ~now /\ u.in_speech => vad.in_speech /\ u.run = vad.run + 1
      /\ Edge(u) = "ended" <=> vad.in_speech /\ ~u.in_speech
      /\ Edge(u) = "ended" => vad.run + 1 = VadEnd
      /\ Edge(u) = "started" => u.in_speech
  BY <1>1, TurnIs
<1>5. p[n + 1].edge = Edge(u)
  OBVIOUS
<1>6. ~NewVad.in_speech
  BY DEF NewVad
<1>7. CountsOnDetector(act) /\ u.in_speech => v.in_speech \/ lost
  BY DEF ForgetsSpeech
<1>8. v.in_speech => v = u
  BY <1>6
<1> HIDE DEF u, a
<1>9. ASSUME NEW i \in 0..n, Ends(q, i, n) PROVE Ends(p, i, n + 1)
  <2>1. PICK j \in (i + 1)..n : Closes(q[j])
    BY <1>9 DEF Ends
  <2>2. j \in (i + 1)..(n + 1) /\ p[j] = q[j]
    OBVIOUS
  <2> QED BY <2>1, <2>2 DEF Ends
\* Speech goes on, is over, or is forgotten.
<1>10. ASSUME NEW i \in 0..n, CountsOnDetector(act), vad.in_speech \/ forgotten \/ Ends(q, i, n)
       PROVE  v.in_speech \/ lost \/ Ends(p, i, n + 1)
  <2>1. CASE vad.in_speech /\ ~u.in_speech
    <3>1. p[n + 1].edge = "ended" /\ n + 1 \in (i + 1)..(n + 1)
      BY <1>4, <1>5, <2>1
    <3> QED BY <3>1 DEF Ends, Closes
  <2>2. CASE u.in_speech
    BY <1>7, <1>10, <2>2
  <2>3. CASE forgotten \/ Ends(q, i, n)
    BY <1>9, <2>3
  <2> QED BY <1>10, <2>1, <2>2, <2>3
<1>11. Awaits(act) => Heard(p, n + 1, v, lost)
  <2> SUFFICES ASSUME Awaits(act) PROVE Heard(p, n + 1, v, lost)
    OBVIOUS
  <2>1. CountsOnDetector(act)
    BY ActorNumbers
  <2>2. vad.in_speech \/ forgotten \/ Ends(q, 0, n)
    BY DEF HearingInv, Heard
  <2>3. 0 \in 0..n
    OBVIOUS
  <2> QED BY <1>10, <2>1, <2>2, <2>3 DEF Heard
<1>12. ASSUME act.probe \in {"low", "clear"}, Unbroken(p, 0, n + 1)
       PROVE  /\ \A j \in 1..(n + 1) : p[j].edge = "ended" => j + Spent(act) >= VadEnd
              /\ v.in_speech => v.run <= Spent(act) + (n + 1)
  <2>1. Unbroken(q, 0, n)
    <3>1. \A m \in 1..n : p[m] = q[m] /\ m \in 1..(n + 1)
      OBVIOUS
    <3> QED BY <1>12, <3>1 DEF Unbroken
  <2>2. /\ \A j \in 1..n : q[j].edge = "ended" => j + Spent(act) >= VadEnd
        /\ vad.in_speech => vad.run <= Spent(act) + n
    BY <1>12, <2>1 DEF HearingInv
  <2>3. Spent(act) \in Nat
    BY ActorNumbers
  <2>4. p[n + 1].edge = "ended" => n + 1 + Spent(act) >= VadEnd
    BY <1>1, <1>4, <1>5, <2>2, <2>3
  <2>5. v.in_speech => v.run <= Spent(act) + (n + 1)
    <3> SUFFICES ASSUME v.in_speech PROVE v.run <= Spent(act) + (n + 1)
      OBVIOUS
    <3>1. v = u
      BY <1>8
    <3>2. u.run = 0 \/ (vad.in_speech /\ u.run = vad.run + 1)
      BY <1>4, <3>1
    <3> QED BY <1>1, <2>2, <2>3, <3>1, <3>2
  <2>6. \A j \in 1..n : p[j].edge = "ended" => j + Spent(act) >= VadEnd
    BY <2>2
  <2> QED BY <2>4, <2>5, <2>6
<1>13. ASSUME told, act.state = "Speech", NEW i \in 1..(n + 1), p[i].edge = "started"
       PROVE  v.in_speech \/ lost \/ Ends(p, i, n + 1)
  <2>1. CountsOnDetector(act)
    BY <1>13 DEF CountsOnDetector
  <2>2. CASE i = n + 1
    BY <1>4, <1>5, <1>7, <1>13, <2>1, <2>2
  <2>3. CASE i # n + 1
    <3>1. i \in 1..n /\ i \in 0..n /\ q[i].edge = "started"
      BY <1>13, <2>3
    <3>2. vad.in_speech \/ forgotten \/ Ends(q, i, n)
      BY <1>13, <3>1 DEF HearingInv
    <3> QED BY <1>10, <2>1, <3>1, <3>2
  <2> QED BY <2>2, <2>3
<1>14. DetectorInv(p, n + 1, v, RunDown(Gated(reference)))
  BY <1>2 DEF a
<1> QED BY <1>3, <1>11, <1>12, <1>13, <1>14 DEF HearingInv

LEMMA BrokenHearing ==
  ASSUME NEW n \in Nat, n <= 1, NEW q, NEW p, \A i \in 1..n : p[i] = q[i],
         NEW m \in Nat, n <= m, NEW old, NEW gate, DetectorInv(q, m, old, gate),
         NEW v, Clocked(v), NEW g, NEW a, NEW lost, NEW told,
         p[n + 1].gap, p[n + 1].edge = "ended" => ~p[n + 1].near,
         p[n + 1].near => (v.in_speech => v.run = 0) /\ g.warmup = 0 /\ g.tail = 0,
         a.state = "Speech" /\ p[n + 1].edge = "started" => v.in_speech \/ lost
  PROVE  HearingInv(p, n + 1, v, g, a, lost, told)
<1>1. /\ DetectorInv(p, n + 1, v, g) /\ RowsHeard(p, n + 1, v, LeadOf(a))
      /\ Ends(p, 0, n + 1)
  BY BrokenQueue
<1>2. Heard(p, n + 1, v, lost)
  BY <1>1 DEF Heard
<1>3. ~Unbroken(p, 0, n + 1)
  <2>1. n + 1 \in (0 + 1)..(n + 1)
    OBVIOUS
  <2> QED BY <2>1 DEF Unbroken
<1>4. ASSUME a.state = "Speech", NEW i \in 1..(n + 1), p[i].edge = "started"
      PROVE  v.in_speech \/ lost \/ Ends(p, i, n + 1)
  <2>1. CASE i = n + 1
    BY <1>4, <2>1
  <2>2. CASE i # n + 1
    <3>1. n + 1 \in (i + 1)..(n + 1)
      BY <2>2
    <3> QED BY <3>1 DEF Ends, Closes
  <2> QED BY <2>1, <2>2
<1> QED BY <1>1, <1>2, <1>3, <1>4 DEF HearingInv

\* The end of speech does not come in a probe: it has been no time for it.
LEMMA ProbeOutlasted ==
  ASSUME NEW n \in Nat, NEW q, NEW v, NEW gate, NEW a, Good(a), NEW lost, NEW told,
         HearingInv(q, n + 1, v, gate, a, lost, told),
         a.probe \in {"low", "clear"}, ~q[1].gap, Spent(a) + 1 < VadEnd, Closes(q[1])
  PROVE  \E m \in 2..(n + 1) : q[m].gap
<1>1. q[1].edge = "ended"
  BY DEF Closes
<1>2. Spent(a) \in Nat
  BY ActorNumbers
<1>3. ~(1 + Spent(a) >= VadEnd)
  BY <1>2, Relations
<1>4. ~Unbroken(q, 0, n + 1)
  <2>1. 1 \in 1..(n + 1)
    OBVIOUS
  <2> QED BY <1>1, <1>3, <2>1 DEF HearingInv
<1>5. PICK m \in (0 + 1)..(n + 1) : q[m].gap
  BY <1>4 DEF Unbroken
<1>6. m # 1
  BY <1>5
<1>7. m \in 2..(n + 1)
  BY <1>6
<1> QED BY <1>5, <1>7

\* The actor takes a frame and acts on it.
LEMMA ShiftedHearing ==
  ASSUME NEW n \in Nat, NEW q, NEW p, \A i \in 1..n : p[i] = q[i + 1],
         NEW v, NEW gate, NEW a, Good(a), NEW lost \in BOOLEAN,
         HearingInv(q, n + 1, v, gate, a, lost, a.state # "Wake"),
         NEW r, Good(r.actor), HearsWell(a, q[1], r)
  PROVE  HearingInv(p, n, v, gate, r.actor, lost /\ CountsOnDetector(r.actor),
                    r.actor.state # "Wake" /\ "reset" \notin r.does)
<1> DEFINE b == r.actor
           f == q[1]
           told == b.state # "Wake" /\ "reset" \notin r.does
<1>1. /\ Good(b) /\ HearsWell(a, f, r)
      /\ DetectorInv(q, n + 1, v, gate) /\ Clocked(v) /\ EndsLate(q, n + 1, v)
  BY DEF HearingInv, DetectorInv
<1>2. DetectorInv(p, n, v, gate)
  BY <1>1, ShiftedDetector
<1>3. ASSUME NEW i \in 0..n, Ends(q, i + 1, n + 1) PROVE Ends(p, i, n)
  <2>1. PICK j \in ((i + 1) + 1)..(n + 1) : Closes(q[j])
    BY <1>3 DEF Ends
  <2>2. j - 1 \in (i + 1)..n /\ (j - 1) + 1 = j /\ j - 1 \in 1..n
    OBVIOUS
  <2>3. p[j - 1] = q[j]
    BY <2>2
  <2> QED BY <2>1, <2>2, <2>3 DEF Ends
<1>4. Ends(q, 1, n + 1) => Ends(p, 0, n)
  <2>1. 0 \in 0..n /\ 0 + 1 = 1
    OBVIOUS
  <2> QED BY <1>3, <2>1
<1>5. Ends(q, 0, n + 1) => Closes(f) \/ Ends(q, 1, n + 1)
  <2> SUFFICES ASSUME NEW j \in (0 + 1)..(n + 1), Closes(q[j]), j # 1
               PROVE  j \in (1 + 1)..(n + 1)
    BY DEF Ends
  <2> QED OBVIOUS
<1>6. f.near => f.edge # "ended"
  <2>1. 1 \in 1..(n + 1)
    OBVIOUS
  <2> QED BY <1>1, <2>1 DEF EndsLate
<1>7. /\ LeadOf(a) \in Int /\ LeadOf(b) \in Int /\ Spent(a) \in Nat
      /\ a.frames \in Nat /\ b.frames \in Nat /\ a.follow \in Nat
      /\ Awaits(b) => CountsOnDetector(b)
  BY <1>1, ActorNumbers
\* The frame makes a row as long as the detector asks for.
<1>8. ASSUME a.state # "Wake", f.near, ~f.gap, LeadOf(a) + 1 >= VadStart
      PROVE  v.in_speech \/ Ends(p, 0, n)
  <2>1. RowsHeard(q, n + 1, v, LeadOf(a))
    BY <1>8 DEF HearingInv
  <2>2. 1 \in 1..(n + 1) /\ 1 \in 1..1 /\ Counted(LeadOf(a), 1, 1) = LeadOf(a) + 1
    BY <1>7 DEF Counted
  <2>3. Voices(q, 1, 1)
    BY <1>8 DEF Voices
  <2>4. v.in_speech \/ Ends(q, 1, n + 1)
    BY <1>8, <2>1, <2>2, <2>3 DEF RowsHeard
  <2> QED BY <1>4, <2>4
\* What was waited for is still to come.
<1>9. ASSUME Awaits(a), ~Closes(f) \/ Ends(p, 0, n)
      PROVE  v.in_speech \/ lost \/ Ends(p, 0, n)
  <2>1. v.in_speech \/ lost \/ Ends(q, 0, n + 1)
    BY <1>9 DEF HearingInv, Heard
  <2> QED BY <1>4, <1>5, <1>9, <2>1
<1>10. ASSUME a.probe \in {"low", "clear"}, ~f.gap, Spent(a) + 1 < VadEnd
       PROVE  v.in_speech \/ lost \/ Ends(p, 0, n)
  <2>1. Awaits(a)
    BY <1>10 DEF Awaits
  <2>2. Closes(f) => Ends(p, 0, n)
    <3> SUFFICES ASSUME Closes(f) PROVE Ends(p, 0, n)
      OBVIOUS
    <3>1. PICK m \in 2..(n + 1) : q[m].gap
      BY <1>10, ProbeOutlasted
    <3>2. m \in (1 + 1)..(n + 1) /\ Closes(q[m])
      BY <3>1 DEF Closes
    <3>3. Ends(q, 1, n + 1)
      BY <3>2 DEF Ends
    <3> QED BY <1>4, <3>3
  <2> QED BY <1>9, <2>1, <2>2
<1>11. ASSUME a.probe = "verify", f.near, ~f.gap
       PROVE  v.in_speech \/ lost \/ Ends(p, 0, n)
  <2>1. Awaits(a) /\ ~Closes(f)
    BY <1>6, <1>11 DEF Awaits, Closes
  <2> QED BY <1>9, <2>1
<1> DEFINE waits == (b.state = "Capturing" \/ b.admitted) /\ ~b.ended
<1>12. ASSUME waits PROVE v.in_speech \/ lost \/ Ends(p, 0, n)
  <2>1. /\ ~f.gap
        /\ \/ (a.state = "Capturing" \/ a.admitted) /\ ~a.ended /\ f.edge # "ended"
           \/ a.state = "Speech" /\ f.edge = "started"
           \/ a.state = "FollowUp" /\ f.near /\ a.follow + 1 >= FollowUpNear
           \/ a.probe = "verify" /\ f.near
    BY <1>1, <1>12, Zenon DEF HearsWell
  <2>2. CASE (a.state = "Capturing" \/ a.admitted) /\ ~a.ended /\ f.edge # "ended"
    <3>1. Awaits(a) /\ ~Closes(f)
      BY <2>1, <2>2 DEF Awaits, Closes
    <3> QED BY <1>9, <3>1
  <2>3. CASE a.state = "Speech" /\ f.edge = "started"
    <3>1. 1 \in 1..(n + 1) /\ a.state # "Wake"
      BY <2>3
    <3>2. v.in_speech \/ lost \/ Ends(q, 1, n + 1)
      BY <2>3, <3>1 DEF HearingInv
    <3> QED BY <1>4, <3>2
  <2>4. CASE a.state = "FollowUp" /\ f.near /\ a.follow + 1 >= FollowUpNear
    <3>1. LeadOf(a) = a.follow - 1
      BY <2>4 DEF LeadOf, Answering
    <3>2. LeadOf(a) + 1 >= VadStart
      BY <1>7, <2>4, <3>1, Relations, Sizes
    <3> QED BY <1>8, <2>1, <2>4, <3>2
  <2>5. CASE a.probe = "verify" /\ f.near
    BY <1>11, <2>1, <2>5
  <2> QED BY <2>1, <2>2, <2>3, <2>4, <2>5
\* The probe's time.
<1>13. ASSUME b.probe \in {"low", "clear"}, a.probe \in {"low", "clear"}, ~f.gap,
              Spent(b) >= Spent(a) + 1, Spent(b) \in Nat, Unbroken(p, 0, n)
       PROVE  /\ \A j \in 1..n : p[j].edge = "ended" => j + Spent(b) >= VadEnd
              /\ v.in_speech => v.run <= Spent(b) + n
  <2>1. Unbroken(q, 0, n + 1)
    <3> SUFFICES ASSUME NEW m \in (0 + 1)..(n + 1) PROVE ~q[m].gap
      BY DEF Unbroken
    <3>1. CASE m = 1
      BY <1>13, <3>1
    <3>2. CASE m # 1
      <4>1. m - 1 \in (0 + 1)..n /\ m - 1 \in 1..n /\ (m - 1) + 1 = m
        BY <3>2
      <4>2. p[m - 1] = q[m]
        BY <4>1
      <4> QED BY <1>13, <4>1, <4>2 DEF Unbroken
    <3> QED BY <3>1, <3>2
  <2>2. /\ \A j \in 1..(n + 1) : q[j].edge = "ended" => j + Spent(a) >= VadEnd
        /\ v.in_speech => v.run <= Spent(a) + (n + 1)
    BY <1>13, <2>1 DEF HearingInv
  <2>3. ASSUME NEW j \in 1..n, p[j].edge = "ended" PROVE j + Spent(b) >= VadEnd
    <3>1. j + 1 \in 1..(n + 1) /\ q[j + 1].edge = "ended"
      BY <2>3
    <3>2. (j + 1) + Spent(a) >= VadEnd
      BY <2>2, <3>1
    <3> QED BY <1>7, <1>13, <3>2, Relations
  <2>4. v.run \in Nat
    BY <1>1 DEF Clocked
  <2> QED BY <1>7, <1>13, <2>2, <2>3, <2>4
<1>14. ASSUME b.probe = "low", b.frames = 0, f.near, Unbroken(p, 0, n)
       PROVE  /\ \A j \in 1..n : p[j].edge = "ended" => j + Spent(b) >= VadEnd
              /\ v.in_speech => v.run <= Spent(b) + n
  <2>1. Spent(b) = 0 /\ 1 \in 1..(n + 1)
    BY <1>14 DEF Spent
  <2>2. ASSUME NEW k \in 1..n PROVE Unbroken(q, 1, k + 1)
    <3> SUFFICES ASSUME NEW m \in (1 + 1)..(k + 1) PROVE ~q[m].gap
      BY DEF Unbroken
    <3>1. m - 1 \in (0 + 1)..n /\ m - 1 \in 1..n /\ (m - 1) + 1 = m
      OBVIOUS
    <3>2. p[m - 1] = q[m]
      BY <3>1
    <3> QED BY <1>14, <3>1, <3>2 DEF Unbroken
  <2>3. ASSUME NEW j \in 1..n, p[j].edge = "ended" PROVE j + Spent(b) >= VadEnd
    <3>1. j + 1 \in (1 + 1)..(n + 1) /\ q[j + 1].edge = "ended" /\ Unbroken(q, 1, j + 1)
      BY <2>2, <2>3
    <3>2. (j + 1) - 1 >= VadEnd
      BY <1>1, <1>14, <2>1, <3>1 DEF EndsLate
    <3> QED BY <2>1, <3>2
  <2>4. v.in_speech => v.run <= Spent(b) + n
    <3> SUFFICES ASSUME v.in_speech PROVE v.run <= Spent(b) + n
      OBVIOUS
    <3>1. Unbroken(q, 1, n + 1)
      <4>1. CASE n = 0
        BY <4>1 DEF Unbroken
      <4>2. CASE n # 0
        <5>1. n \in 1..n
          BY <4>2
        <5> QED BY <2>2, <5>1
      <4> QED BY <4>1, <4>2
    <3>2. v.run <= (n + 1) - 1
      BY <1>1, <1>14, <2>1, <3>1 DEF EndsLate
    <3> QED BY <2>1, <3>2
  <2> QED BY <2>3, <2>4
<1>15. ASSUME b.probe = "low"
       PROVE  /\ v.in_speech \/ lost \/ Ends(p, 0, n)
              /\ Unbroken(p, 0, n) =>
                   /\ \A j \in 1..n : p[j].edge = "ended" => j + Spent(b) >= VadEnd
                   /\ v.in_speech => v.run <= Spent(b) + n
  <2>1. /\ ~f.gap
        /\ \/ a.probe = "low" /\ b.frames = a.frames + 1 /\ b.frames <= BargeReferenceWait
           \/ /\ a.state \in Answering /\ a.probe = "idle" /\ f.near
              /\ a.frames + 1 >= BargeCandidate /\ b.frames = 0
    BY <1>1, <1>15, Zenon DEF HearsWell
  <2>2. CASE a.probe = "low" /\ b.frames = a.frames + 1 /\ b.frames <= BargeReferenceWait
    <3>1. Spent(b) = Spent(a) + 1 /\ Spent(b) \in Nat /\ Spent(a) + 1 < VadEnd
      BY <1>7, <1>15, <2>2, Sizes, Relations DEF Spent
    <3>2. Spent(b) >= Spent(a) + 1
      BY <1>7, <3>1
    <3> QED BY <1>10, <1>13, <1>15, <2>1, <2>2, <3>1, <3>2
  <2>3. CASE /\ a.state \in Answering /\ a.probe = "idle" /\ f.near
             /\ a.frames + 1 >= BargeCandidate /\ b.frames = 0
    <3>1. LeadOf(a) = a.frames /\ a.state # "Wake"
      BY <2>3 DEF LeadOf, Answering
    <3>2. LeadOf(a) + 1 >= VadStart
      BY <1>7, <2>3, <3>1, Sizes, Relations
    <3> QED BY <1>8, <1>14, <1>15, <2>1, <2>3, <3>1, <3>2
  <2> QED BY <2>1, <2>2, <2>3
<1>16. ASSUME b.probe = "clear"
       PROVE  /\ v.in_speech \/ lost \/ Ends(p, 0, n)
              /\ Unbroken(p, 0, n) =>
                   /\ \A j \in 1..n : p[j].edge = "ended" => j + Spent(b) >= VadEnd
                   /\ v.in_speech => v.run <= Spent(b) + n
  <2>1. /\ ~f.gap
        /\ \/ a.probe = "low" /\ b.frames = 0 /\ a.frames + 1 <= BargeReferenceWait
           \/ a.probe = "clear" /\ b.frames = a.frames + 1 /\ b.frames < BargeEchoClear
    BY <1>1, <1>16, Zenon DEF HearsWell
  <2>2. Spent(b) >= Spent(a) + 1 /\ Spent(b) \in Nat /\ Spent(a) + 1 < VadEnd
    <3>1. Spent(b) = BargeReferenceWait + b.frames
      BY <1>16 DEF Spent
    <3>2. CASE a.probe = "low" /\ b.frames = 0 /\ a.frames + 1 <= BargeReferenceWait
      <4>1. Spent(a) = a.frames
        BY <3>2 DEF Spent
      <4> QED BY <1>7, <3>1, <3>2, <4>1, Sizes, Relations
    <3>3. CASE a.probe = "clear" /\ b.frames = a.frames + 1 /\ b.frames < BargeEchoClear
      <4>1. Spent(a) = BargeReferenceWait + a.frames
        BY <3>3 DEF Spent
      <4> QED BY <1>7, <3>1, <3>3, <4>1, Sizes, Relations
    <3> QED BY <2>1, <3>2, <3>3
  <2> QED BY <1>10, <1>13, <1>16, <2>1, <2>2
<1>17. ASSUME b.probe = "verify" PROVE v.in_speech \/ lost \/ Ends(p, 0, n)
  <2>1. /\ ~f.gap
        /\ \/ a.probe = "clear" /\ a.frames + 1 <= BargeEchoClear
           \/ a.probe = "verify" /\ f.near
    BY <1>1, <1>17, Zenon DEF HearsWell
  <2>2. CASE a.probe = "clear" /\ a.frames + 1 <= BargeEchoClear
    <3>1. Spent(a) = BargeReferenceWait + a.frames
      BY <2>2 DEF Spent
    <3>2. Spent(a) + 1 < VadEnd
      BY <1>7, <2>2, <3>1, Sizes, Relations
    <3> QED BY <1>10, <2>1, <2>2, <3>2
  <2>3. CASE a.probe = "verify" /\ f.near
    BY <1>11, <2>1, <2>3
  <2> QED BY <2>1, <2>2, <2>3
<1>18. b.probe \in {"idle", "low", "clear", "verify"}
  BY <1>1 DEF Good, ActorType
<1>19. ASSUME Awaits(b) PROVE Heard(p, n, v, lost /\ CountsOnDetector(b))
  <2>1. CountsOnDetector(b)
    BY <1>7, <1>19
  <2>2. waits \/ b.probe # "idle"
    BY <1>19 DEF Awaits
  <2>3. v.in_speech \/ lost \/ Ends(p, 0, n)
    BY <1>12, <1>15, <1>16, <1>17, <1>18, <2>2
  <2> QED BY <2>1, <2>3 DEF Heard
<1>20. ASSUME told
       PROVE  a.state # "Wake" /\ (b.state = "Speech" => a.state = "Speech")
              /\ RowsHeard(p, n, v, LeadOf(b))
  <2>1. /\ a.state # "Wake" /\ (b.state = "Speech" => a.state = "Speech")
        /\ LeadOf(b) <= IF f.near /\ ~f.gap THEN LeadOf(a) + 1 ELSE 0
    BY <1>1, <1>20, Zenon DEF HearsWell
  <2>2. RowsHeard(q, n + 1, v, LeadOf(a))
    BY <2>1 DEF HearingInv
  <2>3. RowsHeard(p, n, v, LeadOf(b))
    BY <1>1, <1>7, <2>1, <2>2, ShiftedRows
  <2> QED BY <2>1, <2>3
<1>21. ASSUME told, b.state = "Speech", NEW i \in 1..n, p[i].edge = "started"
       PROVE  v.in_speech \/ (lost /\ CountsOnDetector(b)) \/ Ends(p, i, n)
  <2>1. a.state = "Speech" /\ a.state # "Wake"
    BY <1>20, <1>21
  <2>2. i + 1 \in 1..(n + 1) /\ q[i + 1].edge = "started" /\ i \in 0..n
    BY <1>21
  <2>3. v.in_speech \/ lost \/ Ends(q, i + 1, n + 1)
    BY <2>1, <2>2 DEF HearingInv
  <2>4. CountsOnDetector(b)
    BY <1>21 DEF CountsOnDetector
  <2> QED BY <1>3, <2>2, <2>3, <2>4
<1>22. b.probe \in {"low", "clear"} /\ Unbroken(p, 0, n) =>
         /\ \A j \in 1..n : p[j].edge = "ended" => j + Spent(b) >= VadEnd
         /\ v.in_speech => v.run <= Spent(b) + n
  BY <1>15, <1>16
<1> QED BY <1>2, <1>19, <1>20, <1>21, <1>22 DEF HearingInv

\* An event ends the turn or goes on with what was said into it.
LEMMA EventHearing ==
  ASSUME NEW n \in Nat, NEW q, NEW v, NEW gate, NEW a, Good(a), NEW lost \in BOOLEAN,
         HearingInv(q, n, v, gate, a, lost, a.state # "Wake"),
         NEW r, Good(r.actor), EndsWell(a, r),
         r.actor.state = "Wake" \/ "reset" \in r.does \/ a.state \notin {"Wake", "FollowUp"}
  PROVE  HearingInv(q, n, v, gate, r.actor, lost /\ CountsOnDetector(r.actor),
                    r.actor.state # "Wake" /\ "reset" \notin r.does)
<1> DEFINE b == r.actor
           told == b.state # "Wake" /\ "reset" \notin r.does
<1>1. DetectorInv(q, n, v, gate) /\ Clocked(v)
  BY DEF HearingInv, DetectorInv
<1>2. /\ LeadOf(a) \in Int /\ LeadOf(b) \in Int
      /\ a.state # "FollowUp" => LeadOf(a) >= 0
      /\ Awaits(b) => CountsOnDetector(b)
  BY ActorNumbers
<1>3. /\ b.probe = "idle" /\ ~b.admitted
      /\ told => LeadOf(b) = 0 /\ b.state # "Speech"
      /\ b.state = "Capturing" => a.admitted /\ ~a.ended
  BY DEF EndsWell
<1>4. told => RowsHeard(q, n, v, LeadOf(b))
  <2> SUFFICES ASSUME told PROVE RowsHeard(q, n, v, LeadOf(b))
    OBVIOUS
  <2>1. a.state # "Wake" /\ a.state # "FollowUp"
    OBVIOUS
  <2>2. RowsHeard(q, n, v, LeadOf(a))
    BY <2>1 DEF HearingInv
  <2>3. LeadOf(b) <= LeadOf(a)
    BY <1>2, <1>3, <2>1
  <2> QED BY <1>1, <1>2, <2>2, <2>3, FewerRows
<1>5. Awaits(b) => Heard(q, n, v, lost /\ CountsOnDetector(b))
  <2> SUFFICES ASSUME Awaits(b) PROVE Heard(q, n, v, lost /\ CountsOnDetector(b))
    OBVIOUS
  <2>1. Awaits(a)
    BY <1>3 DEF Awaits
  <2> QED BY <1>2, <2>1 DEF HearingInv, Heard
<1> QED BY <1>1, <1>3, <1>4, <1>5 DEF HearingInv

\* A deadline passes over the frame that is held.
LEMMA DeadlineHearing ==
  ASSUME NEW n \in Nat, NEW q, NEW p, \A i \in 1..n : p[i] = q[i + 1],
         NEW v, NEW gate, NEW a, Good(a), NEW lost \in BOOLEAN,
         HearingInv(q, n + 1, v, gate, a, lost, a.state # "Wake"),
         NEW r, Good(r.actor), EndsWell(a, r), r.actor.state # "Capturing",
         r.actor.state = "Wake" \/ "reset" \in r.does \/ a.state \notin {"Wake", "FollowUp"}
  PROVE  HearingInv(p, n, v, gate, r.actor, lost /\ CountsOnDetector(r.actor),
                    r.actor.state # "Wake" /\ "reset" \notin r.does)
<1> DEFINE b == r.actor
           told == b.state # "Wake" /\ "reset" \notin r.does
<1>1. DetectorInv(q, n + 1, v, gate) /\ Clocked(v)
  BY DEF HearingInv, DetectorInv
<1>2. DetectorInv(p, n, v, gate)
  BY <1>1, ShiftedDetector
<1>3. /\ LeadOf(a) \in Int /\ LeadOf(b) \in Int
      /\ a.state # "FollowUp" => LeadOf(a) >= 0
  BY ActorNumbers
<1>4. /\ b.probe = "idle" /\ ~b.admitted
      /\ told => LeadOf(b) = 0 /\ b.state # "Speech"
  BY DEF EndsWell
<1>5. told => RowsHeard(p, n, v, LeadOf(b))
  <2> SUFFICES ASSUME told PROVE RowsHeard(p, n, v, LeadOf(b))
    OBVIOUS
  <2>1. a.state # "Wake" /\ a.state # "FollowUp"
    OBVIOUS
  <2>2. RowsHeard(q, n + 1, v, LeadOf(a))
    BY <2>1 DEF HearingInv
  <2>3. LeadOf(b) <= IF q[1].near /\ ~q[1].gap THEN LeadOf(a) + 1 ELSE 0
    BY <1>3, <1>4, <2>1
  <2> QED BY <1>1, <1>3, <2>2, <2>3, ShiftedRows
<1>6. ~Awaits(b)
  BY <1>4 DEF Awaits
<1> QED BY <1>2, <1>4, <1>5, <1>6 DEF HearingInv

\* The answer to a reset.
LEMMA UndecidedHearing ==
  ASSUME NEW n \in Nat, NEW q, NEW p, NEW v, NEW gate, NEW a, Good(a), Rests(a), NEW lost,
         HearingInv(q, n, v, gate, a, lost, FALSE), NEW h \in Nat, h <= 1,
         a.state = "Speech" => h = 0,
         \A i \in 1..n : p[i].gap = q[i].gap /\ (p[i] = q[i] \/ (~p[i].near /\ p[i].edge = "none")),
         \A i \in 1..n : i > h => ~p[i].near /\ p[i].edge = "none"
  PROVE  HearingInv(p, n, v, gate, a, lost, a.state # "Wake")
<1>1. DetectorInv(q, n, v, gate) /\ Clocked(v)
  BY DEF HearingInv, DetectorInv
<1>2. DetectorInv(p, n, v, gate)
  BY <1>1, UndecidedDetector
<1>3. ~Awaits(a) /\ a.probe = "idle" /\ a.follow \in Nat
  BY ActorNumbers
<1>4. a.state # "Wake" => RowsHeard(p, n, v, LeadOf(a))
  <2> SUFFICES ASSUME a.state # "Wake" PROVE RowsHeard(p, n, v, LeadOf(a))
    OBVIOUS
  <2>1. CASE a.state = "Speech"
    <3>1. LeadOf(a) = 0 /\ h = 0
      BY <2>1 DEF LeadOf, Answering
    <3>2. LeadOf(a) \in Int /\ LeadOf(a) <= 0 /\ h + LeadOf(a) <= 0
      BY <3>1
    <3>3. \A i \in 1..n : i > h => ~p[i].near
      OBVIOUS
    <3> QED BY <1>1, <3>2, <3>3, UndecidedRows
  <2>2. CASE a.state = "FollowUp"
    <3>1. a.follow = 0
      BY <2>2 DEF Rests
    <3>2. LeadOf(a) = -1
      BY <2>2, <3>1 DEF LeadOf, Answering
    <3>3. LeadOf(a) \in Int /\ LeadOf(a) <= 0 /\ h + LeadOf(a) <= 0
      BY <3>2
    <3>4. \A i \in 1..n : i > h => ~p[i].near
      OBVIOUS
    <3> QED BY <1>1, <3>3, <3>4, UndecidedRows
  <2> QED BY <2>1, <2>2 DEF Rests
<1>5. a.state = "Speech" => \A i \in 1..n : p[i].edge # "started"
  <2>1. ASSUME a.state = "Speech", NEW i \in 1..n PROVE p[i].edge = "none"
    BY <2>1
  <2> QED BY <2>1
<1> QED BY <1>2, <1>3, <1>4, <1>5 DEF HearingInv

\* The frames on their way to the actor: the one in its hand and the ring.
Queued == Len(held) + Len(capture)
Queue == [i \in 1..Queued |-> IF i <= Len(held) THEN held[i] ELSE capture[i - Len(held)]]

\* What the actor waits for it waits for in vain while the detector is to be
\* reset; it has told the detector of its state when that is done.
Told == act.state # "Wake" /\ mailbox.command # "reset"

SpeechInv ==
  ~Anyone =>
    /\ HearingInv(Queue, Queued, vad, aec, act, forgotten, Told)
    /\ mailbox.command = "reset" => Rests(act) /\ (act.state = "Speech" => held = <<>>)

LEMMA QueueIs ==
  ASSUME FramesInv
  PROVE  /\ Queued \in Nat /\ Len(held) \in {0, 1} /\ Len(capture) \in Nat
         /\ \A i \in 1..Queued :
              /\ i <= Len(held) => i = 1 /\ Queue[i] = held[1]
              /\ i > Len(held) => Queue[i] = capture[i - Len(held)] /\ i - Len(held) \in 1..Len(capture)
         /\ \A i \in 1..Queued : Queue[i] \in Frame
<1>1. /\ held \in Seq(Frame) /\ Len(held) <= 1 /\ capture \in Seq(Frame)
      /\ Len(held) \in Nat /\ Len(capture) \in Nat
  BY DEF FramesInv
<1>2. ASSUME NEW i \in 1..Queued
      PROVE  /\ i <= Len(held) => i = 1 /\ Queue[i] = held[1]
             /\ i > Len(held) => Queue[i] = capture[i - Len(held)] /\ i - Len(held) \in 1..Len(capture)
             /\ Queue[i] \in Frame
  <2>1. Queue[i] = IF i <= Len(held) THEN held[i] ELSE capture[i - Len(held)]
    BY DEF Queue
  <2>2. CASE i <= Len(held)
    BY <1>1, <2>1, <2>2 DEF Queued
  <2>3. CASE ~(i <= Len(held))
    <3>1. i - Len(held) \in 1..Len(capture)
      BY <1>1, <2>3 DEF Queued
    <3>2. capture[i - Len(held)] \in Frame
      BY <1>1, <3>1
    <3> QED BY <1>1, <2>1, <2>3, <3>1, <3>2
  <2> QED BY <2>2, <2>3
<1>3. \A k \in Nat : k <= 1 => k = 0 \/ k = 1
  OBVIOUS
<1>4. Len(held) = 0 \/ Len(held) = 1
  BY <1>1, <1>3
<1>5. \A k \in Nat, l \in Nat : k + l \in Nat
  OBVIOUS
<1>6. Queued \in Nat
  BY <1>1, <1>5 DEF Queued
<1> QED BY <1>1, <1>2, <1>4, <1>6

\* One frame fewer in the actor's hand.
LEMMA QueueShifts ==
  ASSUME FramesInv, held # <<>>, held' = <<>>, capture' = capture
  PROVE  /\ Queued = Queued' + 1 /\ Queued' \in Nat /\ Queue[1] = held[1] /\ held[1] \in Frame
         /\ \A i \in 1..Queued' : Queue'[i] = Queue[i + 1]
<1>1. Len(held) = 1 /\ Len(held') = 0 /\ held[1] \in Frame /\ Len(capture) \in Nat
  <2>1. held \in Seq(Frame) /\ capture \in Seq(Frame) /\ Len(held) <= 1
    BY DEF FramesInv
  <2>2. Len(held) \in Nat \ {0}
    BY <2>1, EmptySeq
  <2>3. Len(held) = 1
    <3>1. Len(held) = 0 \/ Len(held) = 1
      BY QueueIs
    <3> QED BY <2>2, <3>1
  <2>4. Len(held') = 0
    OBVIOUS
  <2>5. held[1] \in Frame
    BY <2>1, <2>3
  <2> QED BY <2>1, <2>3, <2>4, <2>5
<1>2. Queued = Len(capture) + 1 /\ Queued' = Len(capture)
  BY <1>1 DEF Queued
<1>3. ASSUME NEW i \in 1..Queued' PROVE Queue'[i] = Queue[i + 1]
  <2>1. Queue'[i] = capture[i]
    BY <1>1, <1>2 DEF Queue
  <2>2. i + 1 \in 1..Queued
    BY <1>1, <1>2
  <2>3. Queue[i + 1] = capture[i]
    BY <1>1, <2>2, QueueIs
  <2> QED BY <2>1, <2>3
<1>4. Queue[1] = held[1]
  BY <1>1, <1>2 DEF Queue
<1> QED BY <1>1, <1>2, <1>3, <1>4

LEMMA QueueTaken ==
  ASSUME FramesInv, held = <<>>, capture # <<>>, held' = <<Head(capture)>>, capture' = Tail(capture)
  PROVE  Queued' = Queued /\ Queue' = Queue
<1>1. /\ Len(held) = 0 /\ Len(held') = 1 /\ capture \in Seq(Frame) /\ Len(capture) \in Nat
      /\ Len(capture) # 0 /\ Len(capture') = Len(capture) - 1 /\ held'[1] = capture[1]
  BY DEF FramesInv
<1>2. Queued = Len(capture) /\ Queued' = Len(capture)
  BY <1>1 DEF Queued
<1>3. ASSUME NEW i \in 1..Queued
      PROVE  (IF i <= Len(held') THEN held'[i] ELSE capture'[i - Len(held')])
               = (IF i <= Len(held) THEN held[i] ELSE capture[i - Len(held)])
  <2>1. CASE i = 1
    BY <1>1, <2>1
  <2>2. CASE i # 1
    <3>1. i - 1 \in 1..Len(capture') /\ (i - 1) + 1 = i
      BY <1>1, <1>2, <2>2
    <3>2. capture'[i - 1] = capture[i]
      BY <1>1, <3>1
    <3>3. /\ ~(i <= Len(held')) /\ ~(i <= Len(held))
          /\ i - Len(held') = i - 1 /\ i - Len(held) = i
      BY <1>1, <2>2
    <3> QED BY <3>2, <3>3
  <2> QED BY <2>1, <2>2
<1> QED BY <1>2, <1>3 DEF Queue

\* A frame, or a break in the place of what is in the ring.
LEMMA QueuePushed ==
  ASSUME FramesInv, held' = held, NEW f \in Frame, Push(f)
  PROVE  \/ /\ ~f.gap /\ Len(capture) # CaptureSlots
            /\ Queued' = Queued + 1 /\ Queue'[Queued + 1] = f
            /\ \A i \in 1..Queued : Queue'[i] = Queue[i]
         \/ /\ Queued' = Len(held) + 1
            /\ Queue'[Len(held) + 1] = [f EXCEPT !.gap = TRUE]
            /\ \A i \in 1..Len(held) : Queue'[i] = Queue[i]
<1>1. /\ held \in Seq(Frame) /\ Len(held) \in {0, 1} /\ capture \in Seq(Frame)
      /\ Len(held) \in Nat /\ Len(capture) \in Nat
  BY QueueIs DEF FramesInv
<1>2. CASE f.gap \/ Len(capture) = CaptureSlots
  <2> DEFINE g == [f EXCEPT !.gap = TRUE]
  <2>1. capture' = <<g>>
    BY <1>2 DEF Push
  <2> HIDE DEF g
  <2>2. Len(capture') = 1 /\ capture'[1] = g
    BY <2>1
  <2>3. Queued' = Len(held) + 1
    BY <1>1, <2>2 DEF Queued
  <2>4. Queue'[Len(held) + 1] = g
    <3>1. Len(held) + 1 \in 1..Queued' /\ (Len(held) + 1) - Len(held) = 1
      BY <1>1, <2>3
    <3> QED BY <1>1, <2>2, <3>1 DEF Queue
  <2>5. \A i \in 1..Len(held) : Queue'[i] = Queue[i]
    <3> SUFFICES ASSUME NEW i \in 1..Len(held) PROVE Queue'[i] = Queue[i]
      OBVIOUS
    <3>1. i \in 1..Queued /\ i \in 1..Queued' /\ i <= Len(held)
      BY <1>1, <2>3 DEF Queued
    <3> QED BY <1>1, <3>1 DEF Queue
  <2> QED BY <2>3, <2>4, <2>5 DEF g
<1>3. CASE ~f.gap /\ Len(capture) # CaptureSlots
  <2>1. capture' = Append(capture, f)
    BY <1>3 DEF Push
  <2>2. /\ Len(capture') = Len(capture) + 1 /\ capture'[Len(capture) + 1] = f
        /\ \A i \in 1..Len(capture) : capture'[i] = capture[i]
    BY <1>1, <2>1
  <2>3. Queued' = Queued + 1 /\ Queued = Len(held) + Len(capture)
    BY <1>1, <2>2 DEF Queued
  <2>4. Queue'[Queued + 1] = f
    <3>1. /\ Queued + 1 \in 1..Queued' /\ ~(Queued + 1 <= Len(held))
          /\ (Queued + 1) - Len(held) = Len(capture) + 1
      BY <1>1, <2>3
    <3> QED BY <2>2, <3>1 DEF Queue
  <2>5. \A i \in 1..Queued : Queue'[i] = Queue[i]
    <3> SUFFICES ASSUME NEW i \in 1..Queued PROVE Queue'[i] = Queue[i]
      OBVIOUS
    <3>1. i \in 1..Queued'
      BY <1>1, <2>3
    <3>2. i > Len(held) => i - Len(held) \in 1..Len(capture)
      BY QueueIs
    <3> QED BY <1>1, <2>2, <3>1, <3>2 DEF Queue
  <2> QED BY <1>3, <2>3, <2>4, <2>5
<1> QED BY <1>2, <1>3

\* What a step leaves out of account.
LEMMA SpeechKept ==
  ASSUME ~Anyone, SpeechInv, UNCHANGED <<scope, Queued, Queue, vad, aec, act, forgotten>>,
         mailbox'.command = "reset" <=> mailbox.command = "reset",
         mailbox.command # "reset" \/ held' = held
  PROVE  SpeechInv'
<1>1. /\ HearingInv(Queue, Queued, vad, aec, act, forgotten, Told)
      /\ mailbox.command = "reset" => Rests(act) /\ (act.state = "Speech" => held = <<>>)
  BY DEF SpeechInv
<1>2. Told' = Told
  BY DEF Told
<1>3. HearingInv(Queue, Queued, vad, aec, act, forgotten, Told)'
  BY <1>1, <1>2 DEF HearingInv, DetectorInv, RowsHeard, Heard, Settles, EndsLate, Ends, Unbroken, Spent
<1> QED BY <1>1, <1>3 DEF SpeechInv

\* An actor that waits for no more than before.
LEMMA CalmerHearing ==
  ASSUME NEW n \in Nat, NEW q, NEW v, NEW gate, NEW a, Good(a), NEW b, Good(b),
         NEW lost, NEW told, HearingInv(q, n, v, gate, a, lost, told),
         LeadOf(b) <= LeadOf(a), Awaits(b) => Awaits(a), b.state # "Speech",
         b.probe \in {"low", "clear"} => b.probe = a.probe /\ b.frames = a.frames
  PROVE  HearingInv(q, n, v, gate, b, lost, told)
<1>1. DetectorInv(q, n, v, gate) /\ Clocked(v)
  BY DEF HearingInv, DetectorInv
<1>2. LeadOf(a) \in Int /\ LeadOf(b) \in Int
  BY ActorNumbers
<1>3. told => RowsHeard(q, n, v, LeadOf(b))
  BY <1>1, <1>2, FewerRows DEF HearingInv
<1>4. b.probe \in {"low", "clear"} => a.probe \in {"low", "clear"} /\ Spent(b) = Spent(a)
  BY DEF Spent
<1>5. b.probe \in {"low", "clear"} /\ Unbroken(q, 0, n) =>
        /\ \A j \in 1..n : q[j].edge = "ended" => j + Spent(b) >= VadEnd
        /\ v.in_speech => v.run <= Spent(b) + n
  BY <1>4 DEF HearingInv
<1>6. Awaits(b) => Heard(q, n, v, lost)
  BY DEF HearingInv
<1> QED BY <1>1, <1>3, <1>5, <1>6 DEF HearingInv

\* What a handler tells the detector.
LEMMA DoesTells ==
  ASSUME NEW r, Does(r), mailbox \in MailboxType, mailbox.command = "none"
  PROVE  /\ act' = r.actor /\ forgotten' = (forgotten /\ CountsOnDetector(r.actor))
         /\ scope' = scope
         /\ mailbox'.command = "reset" <=> "reset" \in r.does
         /\ Told' = (r.actor.state # "Wake" /\ "reset" \notin r.does)
<1>1. /\ act' = r.actor /\ forgotten' = (forgotten /\ CountsOnDetector(r.actor)) /\ scope' = scope
      /\ "reset" \in r.does => Ask("reset")
      /\ "reset" \notin r.does => mailbox' = mailbox
  BY DEF Does
<1>2. "reset" \in r.does => mailbox'.command = "reset"
  <2> SUFFICES ASSUME "reset" \in r.does PROVE mailbox'.command = "reset"
    OBVIOUS
  <2>1. mailbox' = [mailbox EXCEPT !.command = "reset"]
    BY <1>1 DEF Ask, Request
  <2> QED BY <2>1 DEF MailboxType
<1>3. mailbox'.command = "reset" <=> "reset" \in r.does
  BY <1>1, <1>2
<1> QED BY <1>1, <1>3 DEF Told

\* The conversation up to now, in the actor's terms.
LEMMA TalkIs ==
  ASSUME FramesInv, UtteranceInv, CaptureOK, QuietInv, SpeechInv, Talks
  PROVE  /\ ~Anyone /\ Good(act) /\ mailbox \in MailboxType /\ mailbox.command = "none"
         /\ caller = "none" /\ forgotten \in BOOLEAN
         /\ HearingInv(Queue, Queued, vad, aec, act, forgotten, act.state # "Wake")
<1>1. ~Anyone /\ caller = "none" /\ Good(act) /\ mailbox \in MailboxType /\ forgotten \in BOOLEAN
  BY DEF Talks, Free, UtteranceInv, CaptureOK
<1>2. mailbox.command = "none"
  BY <1>1 DEF QuietInv, CommandInv
<1>3. Told <=> act.state # "Wake"
  BY <1>2 DEF Told
<1>4. HearingInv(Queue, Queued, vad, aec, act, forgotten, Told)
  BY <1>1 DEF SpeechInv
<1>5. Told \in BOOLEAN
  BY DEF Told
<1>6. Told = (act.state # "Wake")
  BY <1>3, <1>5
<1> QED BY <1>1, <1>2, <1>4, <1>6

LEMMA HandleFrameSpeech ==
  ASSUME FramesInv, UtteranceInv, CaptureOK, QuietInv, SpeechInv, HandleFrame, Good(act')
  PROVE  SpeechInv'
<1>1. Talks /\ held # <<>> /\ held' = <<>> /\ UNCHANGED <<capture, vad, aec>>
  BY DEF HandleFrame, CaptureRests
<1>2. /\ ~Anyone /\ Good(act) /\ mailbox \in MailboxType /\ mailbox.command = "none"
      /\ forgotten \in BOOLEAN
      /\ HearingInv(Queue, Queued, vad, aec, act, forgotten, act.state # "Wake")
  BY <1>1, TalkIs
<1>3. /\ Queued = Queued' + 1 /\ Queued' \in Nat /\ Queue[1] = held[1] /\ held[1] \in Frame
      /\ \A i \in 1..Queued' : Queue'[i] = Queue[i + 1]
  BY <1>1, QueueShifts
<1>4. PICK loud \in {held[1].near, FALSE}, wake \in BOOLEAN : Does(OnFrame(act, held[1], loud, wake))
  BY DEF HandleFrame
<1> DEFINE r == OnFrame(act, held[1], loud, wake)
<1>5. loud \in BOOLEAN /\ (loud => held[1].near)
  BY <1>3 DEF Frame
<1>6. HearsWell(act, held[1], r)
  BY <1>2, <1>3, <1>5, OnFrameHears
<1>7. Does(r)
  BY <1>4
<1> HIDE DEF r
<1>8. /\ act' = r.actor /\ forgotten' = (forgotten /\ CountsOnDetector(r.actor))
      /\ scope' = scope
      /\ mailbox'.command = "reset" <=> "reset" \in r.does
      /\ Told' = (r.actor.state # "Wake" /\ "reset" \notin r.does)
  BY <1>2, <1>7, DoesTells
<1>9. Good(r.actor)
  BY <1>8
<1>10. HearingInv(Queue, Queued' + 1, vad, aec, act, forgotten, act.state # "Wake")
  BY <1>2, <1>3
<1>11. HearingInv(Queue', Queued', vad, aec, r.actor, forgotten /\ CountsOnDetector(r.actor),
                  r.actor.state # "Wake" /\ "reset" \notin r.does)
  BY <1>2, <1>3, <1>6, <1>9, <1>10, ShiftedHearing
<1>12. HearingInv(Queue', Queued', vad', aec', act', forgotten', Told')
  BY <1>1, <1>8, <1>11
<1>13. mailbox'.command = "reset" => Rests(act')
  BY <1>6, <1>8 DEF HearsWell
<1> QED BY <1>1, <1>12, <1>13 DEF SpeechInv

\* The steps that end or go on with a turn.
LEMMA EndsSpeech ==
  ASSUME FramesInv, UtteranceInv, CaptureOK, QuietInv, SpeechInv, Talks, Good(act'),
         NEW r, Does(r), EndsWell(act, r), UNCHANGED <<capture, vad, aec>>,
         \/ held' = held
         \/ held' = <<>> /\ r.actor.state # "Capturing",
         r.actor.state = "Wake" \/ "reset" \in r.does \/ act.state \notin {"Wake", "FollowUp"}
  PROVE  SpeechInv'
<1>1. /\ ~Anyone /\ Good(act) /\ mailbox \in MailboxType /\ mailbox.command = "none"
      /\ forgotten \in BOOLEAN
      /\ HearingInv(Queue, Queued, vad, aec, act, forgotten, act.state # "Wake")
  BY TalkIs
<1>2. /\ act' = r.actor /\ forgotten' = (forgotten /\ CountsOnDetector(r.actor))
      /\ scope' = scope
      /\ mailbox'.command = "reset" <=> "reset" \in r.does
      /\ Told' = (r.actor.state # "Wake" /\ "reset" \notin r.does)
  BY <1>1, DoesTells
<1>3. Good(r.actor) /\ Queued \in Nat
  BY <1>2, QueueIs
<1>4. HearingInv(Queue', Queued', vad, aec, r.actor, forgotten /\ CountsOnDetector(r.actor),
                 r.actor.state # "Wake" /\ "reset" \notin r.does)
  <2>1. CASE held' = held
    <3>1. Queue' = Queue /\ Queued' = Queued
      BY <2>1 DEF Queue, Queued
    <3>2. HearingInv(Queue, Queued, vad, aec, r.actor, forgotten /\ CountsOnDetector(r.actor),
                     r.actor.state # "Wake" /\ "reset" \notin r.does)
      BY <1>1, <1>3, EventHearing
    <3> QED BY <3>1, <3>2
  <2>2. CASE held' # held
    <3>1. held # <<>> /\ held' = <<>> /\ r.actor.state # "Capturing"
      BY <2>2
    <3>2. /\ Queued = Queued' + 1 /\ Queued' \in Nat
          /\ \A i \in 1..Queued' : Queue'[i] = Queue[i + 1]
      BY <3>1, QueueShifts
    <3>3. HearingInv(Queue, Queued' + 1, vad, aec, act, forgotten, act.state # "Wake")
      BY <1>1, <3>2
    <3> QED BY <1>1, <1>3, <3>1, <3>2, <3>3, DeadlineHearing
  <2> QED BY <2>1, <2>2
<1>5. HearingInv(Queue', Queued', vad', aec', act', forgotten', Told')
  BY <1>2, <1>4
<1>6. mailbox'.command = "reset" => Rests(act') /\ act'.state # "Speech"
  BY <1>2 DEF EndsWell
<1> QED BY <1>5, <1>6 DEF SpeechInv

LEMMA DoneSpeech ==
  ASSUME FramesInv, UtteranceInv, CaptureOK, QuietInv, SpeechInv, Done, Good(act')
  PROVE  SpeechInv'
<1>1. /\ ~Anyone /\ Good(act) /\ mailbox.command = "none"
      /\ HearingInv(Queue, Queued, vad, aec, act, forgotten, act.state # "Wake")
      /\ Queued \in Nat
  BY TalkIs, QueueIs DEF Done
<1>2. /\ act.state \in {"Playing", "Response"} /\ act' = [act EXCEPT !.state = "Draining"]
      /\ UNCHANGED <<mailbox, capture, vad, aec, scope, held, forgotten>>
  BY DEF Done, captureVars
<1>3. /\ act'.state = "Draining" /\ act'.probe = act.probe /\ act'.frames = act.frames
      /\ act'.admitted = act.admitted
  BY <1>1, <1>2 DEF Good, ActorType
<1>4. LeadOf(act') <= LeadOf(act)
  <2>1. CASE act.state = "Playing"
    <3>1. LeadOf(act') = LeadOf(act)
      BY <1>3, <2>1 DEF LeadOf, Answering
    <3>2. LeadOf(act) \in Int
      BY <1>1, ActorNumbers
    <3> QED BY <3>1, <3>2
  <2>2. CASE act.state = "Response"
    <3>1. act.probe = "idle" /\ act.frames = 0
      BY <1>1, <2>2 DEF Good, ActorInv, Answering
    <3>2. LeadOf(act') = 0 /\ LeadOf(act) = 0
      BY <1>3, <2>2, <3>1 DEF LeadOf, Answering
    <3> QED BY <3>2
  <2> QED BY <1>2, <2>1, <2>2
<1>5. ~act.admitted
  BY <1>1, <1>2, ActorNumbers
<1>6. Awaits(act') => Awaits(act)
  BY <1>3, <1>5 DEF Awaits
<1>7. HearingInv(Queue, Queued, vad, aec, act', forgotten, act.state # "Wake")
  BY <1>1, <1>3, <1>4, <1>6, CalmerHearing
<1>8. Queue' = Queue /\ Queued' = Queued /\ Told' = (act.state # "Wake")
  BY <1>1, <1>2, <1>3 DEF Queue, Queued, Told
<1>9. HearingInv(Queue', Queued', vad', aec', act', forgotten', Told')
  BY <1>2, <1>7, <1>8
<1> QED BY <1>1, <1>2, <1>9 DEF SpeechInv

LEMMA ConversationSpeech ==
  ASSUME FramesInv, UtteranceInv, CaptureOK, QuietInv, SpeechInv, Conversation, Good(act')
  PROVE  SpeechInv'
<1>1. Good(act) /\ (act.admitted => act.state = "CancelPending")
  BY ActorNumbers DEF UtteranceInv
<1>2. CASE TakeFrame
  <2>1. /\ Talks /\ held = <<>> /\ capture # <<>> /\ held' = <<Head(capture)>>
        /\ capture' = Tail(capture)
        /\ UNCHANGED <<scope, mailbox, vad, aec, act, forgotten>>
    BY <1>2 DEF TakeFrame
  <2>2. Queued' = Queued /\ Queue' = Queue
    BY <2>1, QueueTaken
  <2>3. ~Anyone /\ mailbox.command = "none"
    BY <2>1, TalkIs
  <2> QED BY <2>1, <2>2, <2>3, SpeechKept
<1>3. CASE HandleFrame
  BY <1>3, HandleFrameSpeech
<1>4. ASSUME NEW states, NEW r, Event(states, r), act.state \in states => EndsWell(act, r),
             r.actor.state = "Wake" \/ "reset" \in r.does \/
               (act.state \in states => act.state \notin {"Wake", "FollowUp"})
      PROVE  SpeechInv'
  <2>1. /\ Talks /\ act.state \in states /\ Does(r) /\ held' = held
        /\ UNCHANGED <<capture, vad, aec>>
    BY <1>4 DEF Event, CaptureRests
  <2> QED BY <1>4, <2>1, EndsSpeech
<1>5. ASSUME NEW states, NEW r, Deadline(states, r), act.state \in states => EndsWell(act, r),
             r.actor.state = "Wake" \/ "reset" \in r.does \/
               (act.state \in states => act.state \notin {"Wake", "FollowUp"}),
             r.actor.state = "Wake" \/ (act.state \in states => act.state # "CancelPending")
      PROVE  SpeechInv'
  <2>1. /\ Talks /\ act.state \in states /\ Does(r) /\ held' = <<>>
        /\ UNCHANGED <<capture, vad, aec>>
    BY <1>5 DEF Deadline, CaptureRests
  <2>2. r.actor.state # "Capturing"
    BY <1>1, <1>5, <2>1 DEF EndsWell
  <2> QED BY <1>5, <2>1, <2>2, EndsSpeech
<1> DEFINE silent == Result([NoPreRoll(act) EXCEPT !.state = "Wake"], {"reset"})
<1>6. /\ EndsWell(act, FinishTurn(act, FALSE)) /\ EndsWell(act, FinishTurn(act, TRUE))
      /\ EndsWell(act, AbortCurrent(act)) /\ EndsWell(act, LoseConnection(act))
      /\ act.state = "CancelPending" => EndsWell(act, CompleteCancel(act))
      /\ act.state \in {"Speech", "FollowUp"} => EndsWell(act, silent)
  BY <1>1, EventsHear
<1>7. LoseConnection(act).actor.state = "Wake" /\ "reset" \in silent.does
  BY ResultIs DEF LoseConnection, NewActor
<1>8. /\ \A s \in Turn : s \notin {"Wake", "FollowUp", "CancelPending"}
      /\ \A s \in Answering : s \notin {"Wake", "FollowUp", "CancelPending"}
  BY DEF Turn, Answering
<1> HIDE DEF silent
<1>9. CASE Cancelled
  BY <1>4, <1>6, <1>9 DEF Cancelled
<1>10. CASE ServerError
  BY <1>4, <1>6, <1>8, <1>10 DEF ServerError
<1>11. CASE TouchInterrupt
  BY <1>4, <1>6, <1>8, <1>11 DEF TouchInterrupt
<1>12. CASE LateStart
  BY <1>4, <1>6, <1>7, <1>12 DEF LateStart
<1>13. CASE DrainEnds
  BY <1>5, <1>6, <1>13 DEF DrainEnds
<1>14. CASE CancelTimeout
  BY <1>5, <1>6, <1>7, <1>14 DEF CancelTimeout
<1>15. CASE TurnTimeout
  BY <1>5, <1>6, <1>8, <1>15 DEF TurnTimeout
<1>16. CASE NobodySpeaks
  <2>1. Deadline({"Speech", "FollowUp"}, silent)
    BY <1>16 DEF NobodySpeaks, silent
  <2>2. act.state \in {"Speech", "FollowUp"} => act.state # "CancelPending"
    OBVIOUS
  <2> QED BY <1>5, <1>6, <1>7, <2>1, <2>2
<1>17. CASE AudioStart
  <2>1. /\ Talks /\ mailbox' = [mailbox EXCEPT !.command = "prepare"]
        /\ UNCHANGED <<scope, capture, held, vad, aec, act, forgotten>>
    BY <1>17 DEF AudioStart, AskPlayback, Ask, Request, CaptureRests, actorVars
  <2>2. ~Anyone /\ mailbox.command = "none" /\ mailbox \in MailboxType
    BY <2>1, TalkIs
  <2>3. mailbox'.command = "prepare"
    BY <2>1, <2>2 DEF MailboxType
  <2>4. Queued' = Queued /\ Queue' = Queue
    BY <2>1 DEF Queued, Queue
  <2> QED BY <2>1, <2>2, <2>3, <2>4, SpeechKept
<1>18. CASE Audio
  <2>1. /\ Talks /\ UNCHANGED <<scope, mailbox, capture, held, vad, aec, act, forgotten>>
    BY <1>18 DEF Audio, captureVars, actorVars
  <2>2. ~Anyone /\ Queued' = Queued /\ Queue' = Queue
    BY <2>1, TalkIs DEF Queued, Queue
  <2> QED BY <2>1, <2>2, SpeechKept
<1>19. CASE Done
  BY <1>19, DoneSpeech
<1> QED BY <1>2, <1>3, <1>9, <1>10, <1>11, <1>12, <1>13, <1>14, <1>15, <1>16, <1>17, <1>18,
           <1>19 DEF Conversation

LEMMA ReplySpeech ==
  ASSUME FramesInv, UtteranceInv, QuietInv, SpeechInv, ~Anyone, Reply, Good(act')
  PROVE  SpeechInv'
<1>1. CommandInv /\ Good(act) /\ HearingInv(Queue, Queued, vad, aec, act, forgotten, Told)
  BY DEF QuietInv, UtteranceInv, SpeechInv
<1>2. /\ mailbox.command = "none" /\ caller # "none"
      /\ UNCHANGED <<mailbox, capture, vad, aec, scope, held, forgotten>>
  BY <1>1 DEF Reply, Answered, captureVars, CommandInv
<1>3. Queue' = Queue /\ Queued' = Queued
  BY <1>2 DEF Queue, Queued
<1>4. CASE caller = "prepare" /\ Succeeded
  <2> DEFINE b == ResetBargeProbe(act)
  <2>1. /\ act.state = "Response" /\ act' = [b EXCEPT !.state = "Playing"]
    BY <1>4 DEF Reply, UtteranceInv
  <2>2. act \in ActorType /\ ActorInv(act)
    BY <1>1 DEF Good
  <2>3. b \in ActorType /\ b.frames = 0 /\ b.probe = "idle" /\ b.admitted = act.admitted
    BY <2>2 DEF ResetBargeProbe, ActorType
  <2> HIDE DEF b
  <2>4. /\ act'.state = "Playing" /\ act'.frames = 0 /\ act'.probe = "idle"
        /\ act'.admitted = act.admitted
    BY <2>1, <2>3 DEF ActorType
  <2>5. ~act.admitted
    BY <1>1, <2>1, ActorNumbers
  <2>6. LeadOf(act') = 0 /\ LeadOf(act) = 0 /\ ~Awaits(act')
    BY <2>1, <2>4, <2>5 DEF LeadOf, Awaits, Answering
  <2>7. HearingInv(Queue, Queued, vad, aec, act', forgotten, Told)
    <3>1. Queued \in Nat
      BY QueueIs
    <3>2. LeadOf(act') <= LeadOf(act)
      BY <2>6
    <3> QED BY <1>1, <2>4, <2>6, <3>1, <3>2, CalmerHearing
  <2>8. Told' = Told
    BY <1>2, <2>1, <2>4 DEF Told
  <2>9. HearingInv(Queue', Queued', vad', aec', act', forgotten', Told')
    BY <1>2, <1>3, <2>7, <2>8
  <2> QED BY <1>2, <2>9 DEF SpeechInv
<1>5. CASE ~(caller = "prepare" /\ Succeeded)
  <2>1. UNCHANGED act
    BY <1>5 DEF Reply
  <2> QED BY <1>2, <1>3, <2>1, SpeechKept
<1> QED BY <1>4, <1>5

LEMMA HearSpeech ==
  ASSUME FramesInv, UtteranceInv, CaptureOK, QuietInv, SpeechInv, ~Anyone,
         NEW now \in BOOLEAN, NEW reference \in BOOLEAN, Hear(now, reference),
         forgotten' = (forgotten \/ ForgetsSpeech(now, reference)),
         UNCHANGED <<scope, act, held>>
  PROVE  SpeechInv'
<1> DEFINE u == UpdateVad(now)
           g == Gated(reference)
           f == [near |-> now /\ ~Suppresses(g), edge |-> Edge(u),
                 reference |-> reference, gap |-> FALSE]
<1>1. /\ Gate(aec) /\ pcm \in PcmType /\ Good(act) /\ forgotten \in BOOLEAN
      /\ Told \in BOOLEAN /\ Len(capture) <= CaptureSlots
      /\ HearingInv(Queue, Queued, vad, aec, act, forgotten, Told)
      /\ mailbox.command = "reset" => Rests(act) /\ (act.state = "Speech" => held = <<>>)
  BY DEF UtteranceInv, CaptureOK, SpeechInv, Told
<1>2. /\ vad' = (IF Expires(g) THEN NewVad ELSE u) /\ aec' = RunDown(g) /\ Push(f)
      /\ mailbox' = mailbox
  BY DEF Hear
<1>3. f \in Frame
  <2>1. Edge(u) \in {"none", "started", "ended"}
    BY DEF Edge
  <2>2. (now /\ ~Suppresses(g)) \in BOOLEAN
    OBVIOUS
  <2> QED BY <2>1, <2>2 DEF Frame
<1>4. /\ f.near <=> now /\ ~Suppresses(g)
      /\ f.edge = Edge(u) /\ ~f.gap
  OBVIOUS
<1>5. /\ Len(held) \in {0, 1} /\ Len(capture) \in Nat /\ Queued \in Nat
      /\ Queued = Len(held) + Len(capture)
  BY QueueIs DEF Queued
<1>6. Told' = Told
  BY <1>2 DEF Told
<1>7. \/ /\ ~f.gap /\ Len(capture) # CaptureSlots
         /\ Queued' = Queued + 1 /\ Queue'[Queued + 1] = f
         /\ \A i \in 1..Queued : Queue'[i] = Queue[i]
      \/ /\ Queued' = Len(held) + 1
         /\ Queue'[Len(held) + 1] = [f EXCEPT !.gap = TRUE]
         /\ \A i \in 1..Len(held) : Queue'[i] = Queue[i]
  BY <1>2, <1>3, QueuePushed
<1>8. /\ [f EXCEPT !.gap = TRUE].gap /\ [f EXCEPT !.gap = TRUE].near = f.near
      /\ [f EXCEPT !.gap = TRUE].edge = f.edge
  BY <1>3 DEF Frame
<1>9. DetectorInv(Queue, Queued, vad, aec) /\ Clocked(vad)
  BY <1>1 DEF HearingInv, DetectorInv
<1>10. /\ Clocked(u)
       /\ now /\ u.in_speech => u.run = 0
       /\ Edge(u) = "ended" => ~now
       /\ Edge(u) = "started" => u.in_speech
  BY <1>9, TurnIs
<1>11. /\ RunDown(g).warmup = Less(g.warmup) /\ RunDown(g).tail = Less(g.tail)
       /\ Expires(g) => Suppresses(g)
       /\ ~Suppresses(g) => g.warmup = 0 /\ g.tail = 0
  BY <1>1, SuppressionIs
<1>12. forgotten' = (forgotten \/ ForgetsSpeech(now, reference))
  OBVIOUS
<1>13. CountsOnDetector(act) /\ u.in_speech => vad'.in_speech \/ forgotten'
  BY <1>2, <1>12 DEF ForgetsSpeech
<1>14. Clocked(vad')
  <2>1. Clocked(NewVad)
    BY Relations DEF Clocked, NewVad
  <2> QED BY <1>2, <1>10, <2>1
<1> HIDE DEF f
<1>15. CASE /\ Len(capture) # CaptureSlots
            /\ Queued' = Queued + 1 /\ Queue'[Queued + 1] = f
            /\ \A i \in 1..Queued : Queue'[i] = Queue[i]
  <2>1. Queued <= CaptureSlots
    <3>1. \A k \in {0, 1}, l \in Nat, m \in Nat : l <= m /\ l # m => k + l <= m
      OBVIOUS
    <3> QED BY <1>1, <1>5, <1>15, <3>1, CaptureSizes
  <2>2. /\ Queue'[Queued + 1].near <=> now /\ ~Suppresses(Gated(reference))
        /\ Queue'[Queued + 1].edge = Edge(UpdateVad(now)) /\ ~Queue'[Queued + 1].gap
    BY <1>4, <1>15
  <2>3. HearingInv(Queue', Queued + 1, vad', RunDown(Gated(reference)), act, forgotten', Told)
    BY <1>1, <1>2, <1>5, <1>12, <1>15, <2>1, <2>2, PushedHearing
  <2>4. HearingInv(Queue', Queued', vad', aec', act', forgotten', Told')
    BY <1>2, <1>6, <1>15, <2>3
  <2> QED BY <1>1, <1>2, <2>4 DEF SpeechInv
<1>16. CASE /\ Queued' = Len(held) + 1
            /\ Queue'[Len(held) + 1] = [f EXCEPT !.gap = TRUE]
            /\ \A i \in 1..Len(held) : Queue'[i] = Queue[i]
  <2> DEFINE n == Len(held)
  <2>1. /\ n \in Nat /\ n <= 1 /\ n <= Queued
    <3>1. \A k \in {0, 1}, l \in Nat : k \in Nat /\ k <= 1 /\ k <= k + l
      OBVIOUS
    <3> QED BY <1>5, <3>1
  <2>2. /\ Queue'[n + 1].gap /\ Queue'[n + 1].near = f.near /\ Queue'[n + 1].edge = f.edge
    BY <1>8, <1>16
  <2>3. Queue'[n + 1].edge = "ended" => ~Queue'[n + 1].near
    BY <1>4, <1>10, <2>2
  <2>4. Queue'[n + 1].near => (vad'.in_speech => vad'.run = 0) /\ aec'.warmup = 0 /\ aec'.tail = 0
    <3> SUFFICES ASSUME Queue'[n + 1].near
                 PROVE  (vad'.in_speech => vad'.run = 0) /\ aec'.warmup = 0 /\ aec'.tail = 0
      OBVIOUS
    <3>1. now /\ ~Suppresses(g)
      BY <1>4, <2>2
    <3>2. vad' = u /\ g.warmup = 0 /\ g.tail = 0
      BY <1>2, <1>11, <3>1
    <3>3. aec'.warmup = Less(0) /\ aec'.tail = Less(0)
      BY <1>2, <1>11, <3>2
    <3> QED BY <1>10, <3>1, <3>2, <3>3 DEF Less
  <2>5. act.state = "Speech" /\ Queue'[n + 1].edge = "started" => vad'.in_speech \/ forgotten'
    BY <1>4, <1>10, <1>13, <2>2 DEF CountsOnDetector
  <2> HIDE DEF n
  <2>6. \A i \in 1..n : Queue'[i] = Queue[i]
    BY <1>16 DEF n
  <2>7. HearingInv(Queue', n + 1, vad', aec', act, forgotten', Told)
    BY <1>5, <1>9, <1>14, <2>1, <2>2, <2>3, <2>4, <2>5, <2>6, BrokenHearing
  <2>8. HearingInv(Queue', Queued', vad', aec', act', forgotten', Told')
    BY <1>6, <1>16, <2>7 DEF n
  <2> QED BY <1>1, <1>2, <2>8 DEF SpeechInv
<1> QED BY <1>7, <1>15, <1>16

LEMMA GapSpeech ==
  ASSUME FramesInv, SpeechInv, ~Anyone, HearGap, UNCHANGED <<scope, act, held, forgotten>>
  PROVE  SpeechInv'
<1>1. /\ HearingInv(Queue, Queued, vad, aec, act, forgotten, Told)
      /\ mailbox.command = "reset" => Rests(act) /\ (act.state = "Speech" => held = <<>>)
  BY DEF SpeechInv
<1>2. vad' = NewVad /\ Push(GapFrame) /\ mailbox' = mailbox
  BY DEF HearGap
<1>3. GapFrame \in Frame /\ GapFrame.gap /\ ~GapFrame.near /\ GapFrame.edge = "none"
  BY DEF GapFrame, Frame
<1>4. DetectorInv(Queue, Queued, vad, aec)
  BY <1>1 DEF HearingInv
<1>5. Clocked(NewVad)
  BY Relations DEF Clocked, NewVad
<1>6. /\ Queued' = Len(held) + 1
      /\ Queue'[Len(held) + 1] = [GapFrame EXCEPT !.gap = TRUE]
      /\ \A i \in 1..Len(held) : Queue'[i] = Queue[i]
  BY <1>2, <1>3, QueuePushed
<1> DEFINE n == Len(held)
<1>7. /\ Queue'[n + 1].gap /\ ~Queue'[n + 1].near /\ Queue'[n + 1].edge = "none"
  <2>1. /\ [GapFrame EXCEPT !.gap = TRUE].gap
        /\ [GapFrame EXCEPT !.gap = TRUE].near = GapFrame.near
        /\ [GapFrame EXCEPT !.gap = TRUE].edge = GapFrame.edge
    BY <1>3 DEF Frame
  <2> QED BY <1>3, <1>6, <2>1
<1>8. n \in Nat /\ n <= 1 /\ n <= Queued /\ Queued \in Nat
  <2>1. \A k \in {0, 1}, l \in Nat : k \in Nat /\ k <= 1 /\ k <= k + l
    OBVIOUS
  <2>2. n \in {0, 1} /\ Len(capture) \in Nat /\ Queued \in Nat /\ Queued = n + Len(capture)
    BY QueueIs DEF Queued
  <2> QED BY <2>1, <2>2
<1> HIDE DEF n
<1>9. \A i \in 1..n : Queue'[i] = Queue[i]
  BY <1>6 DEF n
<1>10. HearingInv(Queue', n + 1, vad', aec', act, forgotten, Told)
  <2>1. Clocked(vad')
    BY <1>2, <1>5
  <2>2. Queue'[n + 1].edge = "ended" => ~Queue'[n + 1].near
    BY <1>7
  <2>3. Queue'[n + 1].near => (vad'.in_speech => vad'.run = 0) /\ aec'.warmup = 0 /\ aec'.tail = 0
    BY <1>7
  <2>4. act.state = "Speech" /\ Queue'[n + 1].edge = "started" => vad'.in_speech \/ forgotten
    BY <1>7
  <2> QED BY <1>4, <1>7, <1>8, <1>9, <2>1, <2>2, <2>3, <2>4, BrokenHearing
<1>11. Told' = Told
  BY <1>2 DEF Told
<1>12. HearingInv(Queue', Queued', vad', aec', act', forgotten', Told')
  BY <1>6, <1>10, <1>11 DEF n
<1> QED BY <1>1, <1>2, <1>12 DEF SpeechInv

LEMMA CarryOutSpeech ==
  ASSUME UtteranceInv, SpeechInv, ~Anyone, CarryOut, mic' # "failing",
         UNCHANGED <<scope, act, held, forgotten>>
  PROVE  SpeechInv'
<1>1. /\ Good(act) /\ HearingInv(Queue, Queued, vad, aec, act, forgotten, Told)
      /\ mailbox.command = "reset" => Rests(act) /\ (act.state = "Speech" => held = <<>>)
  BY DEF UtteranceInv, SpeechInv
<1>2. UNCHANGED <<mailbox, capture>>
  BY DEF CarryOut
<1>3. Queue' = Queue /\ Queued' = Queued /\ Told' = Told
  BY <1>2 DEF Queue, Queued, Told
<1>4. Clocked(vad) /\ Settles(Queue, Queued, aec) /\ EndsLate(Queue, Queued, vad)
  BY <1>1 DEF HearingInv, DetectorInv
<1>5. HearingInv(Queue, Queued, vad', aec', act, forgotten, Told)
  <2>1. CASE mailbox.command = "reset" /\ ResetListener
    <3>1. vad' = NewVad /\ aec' = aec /\ ~Told
      BY <2>1 DEF ResetListener, Told
    <3>2. ~NewVad.in_speech /\ Clocked(NewVad)
      BY Relations DEF Clocked, NewVad
    <3>3. EndsLate(Queue, Queued, NewVad)
      BY <1>4, <3>2 DEF EndsLate
    <3>4. ~Awaits(act) /\ act.probe = "idle"
      BY <1>1, <2>1, ActorNumbers
    <3> QED BY <1>4, <3>1, <3>2, <3>3, <3>4 DEF HearingInv, DetectorInv
  <2>2. CASE mailbox.command = "prepare" /\ PreparePlayback
    <3>1. vad' = vad /\ aec'.warmup = 0 /\ aec'.tail = 0
      BY <2>2 DEF PreparePlayback, PrepareAec
    <3>2. Settles(Queue, Queued, aec')
      BY <3>1 DEF Settles
    <3> QED BY <1>1, <1>4, <3>1, <3>2 DEF HearingInv, DetectorInv
  <2> QED BY <2>1, <2>2 DEF CarryOut
<1>6. HearingInv(Queue', Queued', vad', aec', act', forgotten', Told')
  BY <1>3, <1>5
<1> QED BY <1>1, <1>2, <1>6 DEF SpeechInv

\* ClearQueuedListenerDecisions, with the frame in the actor's hand.
LEMMA QueueUndecided ==
  ASSUME FramesInv, held' = held, capture' = Undecided(capture)
  PROVE  /\ Queued' = Queued
         /\ \A i \in 1..Queued :
              /\ Queue'[i].gap = Queue[i].gap
              /\ i <= Len(held) => Queue'[i] = Queue[i]
              /\ i > Len(held) => ~Queue'[i].near /\ Queue'[i].edge = "none"
<1>1. /\ capture \in Seq(Frame) /\ Len(held) \in {0, 1} /\ Len(capture) \in Nat
      /\ Len(Undecided(capture)) = Len(capture)
      /\ \A i \in 1..Len(capture) :
           /\ ~Undecided(capture)[i].near /\ Undecided(capture)[i].edge = "none"
           /\ Undecided(capture)[i].gap = capture[i].gap
  BY QueueIs, UndecidedFrames DEF FramesInv
<1>2. Queued' = Queued /\ Len(held') = Len(held)
  BY <1>1 DEF Queued
<1>3. ASSUME NEW i \in 1..Queued
      PROVE  /\ Queue'[i].gap = Queue[i].gap
             /\ i <= Len(held) => Queue'[i] = Queue[i]
             /\ i > Len(held) => ~Queue'[i].near /\ Queue'[i].edge = "none"
  <2>1. Queue'[i] = IF i <= Len(held) THEN held[i] ELSE Undecided(capture)[i - Len(held)]
    BY <1>2 DEF Queue
  <2>2. /\ i <= Len(held) => Queue[i] = held[i]
        /\ i > Len(held) => Queue[i] = capture[i - Len(held)] /\ i - Len(held) \in 1..Len(capture)
    BY QueueIs DEF Queue
  <2>3. CASE i <= Len(held)
    <3>1. ~(i > Len(held))
      BY <1>1, <2>3
    <3> QED BY <2>1, <2>2, <2>3, <3>1
  <2>4. CASE ~(i <= Len(held))
    <3>1. i > Len(held)
      BY <1>1, <2>4
    <3> QED BY <1>1, <2>1, <2>2, <2>4, <3>1
  <2> QED BY <2>3, <2>4
<1> QED BY <1>2, <1>3

LEMMA AnswerSpeech ==
  ASSUME FramesInv, UtteranceInv, CaptureOK, QuietInv, SpeechInv, ~Anyone, Answer,
         UNCHANGED <<scope, act, held, forgotten>>
  PROVE  SpeechInv'
<1>1. /\ Good(act) /\ mailbox \in MailboxType
      /\ HearingInv(Queue, Queued, vad, aec, act, forgotten, Told)
      /\ mailbox.command = "reset" => Rests(act) /\ (act.state = "Speech" => held = <<>>)
  BY DEF UtteranceInv, CaptureOK, SpeechInv
<1>2. /\ capture' = (IF mailbox.command = "reset" THEN Undecided(capture) ELSE capture)
      /\ mailbox' = [mailbox EXCEPT !.command = "none", !.failed = @ \/ mic = "failing"]
      /\ UNCHANGED <<vad, aec>>
  BY DEF Answer
<1>3. mailbox'.command = "none"
  BY <1>1, <1>2 DEF MailboxType
<1>4. CASE mailbox.command = "reset"
  <2>1. /\ Queued' = Queued
        /\ \A i \in 1..Queued :
             /\ Queue'[i].gap = Queue[i].gap
             /\ i <= Len(held) => Queue'[i] = Queue[i]
             /\ i > Len(held) => ~Queue'[i].near /\ Queue'[i].edge = "none"
    BY <1>2, <1>4, QueueUndecided
  <2>2. Queued \in Nat /\ Len(held) \in Nat /\ Len(held) <= 1
    <3>1. \A k \in {0, 1} : k \in Nat /\ k <= 1
      OBVIOUS
    <3> QED BY <3>1, QueueIs
  <2>3. HearingInv(Queue, Queued, vad, aec, act, forgotten, FALSE)
    BY <1>1, <1>4 DEF Told
  <2>4. act.state = "Speech" => Len(held) = 0
    BY <1>1, <1>4
  <2>5. \A i \in 1..Queued :
          Queue'[i].gap = Queue[i].gap /\
            (Queue'[i] = Queue[i] \/ (~Queue'[i].near /\ Queue'[i].edge = "none"))
    <3>1. \A i \in 1..Queued : i <= Len(held) \/ i > Len(held)
      BY <2>2
    <3> QED BY <2>1, <3>1
  <2>6. HearingInv(Queue', Queued, vad, aec, act, forgotten, act.state # "Wake")
    BY <1>1, <1>4, <2>1, <2>2, <2>3, <2>4, <2>5, UndecidedHearing
  <2>7. Told' = (act.state # "Wake")
    BY <1>3 DEF Told
  <2>8. HearingInv(Queue', Queued', vad', aec', act', forgotten', Told')
    BY <1>2, <2>1, <2>6, <2>7
  <2> QED BY <1>3, <2>8 DEF SpeechInv
<1>5. CASE mailbox.command # "reset"
  <2>1. Queue' = Queue /\ Queued' = Queued
    BY <1>2, <1>5 DEF Queue, Queued
  <2> QED BY <1>2, <1>3, <1>5, <2>1, SpeechKept
<1> QED BY <1>4, <1>5

LEMMA SpeechInit == Init => SpeechInv
<1> SUFFICES ASSUME Init PROVE SpeechInv
  OBVIOUS
<1>1. /\ act = NewActor /\ held = <<>> /\ capture = <<>> /\ vad = NewVad /\ aec = NewAec
      /\ mailbox = NewMailbox
  BY DEF Init, CaptureInit
<1>2. Queued = 0 /\ ~Told /\ mailbox.command = "none"
  BY <1>1 DEF Queued, Told, NewActor, NewMailbox
<1>3. ~Awaits(act) /\ act.probe = "idle"
  BY <1>1 DEF Awaits, NewActor
<1>4. Clocked(vad)
  BY <1>1, Relations DEF Clocked, NewVad
<1>5. Settles(Queue, 0, aec) /\ EndsLate(Queue, 0, vad)
  <2>1. \A i \in 1..0 : FALSE
    OBVIOUS
  <2> QED BY <2>1 DEF Settles, EndsLate
<1>6. HearingInv(Queue, Queued, vad, aec, act, forgotten, Told)
  BY <1>2, <1>3, <1>4, <1>5 DEF HearingInv, DetectorInv
<1> QED BY <1>2, <1>6 DEF SpeechInv

\* A step keeps what the actor and the detector know of each other.
LEMMA SpeechNext ==
  ASSUME FramesInv, UtteranceInv, UtteranceInv', CaptureOK, QuietInv, SpeechInv, [Next]_vars
  PROVE  SpeechInv'
<1> SUFFICES ASSUME ~Anyone PROVE SpeechInv'
  BY ScopeStays DEF SpeechInv, Anyone
<1>1. CommandInv /\ Good(act')
  BY DEF QuietInv, UtteranceInv
<1>2. ~Faulty /\ open /\ ~stop
  BY <1>1 DEF Anyone, Faulty, CommandInv
<1>3. ~CommandTimesOut /\ ~AnyCall /\ ~CloseEngine /\ ~EngineJoined /\ ~OpenEngine
  BY <1>2 DEF CommandTimesOut, AnyCall, CloseEngine, EngineJoined, Joined, OpenEngine, Open
<1>a. ASSUME UNCHANGED <<scope, mailbox, capture, held, vad, aec, act, forgotten>>
      PROVE  SpeechInv'
  <2>1. Queue' = Queue /\ Queued' = Queued
    BY <1>a DEF Queue, Queued
  <2> QED BY <1>a, <2>1, SpeechKept
<1>4. CASE UNCHANGED vars
  BY <1>4, <1>a DEF vars, captureVars, actorVars
<1>5. CASE Reply
  BY <1>1, <1>5, ReplySpeech
<1>6. CASE Conversation
  BY <1>1, <1>6, ConversationSpeech
<1>7. CASE PlaybackThread
  BY <1>7, <1>a DEF PlaybackThread, CaptureRests, actorVars
<1>8. CASE CaptureThread
  <2>1. UNCHANGED <<scope, act, held>>
    BY <1>8 DEF CaptureThread
  <2>2. CASE HearFrame
    <3>1. ASSUME NEW now \in BOOLEAN, NEW reference \in {FALSE, active /\ ~drop},
                 Hear(now, reference), forgotten' = (forgotten \/ ForgetsSpeech(now, reference))
          PROVE  SpeechInv'
      <4>1. reference \in BOOLEAN
        OBVIOUS
      <4> QED BY <2>1, <3>1, <4>1, HearSpeech
    <3>2. CASE HearGap /\ UNCHANGED forgotten
      BY <2>1, <3>2, GapSpeech
    <3> QED BY <2>2, <3>1, <3>2 DEF HearFrame
  <2>3. CASE CarryOut /\ (mic' = "failing" => Faulty) /\ UNCHANGED forgotten
    BY <1>2, <2>1, <2>3, CarryOutSpeech
  <2>4. CASE LookForCommand /\ UNCHANGED forgotten
    BY <1>a, <2>1, <2>4 DEF LookForCommand
  <2>5. CASE Answer /\ UNCHANGED forgotten
    BY <2>1, <2>5, AnswerSpeech
  <2> QED BY <1>2, <1>8, <2>2, <2>3, <2>4, <2>5 DEF CaptureThread, NoFrame
<1> QED BY <1>3, <1>4, <1>5, <1>6, <1>7, <1>8 DEF Next

\* A turn that waits for the end of what is said will hear it: the detector
\* still hears speech, or its end or a break is on its way.
LEMMA SpeechHeard ==
  ASSUME FramesInv, UtteranceInv, SpeechInv
  PROVE  SpeechAlwaysEnds
<1> SUFFICES ASSUME act.state = "Capturing", ~vad.in_speech, ~act.ended, ~forgotten
             PROVE  \E i \in DOMAIN (held \o capture) :
                      (held \o capture)[i].edge = "ended" \/ (held \o capture)[i].gap
  BY DEF SpeechAlwaysEnds
<1>1. ~Anyone
  BY DEF UtteranceInv
<1>2. Awaits(act) /\ HearingInv(Queue, Queued, vad, aec, act, forgotten, Told)
  BY <1>1 DEF Awaits, SpeechInv
<1>3. Ends(Queue, 0, Queued)
  BY <1>2 DEF HearingInv, Heard
<1>4. PICK i \in (0 + 1)..Queued : Closes(Queue[i])
  BY <1>3 DEF Ends
<1>5. /\ held \in Seq(Frame) /\ capture \in Seq(Frame)
      /\ Len(held) \in Nat /\ Len(capture) \in Nat
  BY DEF FramesInv
<1>6. /\ held \o capture \in Seq(Frame) /\ Len(held \o capture) = Queued
      /\ Queue[i] = (held \o capture)[i]
  <2>1. i \in 1..Queued
    BY <1>4
  <2>2. Queued = Len(held) + Len(capture)
    BY DEF Queued
  <2>3. held \o capture \in Seq(Frame) /\ Len(held \o capture) = Queued
    BY <1>5, <2>2
  <2>4. (held \o capture)[i] = IF i <= Len(held) THEN held[i] ELSE capture[i - Len(held)]
    BY <1>5, <2>1, <2>2
  <2>5. Queue[i] = IF i <= Len(held) THEN held[i] ELSE capture[i - Len(held)]
    BY <2>1 DEF Queue
  <2> QED BY <2>3, <2>4, <2>5
<1>7. i \in DOMAIN (held \o capture)
  BY <1>4, <1>6
<1> QED BY <1>4, <1>6, <1>7 DEF Closes

\* Every turn whose speech is captured hears its end, for any times of the
\* detector, counts of the actor and ring that DetectorAssumption relates: the
\* end, or a break of the capture, is still on its way once the detector hears
\* no more speech, through resets that overtake frames, probes and confirmed
\* barge-ins, follow-ups, overruns of the ring and suppressions; unless the
\* detector was reset under the utterance at the end of a suppression
\* (audio_backend.cpp 265-322, audio_engine.cpp 92-146, voice_client.cpp 640-844).
THEOREM SpeechIsHeardOut == Spec => []SpeechAlwaysEnds
<1> DEFINE Inv == FramesInv /\ UtteranceInv /\ DeviceInv /\ CaptureOK /\ QuietInv /\ SpeechInv
<1>1. Init => Inv
  BY UtteranceInit, DeviceInit, CaptureInitOK, QuietInit, SpeechInit
<1>2. Inv /\ [Next]_vars => Inv'
  <2> SUFFICES ASSUME Inv, [Next]_vars PROVE Inv'
    OBVIOUS
  <2>1. FramesInv' /\ UtteranceInv' /\ DeviceInv' /\ CaptureOK' /\ QuietInv'
    BY FramesNext, UtteranceNext, DeviceNext, CaptureNextOK, QuietNext
  <2>2. SpeechInv'
    BY <2>1, SpeechNext
  <2> QED BY <2>1, <2>2
<1>3. Inv => SpeechAlwaysEnds
  BY SpeechHeard
<1> QED BY <1>1, <1>2, <1>3, PTL DEF Spec
=============================================================================
