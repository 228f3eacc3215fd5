------------------------------- MODULE BargeIn -------------------------------
(***************************************************************************)
(* What the application actor (client/src/application/voice_client.cpp)    *)
(* does with one capture frame after another: a user who speaks into an    *)
(* answer mutes it, is verified against the echo, and cuts it; what was    *)
(* said meanwhile becomes the next turn. Also the follow-up after an       *)
(* answer, and where an utterance ends.                                    *)
(*                                                                         *)
(* The handlers are functions of the members they touch; a result is the   *)
(* members and what to do to the audio engine, in the order of the names   *)
(* below. Sends succeed: VoiceClient has the ones that do not. The pre-roll*)
(* is the number of its frames and how many of them belong to the          *)
(* utterance; loudness against barge_min_dbfs is any value.                *)
(***************************************************************************)
EXTENDS Naturals

CONSTANTS
  BargeCandidate, BargeReferenceWait, BargeReferenceLow, BargeEchoClear, BargeConfirm,
  BargeTailFreeze, BargeRetryCooldown,
  FollowUpNear,  \* kFollowUpNearFrames
  PreRoll,       \* kPreRollFrames
  BargeBuffer    \* kBargeBufferFrames

ASSUME BargeAssumption ==
  /\ {BargeCandidate, BargeReferenceWait, BargeReferenceLow, BargeEchoClear, BargeConfirm,
      BargeTailFreeze, BargeRetryCooldown, FollowUpNear, PreRoll, BargeBuffer} \subseteq Nat \ {0}
  /\ BargeCandidate <= PreRoll /\ PreRoll <= BargeBuffer
  /\ BargeCandidate + BargeReferenceWait + BargeEchoClear + BargeConfirm <= BargeBuffer

States == {"Wake", "Speech", "Capturing", "Response", "Playing", "CancelPending",
           "Draining", "FollowUp"}
Answering == {"Playing", "Draining"}

\* drop: DropPlayback. mute, unmute: SetPlaybackScale. reset: ResetListener.
Effects == {"drop", "mute", "unmute", "reset"}

\* spoken and missed are history: the frames of the utterance saved so far, and
\* whether one was lost.
NewActor ==
  [state |-> "Wake", probe |-> "idle", frames |-> 0, cooldown |-> 0, quiet |-> 0,
   silence |-> 0, admitted |-> FALSE, ended |-> FALSE, full |-> FALSE, finish |-> FALSE,
   follow |-> 0, pre |-> 0, spoken |-> 0, missed |-> FALSE]

ActorOK(a) ==
  /\ a.state \in States /\ a.probe \in {"idle", "low", "clear", "verify"}
  /\ a.frames \in 0..(BargeCandidate + BargeReferenceWait + BargeEchoClear + BargeConfirm)
  /\ a.cooldown \in 0..BargeRetryCooldown /\ a.quiet \in 0..BargeReferenceLow
  /\ a.silence \in 0..BargeTailFreeze /\ a.follow \in 0..FollowUpNear
  /\ a.pre \in 0..BargeBuffer /\ a.spoken \in 0..a.pre
  /\ {a.admitted, a.ended, a.full, a.finish, a.missed} \subseteq BOOLEAN

Result(a, does) == [actor |-> a, does |-> does]
Stay(a) == Result(a, {})

-----------------------------------------------------------------------------
(* The ends of a turn.                                                     *)

ResetBargeProbe(a) == [a EXCEPT !.frames = 0, !.cooldown = 0, !.probe = "idle"]
ResetBargeTurn(a) ==
  [a EXCEPT !.ended = FALSE, !.admitted = FALSE, !.full = FALSE, !.quiet = 0, !.silence = 0]
NoPreRoll(a) == [a EXCEPT !.pre = 0, !.spoken = 0, !.missed = FALSE]

FollowUp(a) ==
  [ResetBargeTurn(ResetBargeProbe(a)) EXCEPT !.follow = 0, !.finish = FALSE, !.state = "FollowUp"]

FinishTurn(a, normal) ==
  Result(FollowUp(a), {"unmute", "reset"} \cup (IF normal THEN {} ELSE {"drop"}))

AbortCurrent(a) ==
  Result([ResetBargeTurn(ResetBargeProbe(a)) EXCEPT !.finish = TRUE, !.state = "CancelPending"],
         {"drop", "unmute"})

LoseConnection(a) == Result(NewActor, {"drop", "unmute", "reset"})

\* StartTurn sends the pre-roll and empties it; an utterance that has ended is
\* committed at once.
StartTurn(a, ended) ==
  [NoPreRoll(a) EXCEPT !.state = IF ended THEN "Response" ELSE "Capturing"]

ResumeAfterBarge(a) ==
  Result([StartTurn(a, a.ended) EXCEPT !.admitted = FALSE, !.ended = FALSE, !.finish = FALSE],
         {"drop"})

CompleteCancel(a) ==
  IF a.finish THEN FinishTurn(a, FALSE)
  ELSE IF a.admitted /\ ~a.full THEN ResumeAfterBarge(a)
  ELSE FinishTurn(NoPreRoll(a), FALSE)

-----------------------------------------------------------------------------
(* The pre-roll.                                                           *)

Waiting(a) == a.state = "CancelPending" /\ a.admitted

\* SavePreRoll. Only a probe or a confirmed utterance makes it longer than
\* PreRoll; a longer one is not cut back, it only grows no more.
Save(a, belongs) ==
  LET limit == IF a.probe # "idle" \/ Waiting(a) THEN BargeBuffer ELSE PreRoll
      grows == a.pre < limit
      said == IF belongs THEN a.spoken + 1 ELSE 0
      kept == IF grows THEN a.pre + 1 ELSE a.pre
  IN IF Waiting(a) /\ a.pre = BargeBuffer THEN [a EXCEPT !.full = TRUE]
     ELSE [a EXCEPT !.pre = kept,
                    !.spoken = IF said > kept THEN kept ELSE said,
                    !.missed = belongs /\ (@ \/ said > kept)]

\* The first frame of the user's voice after a pause is saved again.
Unfrozen(a, f) ==
  IF a.state = "CancelPending" /\ ~a.ended /\ f.near THEN [a EXCEPT !.silence = 0] ELSE a

Frozen(a) == a.state = "CancelPending" /\ (a.ended \/ a.silence >= BargeTailFreeze)

\* Whether the frame is part of what the user says into the answer.
Belongs(a, loud) ==
  \/ a.state \in Answering /\ (a.probe # "idle" \/ (a.cooldown = 0 /\ loud))
  \/ Waiting(a)

MutSaved(a, f, loud) ==
  IF a.state = "Capturing" THEN a
  ELSE IF Frozen(a) THEN [Unfrozen(a, f) EXCEPT !.missed = @ \/ (f.near /\ ~a.ended)]
  ELSE Save(Unfrozen(a, f), Belongs(a, loud))

Saved(a, f, loud) ==
  LET u == Unfrozen(a, f)
  IN IF u.state = "Capturing" THEN u
     ELSE IF Frozen(u) THEN [u EXCEPT !.missed = @ \/ (f.near /\ ~u.ended)]
     ELSE Save(u, Belongs(u, loud))

KeepNewest(a, n) == [a EXCEPT !.pre = IF n < @ THEN n ELSE @]

-----------------------------------------------------------------------------
(* HandleBarge: a candidate is muted, waits for the reference to fall      *)
(* silent and the echo to fade, and is confirmed by more near voice.       *)

MutRejected(a) ==
  Stay([ResetBargeTurn(ResetBargeProbe(a)) EXCEPT !.cooldown = BargeRetryCooldown])

Rejected(a) ==
  Result([ResetBargeTurn(ResetBargeProbe(a)) EXCEPT !.cooldown = BargeRetryCooldown], {"unmute"})

Candidate(a, loud) ==
  IF a.cooldown # 0 THEN Stay([a EXCEPT !.cooldown = @ - 1])
  ELSE IF ~loud THEN Stay([a EXCEPT !.frames = 0])
  ELSE IF a.frames + 1 < BargeCandidate THEN Stay([a EXCEPT !.frames = @ + 1])
  ELSE Result([ResetBargeTurn(KeepNewest(a, BargeCandidate)) EXCEPT !.frames = 0, !.probe = "low"],
              {"mute"})

AwaitReferenceLow(a, f) ==
  LET low == IF f.reference THEN 0 ELSE a.quiet + 1
  IN IF a.frames + 1 > BargeReferenceWait THEN Rejected(a)
     ELSE IF low < BargeReferenceLow THEN Stay([a EXCEPT !.frames = @ + 1, !.quiet = low])
     ELSE Stay([a EXCEPT !.frames = 0, !.quiet = low, !.probe = "clear"])

AwaitEchoClear(a, f) ==
  IF f.reference THEN Rejected(a)
  ELSE IF a.frames + 1 < BargeEchoClear THEN Stay([a EXCEPT !.frames = @ + 1])
  ELSE Stay([a EXCEPT !.frames = 0, !.probe = "verify"])

ConfirmBarge(a) ==
  Result([ResetBargeProbe(a) EXCEPT !.admitted = TRUE, !.ended = FALSE, !.silence = 0,
                                    !.full = FALSE, !.finish = FALSE,
                                    !.state = "CancelPending"],
         {"drop", "unmute"})

Verify(a, f, loud) ==
  IF f.reference \/ ~loud THEN Rejected(a)
  ELSE IF a.frames + 1 < BargeConfirm THEN Stay([a EXCEPT !.frames = @ + 1])
  ELSE ConfirmBarge(a)

HandleBarge(a, f, loud) ==
  CASE a.probe = "idle"   -> Candidate(a, loud)
    [] a.probe = "low"    -> AwaitReferenceLow(a, f)
    [] a.probe = "clear"  -> AwaitEchoClear(a, f)
    [] a.probe = "verify" -> Verify(a, f, loud)

-----------------------------------------------------------------------------
(* OnFrame.                                                                *)

Discontinuity(a) ==
  CASE a.state = "CancelPending" ->
         Stay([ResetBargeTurn(NoPreRoll(a)) EXCEPT !.finish = TRUE])
    [] a.state \in Answering \cup {"Capturing", "Response"} -> AbortCurrent(NoPreRoll(a))
    [] OTHER -> Result([NoPreRoll(a) EXCEPT !.state = "Wake"], {"drop", "reset"})

\* TrackBargeUtterance.
Track(a, f) ==
  Stay([a EXCEPT !.silence = IF f.near THEN 0 ELSE IF @ < BargeTailFreeze THEN @ + 1 ELSE @,
                 !.ended = @ \/ f.edge = "ended"])

\* The count is read in this state only, which FinishTurn enters with 0.
AwaitFollowUp(a, f) ==
  IF ~f.near THEN Stay([a EXCEPT !.follow = 0])
  ELSE IF a.follow + 1 < FollowUpNear THEN Stay([a EXCEPT !.follow = @ + 1])
  ELSE Stay([StartTurn(a, FALSE) EXCEPT !.follow = 0])

\* loud: near voice above barge_min_dbfs. wake: the wake word, or a touch that
\* was seen since the last frame.
OnFrame(before, f, loud, wake) ==
  LET a == Saved(before, f, loud)
  IN IF f.gap THEN Discontinuity(before)
     ELSE CASE a.state = "Wake" ->
                 IF wake THEN Result([a EXCEPT !.state = "Speech"], {"reset"}) ELSE Stay(a)
            [] a.state = "Speech" ->
                 Stay(IF f.edge = "started" THEN StartTurn(a, FALSE) ELSE a)
            [] a.state = "FollowUp" -> AwaitFollowUp(a, f)
            [] a.state = "Capturing" ->
                 Stay(IF a.ended \/ f.edge = "ended"
                      THEN [a EXCEPT !.ended = FALSE, !.state = "Response"] ELSE a)
            [] a.state = "CancelPending" -> Track(a, f)
            [] a.state \in Answering -> HandleBarge(a, f, loud)
            [] a.state = "Response" -> Stay(a)
=============================================================================
