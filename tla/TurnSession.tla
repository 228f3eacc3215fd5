----------------------------- MODULE TurnSession -----------------------------
(***************************************************************************)
(* What a session actor promises to the device handler, without channels,  *)
(* waiting callers or a provider: one turn at a time, epochs that only     *)
(* grow, an answer only between a commit and its last item, and a stream   *)
(* of answer items in which a turn's items stop for good when the turn is  *)
(* cancelled or answered. Calls are atomic.                                *)
(*                                                                         *)
(* SessionActor is checked to implement this specification; DeviceHandler  *)
(* uses its actions as the actor it talks to.                              *)
(***************************************************************************)
EXTENDS Naturals, Sequences

CONSTANTS
  Epochs,     \* the epochs a turn can have
  Items,      \* what one answer event can say
  LastItems,  \* the items that end an answer
  LossItem    \* the one that reports the loss of the session

VARIABLES
  phase,      \* "idle", "listening" or "answering"
  latest,     \* the newest epoch ever started
  epoch,      \* the epoch of the current, or of the last, turn
  hasFrames,  \* the current turn has audio
  out,        \* events not yet taken: [epoch, item]
  closed      \* the session has ended

vars == <<phase, latest, epoch, hasFrames, out, closed>>

Init ==
  /\ phase = "idle" /\ latest = 0 /\ epoch = 0 /\ hasFrames = FALSE
  /\ out = <<>> /\ closed = FALSE

CanStart(e) == phase = "idle" /\ e > latest
CanAppend(e) == phase = "listening" /\ e = epoch
CanCommit(e) == CanAppend(e) /\ hasFrames
CanCancel(e) == phase # "idle" /\ e = epoch

Start(e) ==
  /\ ~closed /\ CanStart(e)
  /\ phase' = "listening" /\ latest' = e /\ epoch' = e /\ hasFrames' = FALSE
  /\ UNCHANGED <<out, closed>>

Append1(e) ==
  /\ ~closed /\ CanAppend(e)
  /\ hasFrames' = TRUE
  /\ UNCHANGED <<phase, latest, epoch, out, closed>>

Commit(e) ==
  /\ ~closed /\ CanCommit(e)
  /\ phase' = "answering"
  /\ UNCHANGED <<latest, epoch, hasFrames, out, closed>>

\* An undelivered last event of the cancelled turn may be withdrawn.
Withdrawn(q, e) ==
  {q} \cup (IF q # <<>> /\ q[Len(q)].epoch = e
            THEN {SubSeq(q, 1, Len(q) - 1)} ELSE {})

Cancel(e) ==
  /\ ~closed /\ CanCancel(e)
  /\ phase' = "idle" /\ epoch' = 0 /\ hasFrames' = FALSE
  /\ out' \in Withdrawn(out, e)
  /\ UNCHANGED <<latest, closed>>

Answer(item) ==
  /\ ~closed /\ phase = "answering"
  /\ out' = Append(out, [epoch |-> epoch, item |-> item])
  /\ phase' = IF item \in LastItems THEN "idle" ELSE phase
  /\ UNCHANGED <<latest, epoch, hasFrames, closed>>

Take ==
  /\ out # <<>>
  /\ out' = Tail(out)
  /\ UNCHANGED <<phase, latest, epoch, hasFrames, closed>>

\* Ending the session may lose the newest undelivered event, or report the
\* loss of the turn in one more event.
Close ==
  /\ ~closed
  /\ closed' = TRUE
  /\ \/ out' \in {out} \cup (IF out = <<>> THEN {} ELSE {SubSeq(out, 1, Len(out) - 1)})
     \/ /\ phase # "idle"
        /\ out' = Append(out, [epoch |-> epoch, item |-> LossItem])
  /\ UNCHANGED <<phase, latest, epoch, hasFrames>>

Next ==
  \/ \E e \in Epochs : Start(e) \/ Append1(e) \/ Commit(e) \/ Cancel(e)
  \/ \E item \in Items : Answer(item)
  \/ Take \/ Close

Spec == Init /\ [][Next]_vars
=============================================================================
