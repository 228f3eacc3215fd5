-------------------------- MODULE ConnectionWriter --------------------------
(***************************************************************************)
(* The outbound half of a device connection on the server                  *)
(* (server/internal/transport/connection.go): SendControl and SendPCM wait *)
(* for room in sendQueue, the ping handler of the reader puts pongs into   *)
(* controlQueue without waiting, and writePump, which owns all writes,     *)
(* serves both and the heartbeat's ticker.                                 *)
(*                                                                         *)
(* Contents of the messages do not matter here; the queues are counts. The *)
(* ticker's channel holds one tick and the runtime drops the ones beyond.  *)
(***************************************************************************)
EXTENDS Naturals

CONSTANTS
  SendCap,      \* sendQueueCapacity
  ControlCap    \* capacity of controlQueue

ASSUME WriterAssumption == SendCap \in Nat \ {0} /\ ControlCap \in Nat \ {0}

VARIABLES
  pc,        \* writePump: before its first, second or third select, or "gone"
  send, control,   \* lengths of sendQueue and controlQueue
  tick,      \* a tick waits in ticker.C
  cancelled, \* the connection's context
  overdue    \* history: messages written since the waiting tick came

writer == <<pc, send, control, tick, cancelled, overdue>>

\* How far overdue is counted (bound of the model).
Counted == 3

Places == {"control", "heartbeat", "any"}

WriterTypeOK ==
  /\ pc \in Places \cup {"gone"}
  /\ send \in 0..SendCap /\ control \in 0..ControlCap
  /\ tick \in BOOLEAN /\ cancelled \in BOOLEAN
  /\ overdue \in 0..Counted

WriterInit ==
  /\ pc = "control" /\ send = 0 /\ control = 0
  /\ tick = FALSE /\ cancelled = FALSE /\ overdue = 0

\* write succeeds, or fails at its deadline and cancels the connection.
Write(next) ==
  /\ overdue' = IF ~tick THEN 0 ELSE IF overdue < Counted THEN overdue + 1 ELSE overdue
  /\ \/ pc' = next /\ UNCHANGED cancelled
     \/ pc' = "gone" /\ cancelled' = TRUE

WriteControl(next) ==
  /\ control > 0
  /\ control' = control - 1
  /\ Write(next)
  /\ UNCHANGED <<send, tick>>

WriteSend ==
  /\ send > 0
  /\ send' = send - 1
  /\ Write("control")
  /\ UNCHANGED <<control, tick>>

WritePing ==
  /\ tick
  /\ tick' = FALSE /\ overdue' = 0
  /\ \/ pc' = "control" /\ UNCHANGED cancelled
     \/ pc' = "gone" /\ cancelled' = TRUE
  /\ UNCHANGED <<send, control>>

\* First select: one waiting pong, or nothing.
ControlFirst ==
  /\ pc = "control"
  /\ \/ WriteControl("heartbeat")
     \/ control = 0 /\ pc' = "heartbeat"
        /\ UNCHANGED <<send, control, tick, cancelled, overdue>>

MutHeartbeatNext ==
  /\ pc = "heartbeat" /\ pc' = "any"
  /\ UNCHANGED <<send, control, tick, cancelled, overdue>>

\* Second select: a pending tick is answered before normal data.
HeartbeatNext ==
  /\ pc = "heartbeat"
  /\ \/ WritePing
     \/ ~tick /\ pc' = "any"
        /\ UNCHANGED <<send, control, tick, cancelled, overdue>>

\* Third select: whatever is ready, in any order.
AnyReady ==
  /\ pc = "any"
  /\ \/ cancelled /\ pc' = "gone"
        /\ UNCHANGED <<send, control, tick, cancelled, overdue>>
     \/ WriteControl("control") \/ WriteSend \/ WritePing

WritePump == ControlFirst \/ HeartbeatNext \/ AnyReady

\* enqueue: a sender waits for room and gives up when a context ends.
Enqueue ==
  /\ ~cancelled /\ send < SendCap
  /\ send' = send + 1
  /\ UNCHANGED <<pc, control, tick, cancelled, overdue>>

\* The ping handler never waits: a full controlQueue ends the connection.
PeerPing ==
  /\ ~cancelled
  /\ IF control < ControlCap
     THEN control' = control + 1 /\ UNCHANGED cancelled
     ELSE cancelled' = TRUE /\ UNCHANGED control
  /\ UNCHANGED <<pc, send, tick, overdue>>

Tick ==
  /\ pc # "gone" /\ ~tick
  /\ tick' = TRUE /\ overdue' = 0
  /\ UNCHANGED <<pc, send, control, cancelled>>

\* Close, the handler's end, or a read error.
Cancel ==
  /\ ~cancelled
  /\ cancelled' = TRUE
  /\ UNCHANGED <<pc, send, control, tick, overdue>>

WriterNext == WritePump \/ Enqueue \/ PeerPing \/ Tick \/ Cancel

WriterSpec == WriterInit /\ [][WriterNext]_writer

-----------------------------------------------------------------------------
(* Properties.                                                             *)

\* A busy send queue and a peer that keeps pinging cannot delay the
\* heartbeat: at most two messages are written between a tick and its ping.
HeartbeatOnTime == overdue <= 2
=============================================================================
