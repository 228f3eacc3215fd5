----------------------------- MODULE Connection -----------------------------
(***************************************************************************)
(* A device connection on the server with both its pumps. They share the   *)
(* context, which either of them can cancel, and meet in the ping handler: *)
(* the WebSocket library calls it from readPump's read, so a reader that   *)
(* waits for room in its queue does not see the peer's pings.              *)
(***************************************************************************)
EXTENDS ServerConnection, ConnectionWriter

ConnectionInit == Init /\ WriterInit

\* What ends the reader ends the writer.
ReaderStep ==
  /\ Next
  /\ cancelled' = (over' # "no")
  /\ UNCHANGED <<pc, send, control, tick, overdue>>

WriterStep ==
  /\ WriterNext
  /\ control' > control => pump.at = "read"
  /\ over' = IF cancelled' /\ Alive THEN "peer" ELSE over
  /\ UNCHANGED <<client, pump, saturated, receiveQueue, congestion, congested, rx, history>>

ConnectionNext == ReaderStep \/ WriterStep

\* The reader's fairness; nothing is assumed of the writer, of the client or of
\* the peers of the send queue.
ConnectionSpec ==
  /\ ConnectionInit /\ [][ConnectionNext]_<<vars, writer>>
  /\ WF_vars(ReaderStep /\ (PassFence \/ SignalTurnCongestion))
  /\ WF_vars(ReaderStep /\ Receive)
=============================================================================
