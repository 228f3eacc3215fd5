------------------------------ MODULE Providers ------------------------------
(***************************************************************************)
(* The provider session of a server is of one kind, the one its            *)
(* configuration asks for: QwenPipeline in the mode "intelligence", and    *)
(* QwenOmni in the mode "realtime" (newQwenBackend). The other one stays   *)
(* as it was created, and owes nothing.                                    *)
(***************************************************************************)
EXTENDS QwenPipeline, QwenOmni

VARIABLE ConversationMode  \* of the configuration

providersVars == <<ConversationMode, vars, omniVars>>

Modes == {"intelligence", "realtime"}
Intelligence == ConversationMode = "intelligence"
Realtime == ConversationMode = "realtime"

ProvidersInit == ConversationMode \in Modes /\ Init /\ OmniInit

PipelineOnly == Intelligence /\ UNCHANGED <<ConversationMode, omniVars>>
OmniOnly == Realtime /\ UNCHANGED <<ConversationMode, vars>>

ProvidersNext == (PipelineOnly /\ Next) \/ (OmniOnly /\ OmniNext)

\* A call of the actor goes on, and so does what it waits for.
CallsGoOn == (PipelineOnly /\ CallReturns) \/ (OmniOnly /\ CallGoesOn)
WorkGoesOn == (PipelineOnly /\ Run) \/ (OmniOnly /\ WriterRuns)
StreamGoesOn == (PipelineOnly /\ PrepareRealtimeASR) \/ (OmniOnly /\ ReaderGoesOn)

(***************************************************************************)
(* Fairness: the goroutines are scheduled; a request or a write ends by    *)
(* its timeout, a read when the socket is closed; the model answers. The   *)
(* timer of Cancel need not pass, and reading events is not fair: the      *)
(* actor reads none while it waits.                                        *)
(***************************************************************************)
ProvidersSpec ==
  /\ ProvidersInit /\ [][ProvidersNext]_providersVars
  /\ WF_providersVars(CallsGoOn) /\ WF_providersVars(WorkGoesOn)
  /\ WF_providersVars(StreamGoesOn)
  /\ WF_providersVars(OmniOnly /\ Pump) /\ WF_providersVars(OmniOnly /\ Answers)

\* Cancel returns without its timer although nobody reads the events
\* (TestProviderAudioBackpressureUnblocksOnTurnCancellation), and Close
\* returns when the session's goroutines have ended, in either mode. After a
\* complaint of the model the reader may hold an event of a response that has
\* no fence any more (qwen/session.go 353-363): with the queue full, only the
\* timer ends the Cancel that waits behind it.
ProviderCallsReturn ==
  /\ []<>~(AtCall("wait") \/ AtCall("join"))
  /\ []<>(~InCancel \/ trace.complained)
  /\ []<>~InClose
=============================================================================
