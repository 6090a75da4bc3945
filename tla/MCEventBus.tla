----------------------------- MODULE MCEventBus -----------------------------
(***************************************************************************)
(* A small instance of EventBus: an event stream and a surveillance agent  *)
(* on BROADCAST, the tool manager on its own channel, two broadcasts and a *)
(* tool call that may overtake one of them.                                *)
(***************************************************************************)
EXTENDS EventBus, TLC

CONSTANTS stream, agent, tools, chunk, request, alert

MCCallback == {stream, agent, tools}
MCChannelOf == stream :> "BROADCAST" @@ agent :> "BROADCAST" @@ tools :> "TOOL_MANAGER"
MCMessage == {chunk, request, alert}
MCReceiverOf == chunk :> "BROADCAST" @@ request :> "TOOL_MANAGER" @@ alert :> "BROADCAST"
MCRankOf == alert :> 1 @@ request :> 2 @@ chunk :> 3

=============================================================================
