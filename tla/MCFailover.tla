----------------------------- MODULE MCFailover -----------------------------
(***************************************************************************)
(* A small instance of Failover: a worker that asks for the head of the    *)
(* standard chain, and a large request whose chain names its primary entry *)
(* again and has an entry that is too small for it. Both upgrade to the    *)
(* overflow chain, whose two models are one provider's.                    *)
(***************************************************************************)
EXTENDS Failover, TLC

CONSTANTS worker, large, groq, gemini, openrouter,
          llama, flash, sonnet, pro

MCCall == {worker, large}
MCEntry == {llama, flash, sonnet, pro}
MCProvider == {groq, gemini, openrouter}
MCProviderOf == llama :> groq @@ flash :> gemini @@ sonnet :> openrouter @@ pro :> gemini
MCPrimaryOf == worker :> llama @@ large :> flash
MCRoutingChainOf == worker :> <<llama, flash>> @@ large :> <<llama, flash, sonnet>>
MCTooSmallFor == worker :> {} @@ large :> {llama}
MCOverflowChain == <<pro, flash>>

=============================================================================
