----------------------------- MODULE MCRuntimes -----------------------------
(***************************************************************************)
(* Two runs of any kinds on a bus with another subscriber, whose callback  *)
(* may hold up the dispatch of their chunks; the first run's comes first   *)
(* when both are queued.                                                   *)
(***************************************************************************)
EXTENDS Runtimes, TLC

CONSTANTS r1, r2, stream, phrase1, phrase2

MCCallback == {r1, r2, stream}
MCMessage == {r1, r2}
MCChannelOf == [c \in MCCallback |-> "BROADCAST"]
MCReceiverOf == [m \in MCMessage |-> "BROADCAST"]
MCRankOf == r1 :> 1 @@ r2 :> 2
MCPhraseOf == r1 :> phrase1 @@ r2 :> phrase2

=============================================================================
