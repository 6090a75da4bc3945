------------------------------ MODULE MCMemory ------------------------------
(***************************************************************************)
(* A keyword of the indexes and a rewording of it that is similar enough   *)
(* for the retrieval runtime and not for the gateway; two answers that     *)
(* begin alike, so that one text may be left of either.                    *)
(***************************************************************************)
EXTENDS Memory, TLC

CONSTANTS keyword, rewording, old, new, stub

MCPrompt == {keyword, rewording}
MCIndexOf == keyword :> old
MCPart == old :> {stub} @@ new :> {stub}
MCCss == [pk \in MCPrompt \X MCPrompt |-> IF pk[1] = pk[2] THEN 100 ELSE 80]
MCThreshold == "STANDARD" :> 85 @@ "RETRIEVAL" :> 80

=============================================================================
