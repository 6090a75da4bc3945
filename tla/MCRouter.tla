------------------------------ MODULE MCRouter ------------------------------
(***************************************************************************)
(* A small instance of Router: one workflow, the two providers whose       *)
(* entries pass the cost filter of the twin runtime's profiles, and the    *)
(* profiles of a plan's DEEP_REASONING, vision and other requests.         *)
(***************************************************************************)
EXTENDS Router

CONSTANTS groq, gemini, w1

MCProvider == {groq, gemini}
MCProbes == <<groq, gemini>>
MCWorkflow == {w1}

Request(S, price, diverse) == [providers |-> S, price |-> price, diverse |-> diverse]

\* Of the catalogue's prices only the order matters.
GeminiCheaper == [p \in MCProvider |-> IF p = gemini THEN 1 ELSE 2]
GroqCheaper == [p \in MCProvider |-> IF p = groq THEN 1 ELSE 2]

\* The requests the runtimes make under the workflow id of their blocks, and
\* with them those of the gateway's table, under the plan's own id.
MCProfile ==
    {Request(MCProvider, GeminiCheaper, FALSE), Request(MCProvider, GroqCheaper, FALSE),
     Request({gemini}, GeminiCheaper, FALSE)}
MCTwinProfile == Request(MCProvider, GeminiCheaper, TRUE)

=============================================================================
