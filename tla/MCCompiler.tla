----------------------------- MODULE MCCompiler -----------------------------
(***************************************************************************)
(* A small instance of Compiler: every dependency graph over three steps   *)
(* (self-dependencies, cycles and a step that does not exist included),    *)
(* the deterministic fallback of pass 2, drafts that name a step twice,    *)
(* an empty draft, and drafts over the budget or the risk threshold.       *)
(***************************************************************************)
EXTENDS Compiler

CONSTANTS s1, s2, s3, missing

MCStep == {s1, s2, s3, missing}

Draw(id, p, needs, r) ==
    [step_id |-> id, profile |-> p, dependencies |-> needs, risky |-> r]

AllGraphs ==
    {<<Draw(s1, "retrieval", d1, FALSE), Draw(s2, "heavy", d2, FALSE),
       Draw(s3, "fast", d3, FALSE)>> : d1, d2, d3 \in SUBSET MCStep}

Special ==
    { <<>>,
      <<Draw(s1, "retrieval", {}, FALSE), Draw(s2, "heavy", {s1}, FALSE),
        Draw(s3, "fast", {s2}, FALSE)>>,
      <<Draw(s1, "fast", {missing}, TRUE), Draw(s2, "fast", {}, FALSE),
        Draw(s1, "fast", {s2}, FALSE)>>,
      <<Draw(s1, "heavy", {}, FALSE), Draw(s2, "heavy", {}, FALSE),
        Draw(s3, "fast", {s1, s2}, FALSE)>>,
      <<Draw(s1, "fast", {}, TRUE), Draw(s2, "fast", {s1}, TRUE)>> }

MCDrafts == AllGraphs \cup Special

=============================================================================
