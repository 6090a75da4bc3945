------------------------------ MODULE Compiler ------------------------------
(***************************************************************************)
(* From the subtasks a language model drafts to the execution layers the   *)
(* scheduler gets: the deterministic passes of AICompiler.compile          *)
(* (compiler/compiler.py), PolicyEngine.validate_plan (compiler/policy.py) *)
(* and ExecutionPlanner.plan_execution_layers (compiler/planner.py).       *)
(*                                                                         *)
(* Both loops walk list(unresolved), the list of a Python set, so in an    *)
(* order the program does not choose. One step is one turn of a loop body. *)
(***************************************************************************)
EXTENDS Naturals, Sequences, FiniteSetsExt

CONSTANTS
    Step,           \* the step ids a draft may name
    Drafts,         \* what pass 2 may hand on: sequences of subtasks
    BudgetLimit,    \* PolicyEngine.budget_limit, in thousandths of a dollar
    RiskThreshold   \* PolicyEngine.risk_threshold, in hundredths

Profile == {"heavy", "retrieval", "fast"}

\* A dependency may name a step the draft does not have: the draft is free text.
Subtask == [step_id : Step, profile : Profile, dependencies : SUBSET Step,
            risky : BOOLEAN]

ASSUME CompilerAssumption ==
    /\ Drafts \subseteq Seq(Subtask)
    /\ BudgetLimit \in Nat /\ RiskThreshold \in Nat

VARIABLES
    subtasks,    \* the draft
    deps,        \* pass 3's dependencies of each step
    flagged,     \* the prompt matches the policy's injection expression
    pc,          \* the phase of the pipeline
    unresolved, resolved,   \* the sets of the running loop
    pending,     \* what is left of list(unresolved) in pass 4's inner loop
    progress,    \* pass 4's flag
    optimized,   \* the order pass 4 builds
    layers       \* the planner's layers

draft == <<subtasks, deps, flagged>>
vars  == <<subtasks, deps, flagged, pc, unresolved, resolved, pending, progress,
           optimized, layers>>

Phase    == {"pass_4", "compiled", "layering", "planned", "cyclic", "rejected"}
Finished == {"planned", "cyclic", "rejected"}

-----------------------------------------------------------------------------
(* The plan, as a function of the draft.                                   *)

\* The keys of deps and task_map.
Ids == DOMAIN deps

\* Of two subtasks with one id the last counts.
Task(s) ==
    subtasks[CHOOSE i \in DOMAIN subtasks :
                /\ subtasks[i].step_id = s
                /\ \A j \in DOMAIN subtasks : subtasks[j].step_id = s => j <= i]

Pass3 ==
    [s \in {subtasks[i].step_id : i \in DOMAIN subtasks} |-> Task(s).dependencies]

\* Pass 5: the cost ceiling of the profile a step gets.
CostCeiling(s) ==
    CASE Task(s).profile = "heavy" -> 50
      [] Task(s).profile = "retrieval" -> 1
      [] OTHER -> 10

\* Pass 6: only the global risk is ever compared with anything.
GlobalRisk == 10 * Cardinality({s \in Ids : Task(s).risky})

\* The estimate of validate_plan; no compiled node has an adversarial profile.
TotalCost == MapThenSumSet(CostCeiling, Ids)

Valid == ~flagged /\ GlobalRisk <= RiskThreshold /\ TotalCost <= BudgetLimit

\* Nothing but the phase changes.
GoTo(phase) ==
    /\ pc' = phase
    /\ UNCHANGED <<draft, unresolved, resolved, pending, progress, optimized, layers>>

-----------------------------------------------------------------------------
(* Pass 4.                                                                 *)

\* A request is compiled; a plan put together by hand, as the planner's other
\* callers do, goes to the planner directly.
Init ==
    /\ subtasks \in Drafts
    /\ deps = Pass3
    /\ flagged \in BOOLEAN
    /\ pc \in {"pass_4", "layering"}
    /\ unresolved = Ids
    /\ resolved = {}
    /\ pending = {}
    /\ progress = TRUE
    /\ optimized = <<>>
    /\ layers = <<>>

\* The test with one dependency enough.
AnyResolved(s) == deps[s] = {} \/ deps[s] \cap resolved # {}

AllResolved(s) == deps[s] \subseteq resolved

\* A sweep that forgets to clear the flag.
SweepKeepingProgress ==
    /\ pc = "pass_4"
    /\ pending = {} /\ unresolved # {} /\ progress
    /\ pending' = unresolved
    /\ UNCHANGED <<draft, pc, unresolved, resolved, progress,
                   optimized, layers>>

\* One turn of `while unresolved`: a fresh list, no progress yet.
Sweep ==
    /\ pc = "pass_4"
    /\ pending = {} /\ unresolved # {} /\ progress
    /\ pending' = unresolved
    /\ progress' = FALSE
    /\ UNCHANGED <<draft, pc, unresolved, resolved, optimized, layers>>

\* A turn that resolves the step before it tests its dependencies.
ConsiderResolvedFirst(s) ==
    /\ pc = "pass_4"
    /\ s \in pending
    /\ pending' = pending \ {s}
    /\ IF deps[s] \subseteq resolved \cup {s}
       THEN /\ optimized' = Append(optimized, s)
            /\ resolved' = resolved \cup {s}
            /\ unresolved' = unresolved \ {s}
            /\ progress' = TRUE
       ELSE UNCHANGED <<optimized, resolved, unresolved, progress>>
    /\ UNCHANGED <<draft, pc, layers>>

\* One turn of the inner loop.
Consider(s) ==
    /\ pc = "pass_4"
    /\ s \in pending
    /\ pending' = pending \ {s}
    /\ IF AllResolved(s)
       THEN /\ optimized' = Append(optimized, s)
            /\ resolved' = resolved \cup {s}
            /\ unresolved' = unresolved \ {s}
            /\ progress' = TRUE
       ELSE UNCHANGED <<optimized, resolved, unresolved, progress>>
    /\ UNCHANGED <<draft, pc, layers>>

\* A loop that gives up after a sweep, progress or not.
LoopInPass4Early ==
    /\ pc = "pass_4"
    /\ pending = {} /\ unresolved # {} /\ resolved # {}
    /\ GoTo("cyclic")

\* A sweep without progress: compile raises.
LoopInPass4 ==
    /\ pc = "pass_4"
    /\ pending = {} /\ unresolved # {} /\ ~progress
    /\ GoTo("cyclic")

EndPass4 ==
    /\ pc = "pass_4"
    /\ pending = {} /\ unresolved = {}
    /\ GoTo("compiled")

-----------------------------------------------------------------------------
(* The rest of the passes, and the planner.                                *)

\* Pass 10 validates the plan it assembled and raises if it is not valid; the
\* gateway's own sweep, over the same plan and prompt, decides the same.
Reject ==
    /\ pc = "compiled"
    /\ ~Valid
    /\ GoTo("rejected")

\* plan_execution_layers starts over from the nodes of the plan.
Accept ==
    /\ pc = "compiled"
    /\ Valid
    /\ pc' = "layering"
    /\ resolved' = {}
    /\ unresolved' = {optimized[i] : i \in DOMAIN optimized}
    /\ UNCHANGED <<draft, pending, progress, optimized, layers>>

CurrentLayer == {s \in unresolved : AllResolved(s)}

\* A loop that resolves a node as soon as it is put in the layer: its dependents
\* join the same layer.
AddLayerEager ==
    /\ pc = "layering"
    /\ CurrentLayer # {}
    /\ LET eager == {s \in unresolved : deps[s] \subseteq resolved \cup CurrentLayer}
       IN  /\ layers' = Append(layers, eager)
           /\ resolved' = resolved \cup eager
           /\ unresolved' = unresolved \ eager
    /\ UNCHANGED <<draft, pc, pending, progress, optimized>>

\* A loop that puts one node in each layer.
AddLayerOfOne ==
    /\ pc = "layering"
    /\ \E s \in CurrentLayer :
          /\ layers' = Append(layers, {s})
          /\ resolved' = resolved \cup {s}
          /\ unresolved' = unresolved \ {s}
    /\ UNCHANGED <<draft, pc, pending, progress, optimized>>

AddLayer ==
    /\ pc = "layering"
    /\ CurrentLayer # {}
    /\ layers' = Append(layers, CurrentLayer)
    /\ resolved' = resolved \cup CurrentLayer
    /\ unresolved' = unresolved \ CurrentLayer
    /\ UNCHANGED <<draft, pc, pending, progress, optimized>>

LoopInLayers ==
    /\ pc = "layering"
    /\ unresolved # {} /\ CurrentLayer = {}
    /\ GoTo("cyclic")

EndLayers ==
    /\ pc = "layering"
    /\ unresolved = {}
    /\ GoTo("planned")

-----------------------------------------------------------------------------

\* The caller has its plan or its error.
Done ==
    /\ pc \in Finished
    /\ UNCHANGED vars

Pass4 == Sweep \/ (\E s \in Step : Consider(s)) \/ LoopInPass4 \/ EndPass4

Layering == AddLayer \/ LoopInLayers \/ EndLayers

Next == Pass4 \/ Accept \/ Reject \/ Layering \/ Done

Spec == Init /\ [][Next]_vars

\* Straight-line code between the two model calls: it runs on.
FairSpec == Spec /\ WF_vars(Next)

-----------------------------------------------------------------------------
(* Properties.                                                             *)

DraftOK ==
    /\ subtasks \in Drafts
    /\ deps = Pass3
    /\ flagged \in BOOLEAN

\* Every variable stays in its range, and a loop's sets split the ids.
TypeOK ==
    /\ DraftOK
    /\ pc \in Phase
    /\ resolved \subseteq Ids
    /\ unresolved = Ids \ resolved
    /\ pending \subseteq unresolved
    /\ progress \in BOOLEAN
    /\ optimized \in Seq(Ids)
    /\ layers \in Seq(SUBSET Ids)

\* Pass 4 sorts topologically, in whatever order the set is walked: no step is
\* listed twice, and all that a step depends on is listed before it.
TopologicalOrder ==
    \A i \in DOMAIN optimized :
        /\ \A d \in deps[optimized[i]] : \E j \in 1 .. i - 1 : optimized[j] = d
        /\ \A j \in 1 .. i - 1 : optimized[j] # optimized[i]

\* What the scheduler relies on: no node is in two layers, and each dependency
\* of a node is in an earlier layer, never in its own.
LayersRespectDependencies ==
    \A k \in DOMAIN layers : \A s \in layers[k] :
        /\ \A j \in 1 .. k - 1 : s \notin layers[j]
        /\ \A d \in deps[s] : \E j \in 1 .. k - 1 : d \in layers[j]

\* Nothing waits for a layer it does not need: a node outside the first layer
\* depends on a node of the layer just before its own.
LayersAreTight ==
    \A k \in DOMAIN layers : \A s \in layers[k] :
        k > 1 => \E d \in deps[s] : d \in layers[k - 1]

\* Steps none of which can ever be the first to run: each waits for another of
\* them or for a step that does not exist.
Stuck(S) ==
    /\ S # {}
    /\ \A s \in S : \E d \in deps[s] : d \in S \/ d \notin Ids

\* The two loops decide right: they give up only on a draft with stuck steps,
\* and such a draft never becomes a plan, whatever order the sets are walked in.
LoopsDecideRight ==
    /\ pc = "cyclic" => \E S \in SUBSET Ids : Stuck(S)
    /\ pc \in {"compiled", "rejected", "planned"} =>
          \A S \in SUBSET Ids : ~Stuck(S)

\* The gateway calls the planner after it has provisioned the workspace, with
\* no way back: a plan that compiled always has its layers, all of its nodes.
CompiledPlansHaveLayers ==
    optimized # <<>> =>
        /\ pc = "layering" => unresolved = {} \/ CurrentLayer # {}
        /\ pc = "planned" => UNION {layers[k] : k \in DOMAIN layers} = Ids

\* Each draft is decided: neither loop runs forever.
EveryDraftIsDecided == <>(pc \in Finished)

=============================================================================
