----------------------------- MODULE Scheduler -----------------------------
(***************************************************************************)
(* RuntimeScheduler (runtime/scheduler.py): one scheduler, shared by every *)
(* request, runs compiled plans layer by layer under one semaphore.        *)
(*                                                                         *)
(* A plan is one call of schedule_workflow; its nodes are asyncio tasks.   *)
(* A step of the model runs a coroutine from one suspension point to the   *)
(* next: waiting for the semaphore, inside the runtime, inside the         *)
(* clean-up of the finally block, in gather. The publication awaited       *)
(* before EXECUTING is one too: whether it suspends is the bus's business  *)
(* (put on today's unbounded queue does not), so nothing may rest on it.   *)
(***************************************************************************)
EXTENDS Naturals, FiniteSets, Lifecycle

CONSTANTS
    Plan,       \* calls of schedule_workflow
    Node,       \* the nodes of all plans
    PlanOf,     \* the plan of a node
    LayerOf,    \* its position in execution_layers, from 1
    DepsOf,     \* node.dependencies
    RuntimeOf,  \* tcb.assigned_runtime
    DepthOf,    \* len(execution_layers) of a plan
    Id,         \* workflow ids
    IdOf,       \* plan.workflow_id: the workspace and the key the router purges
    Dir,        \* directories of the base workspace
    _get_path,  \* the directory of a workflow id: ids that differ only in
                \* characters the factory drops share one
    TcbIdOf,    \* tcb.workflow_id of the plan's nodes: the key they record under
    Permits     \* config.MAX_CONCURRENT_RUNTIMES

\* The planner's layers: each dependency is a node of an earlier layer.
ASSUME SchedulerAssumption ==
    /\ IsFiniteSet(Node)
    /\ Permits \in Nat \ {0}
    /\ PlanOf \in [Node -> Plan]
    /\ LayerOf \in [Node -> Nat \ {0}]
    /\ DepsOf \in [Node -> SUBSET Node]
    /\ DepthOf \in [Plan -> Nat]
    /\ IdOf \in [Plan -> Id]
    /\ _get_path \in [Id -> Dir]
    /\ TcbIdOf \in [Plan -> Id]
    /\ \A n \in Node : LayerOf[n] <= DepthOf[PlanOf[n]]
    /\ \A n \in Node : \A d \in DepsOf[n] :
          PlanOf[d] = PlanOf[n] /\ LayerOf[d] < LayerOf[n]

VARIABLES
    phase,     \* phase[p]: where schedule_workflow(p) is
    layer,     \* layer[p]: the layer it gathers, 0 before the first
    task,      \* task[n]: where the node's coroutine is
    pcb,       \* pcb[n]: its process control block
    result,    \* result[n]: the winner stored in completed_results
    permits,   \* the semaphore's value
    scratch,   \* scratch[x]: nodes whose files are in the temp and cache
               \*             directories below x
    assigned   \* assigned[i]: nodes whose provider the router remembers for i

vars == <<phase, layer, task, pcb, result, permits, scratch, assigned>>

_RUNTIME_MAP == {"COMPETITIVE", "STANDARD", "MICRO", "DIRECT", "RETRIEVAL"}

\* Runtimes that ask the router for a provider (all but the cache lookup).
Routed == _RUNTIME_MAP \ {"RETRIEVAL"}

\* Winner names a runtime returns, as far as the scheduler tells them apart:
\* only the twin runtime rejects both of its candidates.
Verdict(n) == IF RuntimeOf[n] = "COMPETITIVE" THEN {"ok", "FAILED"} ELSE {"ok"}

Winner == {"none", "ok", "FAILED", "RUNTIME ERROR"}
Phase  == {"idle", "running", "returned", "raised"}

\* "returning" and "raising" are inside the finally block; the permit is held
\* from "queued" to the end of it.
TaskState == {"absent", "waiting", "queued", "executing",
              "returning", "raising", "returned", "raised"}
Holding   == {"queued", "executing", "returning", "raising"}
Closing   == {"returning", "raising"}
Ended     == {"returned", "raised"}

Workflow(n)  == IdOf[PlanOf[n]]
TcbId(n)     == TcbIdOf[PlanOf[n]]
Workspace(n) == _get_path[Workflow(n)]

Members(p, k) == {n \in Node : PlanOf[n] = p /\ LayerOf[n] = k}

LayerEnded(p) == \A n \in Members(p, layer[p]) : task[n] \in Ended

-----------------------------------------------------------------------------
(* The collaborators' operations, as functions of their state.             *)

\* A recycle that empties the whole base workspace.
recycle_everything(s, i) == [x \in Dir |-> {}]

\* EnvironmentFactory.provision_container and recycle_container.
provision_container(s, i, n) == [s EXCEPT ![_get_path[i]] = @ \cup {n}]
recycle_container(s, i)      == [s EXCEPT ![_get_path[i]] = {}]

\* ModelRouter.resolve_capability's record and purge_workflow.
record_assignment(a, i, n) == [a EXCEPT ![i] = @ \cup {n}]
purge_workflow(a, i)       == [a EXCEPT ![i] = {}]

-----------------------------------------------------------------------------
(* schedule_workflow.                                                      *)

Init ==
    /\ phase    = [p \in Plan |-> "idle"]
    /\ layer    = [p \in Plan |-> 0]
    /\ task     = [n \in Node |-> "absent"]
    /\ pcb      = [n \in Node |-> NewPCB]
    /\ result   = [n \in Node |-> "none"]
    /\ permits  = Permits
    /\ scratch  = [x \in Dir |-> {}]
    /\ assigned = [i \in Id |-> {}]

Schedule(p) ==
    /\ phase[p] = "idle"
    /\ phase' = [phase EXCEPT ![p] = "running"]
    /\ UNCHANGED <<layer, task, pcb, result, permits, scratch, assigned>>

\* A loop that spawns the next layer without looking at exceptions.
StartLayerAfterFailure(p) ==
    /\ phase[p] = "running"
    /\ LayerEnded(p)
    /\ layer[p] < DepthOf[p]
    /\ layer' = [layer EXCEPT ![p] = @ + 1]
    /\ task' = [n \in Node |->
                  IF n \in Members(p, layer[p] + 1) THEN "waiting" ELSE task[n]]
    /\ UNCHANGED <<phase, pcb, result, permits, scratch, assigned>>

\* The gathered layer has no exception: one task per node of the next one.
StartLayer(p) ==
    /\ phase[p] = "running"
    /\ \A n \in Members(p, layer[p]) : task[n] = "returned"
    /\ layer[p] < DepthOf[p]
    /\ layer' = [layer EXCEPT ![p] = @ + 1]
    /\ task' = [n \in Node |->
                  IF n \in Members(p, layer[p] + 1) THEN "waiting" ELSE task[n]]
    /\ UNCHANGED <<phase, pcb, result, permits, scratch, assigned>>

\* gather without return_exceptions: it raises while siblings still run.
AbortEarly(p) ==
    /\ phase[p] = "running"
    /\ \E n \in Members(p, layer[p]) : task[n] = "raised"
    /\ phase' = [phase EXCEPT ![p] = "raised"]
    /\ UNCHANGED <<layer, task, pcb, result, permits, scratch, assigned>>

\* gather(..., return_exceptions=True) waits for the whole layer; then the
\* first exception found in it is raised again.
Abort(p) ==
    /\ phase[p] = "running"
    /\ LayerEnded(p)
    /\ \E n \in Members(p, layer[p]) : task[n] = "raised"
    /\ phase' = [phase EXCEPT ![p] = "raised"]
    /\ UNCHANGED <<layer, task, pcb, result, permits, scratch, assigned>>

Return(p) ==
    /\ phase[p] = "running"
    /\ \A n \in Members(p, layer[p]) : task[n] = "returned"
    /\ layer[p] = DepthOf[p]
    /\ phase' = [phase EXCEPT ![p] = "returned"]
    /\ UNCHANGED <<layer, task, pcb, result, permits, scratch, assigned>>

-----------------------------------------------------------------------------
(* _execute_node_with_semaphore, up to the runtime.                        *)

\* A gate that only asks whether the dependency left a result.
ResultPresent(n) == \A d \in DepsOf[n] : result[d] # "none"

\* The dependency check: a missing result or the winner "FAILED" closes it.
DependenciesMet(n) == \A d \in DepsOf[n] : result[d] \notin {"none", "FAILED"}

\* `async with` takes a permit; the node goes on to the publication before
\* EXECUTING.
Admit(n) ==
    /\ task[n] = "waiting"
    /\ permits > 0
    /\ DependenciesMet(n)
    /\ RuntimeOf[n] \in _RUNTIME_MAP
    /\ permits' = permits - 1
    /\ task' = [task EXCEPT ![n] = "queued"]
    /\ pcb' = [pcb EXCEPT ![n] = transition(@, "QUEUED", "NONE")]
    /\ UNCHANGED <<phase, layer, result, scratch, assigned>>

\* A rejected node whose permit is never given back.
RejectLeaking(n) ==
    /\ task[n] = "waiting"
    /\ permits > 0
    /\ ~DependenciesMet(n) \/ RuntimeOf[n] \notin _RUNTIME_MAP
    /\ permits' = permits - 1
    /\ pcb' = [pcb EXCEPT ![n] =
                 transition(transition(@, "QUEUED", "NONE"), "TERMINATED", "FAILED")]
    /\ task' = [task EXCEPT ![n] = "raised"]
    /\ UNCHANGED <<phase, layer, result, scratch, assigned>>

\* A failed dependency or an unknown runtime raises before the try block: the
\* permit is taken and given back, and nothing is cleaned up.
Reject(n) ==
    /\ task[n] = "waiting"
    /\ permits > 0
    /\ ~DependenciesMet(n) \/ RuntimeOf[n] \notin _RUNTIME_MAP
    /\ pcb' = [pcb EXCEPT ![n] =
                 transition(transition(@, "QUEUED", "NONE"), "TERMINATED", "FAILED")]
    /\ task' = [task EXCEPT ![n] = "raised"]
    /\ UNCHANGED <<phase, layer, result, permits, scratch, assigned>>

\* EXECUTING, the workspace, validate and initialize (neither suspends, and
\* validate compares the type the runtime was chosen by), and the start of
\* execute, which asks the router for a provider. The twin runtime's judge
\* asks again later under the same key: the node is on record already.
Dispatch(n) ==
    /\ task[n] = "queued"
    /\ task' = [task EXCEPT ![n] = "executing"]
    /\ pcb' = [pcb EXCEPT ![n] = transition(@, "EXECUTING", "NONE")]
    /\ scratch' = provision_container(scratch, Workflow(n), n)
    /\ assigned' = IF RuntimeOf[n] \in Routed
                   THEN record_assignment(assigned, TcbId(n), n)
                   ELSE assigned
    /\ UNCHANGED <<phase, layer, result, permits>>

\* A failed provisioning that keeps its permit.
FailProvisionLeaking(n) ==
    /\ task[n] = "queued"
    /\ task' = [task EXCEPT ![n] = "raised"]
    /\ pcb' = [pcb EXCEPT ![n] = transition(@, "EXECUTING", "NONE")]
    /\ UNCHANGED <<phase, layer, result, permits, scratch, assigned>>

\* The directories cannot be made (a full disk): provision_container stands
\* before the try block, so the error leaves the node with its block EXECUTING,
\* and `async with` gives the permit back.
FailProvision(n) ==
    /\ task[n] = "queued"
    /\ task' = [task EXCEPT ![n] = "raised"]
    /\ pcb' = [pcb EXCEPT ![n] = transition(@, "EXECUTING", "NONE")]
    /\ permits' = permits + 1
    /\ UNCHANGED <<phase, layer, result, scratch, assigned>>

-----------------------------------------------------------------------------
(* The ways out of the runtime. Each enters the finally block.             *)

\* The coroutine leaves the runtime with process `reason` and then returns or
\* raises.
Leave(n, reason, exit) ==
    /\ task[n] = "executing"
    /\ task' = [task EXCEPT ![n] = exit]
    /\ pcb' = [pcb EXCEPT ![n] = transition(@, "TERMINATED", reason)]
    /\ UNCHANGED <<phase, layer, permits, scratch, assigned>>

Finish(n) ==
    /\ Leave(n, "COMPLETED", "returning")
    /\ \E v \in Verdict(n) : result' = [result EXCEPT ![n] = v]

\* A timeout handler that leaves a result behind for a node it killed.
TimeOutStoring(n) ==
    /\ Leave(n, "KILLED", "raising")
    /\ result' = [result EXCEPT ![n] = "FAILED"]

\* wait_for gives up after tcb.timeout_ms; terminate, then raise.
TimeOut(n) ==
    /\ Leave(n, "KILLED", "raising")
    /\ UNCHANGED result

\* A RuntimeError is turned into a fallback result and swallowed.
Fault(n) ==
    /\ Leave(n, "FAILED", "returning")
    /\ result' = [result EXCEPT ![n] = "RUNTIME ERROR"]

\* Any other exception is raised again.
Crash(n) ==
    /\ Leave(n, "FAILED", "raising")
    /\ UNCHANGED result

\* CancelledError is no Exception: no handler runs, the block stays EXECUTING.
Cancel(n) ==
    /\ task[n] = "executing"
    /\ task' = [task EXCEPT ![n] = "raising"]
    /\ UNCHANGED <<phase, layer, pcb, result, permits, scratch, assigned>>

Settle(n) == Finish(n) \/ TimeOut(n) \/ Fault(n) \/ Crash(n) \/ Cancel(n)

\* The clean-up a node does only when it returns.
CloseOnSuccess(n) ==
    /\ task[n] \in Closing
    /\ task' = [task EXCEPT ![n] = IF @ = "returning" THEN "returned" ELSE "raised"]
    /\ scratch' = IF task[n] = "returning"
                  THEN recycle_container(scratch, Workflow(n)) ELSE scratch
    /\ assigned' = purge_workflow(assigned, Workflow(n))
    /\ permits' = permits + 1
    /\ UNCHANGED <<phase, layer, pcb, result>>

\* The rest of the finally block, and the end of `async with`.
Close(n) ==
    /\ task[n] \in Closing
    /\ task' = [task EXCEPT ![n] = IF @ = "returning" THEN "returned" ELSE "raised"]
    /\ scratch' = recycle_container(scratch, Workflow(n))
    /\ assigned' = purge_workflow(assigned, Workflow(n))
    /\ permits' = permits + 1
    /\ UNCHANGED <<phase, layer, pcb, result>>

-----------------------------------------------------------------------------

\* Every call has come back: the process idles, waiting for requests.
Quiet ==
    /\ \A p \in Plan : phase[p] \in Ended
    /\ UNCHANGED vars

\* What the scheduler does by itself once a request has come.
Progress ==
    \/ \E p \in Plan : StartLayer(p) \/ Abort(p) \/ Return(p)
    \/ \E n \in Node : Admit(n) \/ Reject(n) \/ Dispatch(n)
                      \/ FailProvision(n) \/ Settle(n) \/ Close(n)

Next ==
    \/ \E p \in Plan : Schedule(p)
    \/ Progress
    \/ Quiet

Spec == Init /\ [][Next]_vars

\* The event loop does not idle while some coroutine can go on: a free permit
\* wakes a waiter and wait_for bounds the time a runtime executes. That is
\* enough, every coroutine being finite; requests need not come at all.
Fairness == WF_vars(Progress)

FairSpec == Spec /\ Fairness

-----------------------------------------------------------------------------
(* Properties.                                                             *)

\* Every variable stays in its range.
TypeOK ==
    /\ phase \in [Plan -> Phase]
    /\ layer \in [Plan -> Nat]
    /\ task \in [Node -> TaskState]
    /\ pcb \in [Node -> ProcessControlBlock]
    /\ result \in [Node -> Winner]
    /\ permits \in 0 .. Permits
    /\ scratch \in [Dir -> SUBSET Node]
    /\ assigned \in [Id -> SUBSET Node]

Holders == {n \in Node : task[n] \in Holding}

\* Permits are neither leaked nor minted: on every way out of a node, the
\* early raises included, the semaphore's value and the nodes inside the
\* `async with` add up to MAX_CONCURRENT_RUNTIMES.
PermitConservation == permits + Cardinality(Holders) = Permits

\* A node starts only after every node of the earlier layers has ended without
\* raising, whatever the interleaving of the layer's tasks.
LayerBarrier ==
    \A n \in Node :
        task[n] # "absent" =>
            \A m \in Node :
                PlanOf[m] = PlanOf[n] /\ LayerOf[m] < LayerOf[n]
                    => task[m] = "returned"

\* When schedule_workflow comes back, nothing it started is left running: a
\* normal return has every node's result, an abort has no task in flight.
NothingLeftBehind ==
    \A p \in Plan : \A n \in Node :
        PlanOf[n] = p =>
            /\ phase[p] = "returned" => task[n] = "returned" /\ result[n] # "none"
            /\ phase[p] = "raised" => task[n] \in {"absent", "returned", "raised"}

\* The stored result tells how the node ended: a node that returned left one, a
\* node that raised left none (so dependents and the caller never see a result
\* of a killed or crashed node), and its process block agrees.
ResultTellsOutcome ==
    \A n \in Node :
        /\ task[n] \in {"returning", "returned"} <=> result[n] # "none"
        /\ result[n] \in {"ok", "FAILED"} <=> pcb[n].reason = "COMPLETED"
        /\ result[n] = "RUNTIME ERROR" => pcb[n].reason = "FAILED"
        /\ pcb[n].reason = "KILLED" => task[n] \in {"raising", "raised"}

\* No node runs on a dependency whose runtime rejected its own output: the gate
\* was right when it was read and stays right while the node runs.
NeverOnRejectedInput ==
    \A n \in Node :
        task[n] \in Holding \cup {"returned"} =>
            \A d \in DepsOf[n] : result[d] \notin {"none", "FAILED"}

\* Scratch files do not outlive the nodes at work in their directory: when no
\* node whose workflow id leads there is between provisioning and the end of its
\* clean-up, nothing lies in it, however its nodes ended.
NoResidue ==
    \A x \in Dir :
        (\A n \in Node : Workspace(n) = x =>
              task[n] \notin {"executing", "returning", "raising"})
            => scratch[x] = {}

\* A node alone at work in its directory keeps its files: what an executing node
\* has there is taken away only by the clean-up of another node of the same
\* directory, a sibling, a request of the same conversation or a workflow whose
\* id _get_path does not tell from this one.
FilesTakenByNeighbours ==
    [][ \A n \in Node :
          /\ task[n] = "executing" /\ task'[n] = "executing"
          /\ n \in scratch[Workspace(n)]
          /\ n \notin scratch'[Workspace(n)]
          => \E m \in Node \ {n} :
                /\ Workspace(m) = Workspace(n)
                /\ task[m] \in Closing
                /\ task'[m] \in Ended ]_vars

\* Every accepted plan comes back, however its nodes fail and however many
\* plans compete for the permits.
EveryPlanComesBack ==
    (\E p \in Plan : phase[p] = "running") ~> (\A p \in Plan : phase[p] # "running")

\* How far a node has got, as LayeredExecution tells it.
Status ==
    [n \in Node |->
        CASE task[n] \in {"absent", "waiting"} -> "pending"
          [] task[n] \in Holding -> "active"
          [] OTHER -> task[n]]

Promise == INSTANCE LayeredExecution WITH status <- Status

\* The scheduler implements the layered execution it promises: at most Permits
\* nodes at a time over all plans, layer after layer, each node at most once,
\* and a plan comes back only when nothing of it moves any more.
ImplementsLayeredExecution == Promise!Spec

\* The docstring of _execute_node_with_semaphore: RuntimeError "if a dependency
\* node has previously failed". A node whose process block ended FAILED is a
\* failed dependency, so no dependent of it may run.
FailedDependencyAborts ==
    \A n \in Node :
        task[n] \in Holding =>
            \A d \in DepsOf[n] : pcb[d].reason # "FAILED"

\* The docstring of purge_workflow: tracking records of a completed workflow
\* are purged. Once a plan is back, the router remembers none of its nodes.
AssignmentsPurged ==
    \A p \in Plan :
        phase[p] \in Ended =>
            \A i \in Id : \A n \in assigned[i] : PlanOf[n] # p

=============================================================================
