-------------------------- MODULE SchedulerProofs --------------------------
(***************************************************************************)
(* Theorems of Scheduler, for every set of plans and nodes and every       *)
(* number of permits. The argument is one inductive invariant, IInv: the   *)
(* properties of Scheduler plus two facts they rest on, Staging (how a     *)
(* plan's layer counter bounds its tasks) and Bookkeeping (what a task's   *)
(* place in the coroutine says of its process block and its result).       *)
(***************************************************************************)
EXTENDS Scheduler, FiniteSetTheorems, TLAPS

\* Layers are spawned in order: exactly the nodes up to the current layer have
\* a task, all nodes below it have returned, and a plan that has come back is
\* not in the middle of a layer.
Staging ==
    /\ \A p \in Plan :
          /\ layer[p] <= DepthOf[p]
          /\ phase[p] = "idle" => layer[p] = 0
          /\ phase[p] = "returned" => layer[p] = DepthOf[p]
    /\ \A n \in Node :
          /\ task[n] = "absent" <=> layer[PlanOf[n]] < LayerOf[n]
          /\ LayerOf[n] < layer[PlanOf[n]] => task[n] = "returned"
          /\ phase[PlanOf[n]] = "returned" => task[n] = "returned"
          /\ phase[PlanOf[n]] = "raised" => task[n] \in {"absent", "returned", "raised"}

\* What a task's place in its coroutine says of its process block and result.
Consistent(t, pc, r) ==
    /\ t \in {"absent", "waiting"} => pc = NewPCB
    /\ t = "queued" => pc = [state |-> "QUEUED", reason |-> "NONE"]
    /\ t = "executing" => pc = [state |-> "EXECUTING", reason |-> "NONE"]
    /\ t \in {"returning", "returned"} <=> r # "none"
    /\ r \in {"ok", "FAILED"} <=> pc.reason = "COMPLETED"
    /\ r = "RUNTIME ERROR" => pc.reason = "FAILED"
    /\ pc.reason = "KILLED" => t \in {"raising", "raised"}

Bookkeeping == \A n \in Node : Consistent(task[n], pcb[n], result[n])

IInv ==
    /\ TypeOK
    /\ PermitConservation
    /\ Staging
    /\ Bookkeeping
    /\ NeverOnRejectedInput
    /\ NoResidue


-----------------------------------------------------------------------------
(* Helpers.                                                                *)

\* What LifecycleManager.transition does on the moves the scheduler makes.
LEMMA TransitionFacts ==
    /\ transition(NewPCB, "QUEUED", "NONE") = [state |-> "QUEUED", reason |-> "NONE"]
    /\ transition([state |-> "QUEUED", reason |-> "NONE"], "EXECUTING", "NONE")
          = [state |-> "EXECUTING", reason |-> "NONE"]
    /\ \A r \in TerminationReason :
          /\ transition([state |-> "EXECUTING", reason |-> "NONE"], "TERMINATED", r)
                = [state |-> "TERMINATED", reason |-> r]
          /\ transition([state |-> "QUEUED", reason |-> "NONE"], "TERMINATED", r)
                = [state |-> "TERMINATED", reason |-> r]
  BY DEF transition, NewPCB, VALID_TRANSITIONS

\* The process block stays a process block, whatever move is attempted.
LEMMA TransitionType ==
    ASSUME NEW pc \in ProcessControlBlock, NEW s \in ProcessState,
           NEW r \in TerminationReason
    PROVE  transition(pc, s, r) \in ProcessControlBlock
  BY DEF transition, ProcessControlBlock, ProcessState, TerminationReason

\* A node belongs to a plan that has a workflow id and an id of its TCBs.
LEMMA NodeFacts ==
    ASSUME NEW n \in Node
    PROVE  /\ PlanOf[n] \in Plan
           /\ LayerOf[n] \in Nat \ {0}
           /\ DepthOf[PlanOf[n]] \in Nat
           /\ LayerOf[n] <= DepthOf[PlanOf[n]]
           /\ Workflow(n) \in Id
           /\ TcbId(n) \in Id
           /\ Workspace(n) \in Dir
  BY SchedulerAssumption DEF Workflow, TcbId, Workspace

\* The nodes inside the semaphore are finitely many.
LEMMA HoldersFinite == IsFiniteSet(Holders) /\ Cardinality(Holders) \in Nat
  BY SchedulerAssumption, FS_Subset, FS_CardinalityType DEF Holders

-----------------------------------------------------------------------------
(* Init.                                                                   *)

\* The invariant holds initially.
LEMMA InitIInv == Init => IInv
<1> SUFFICES ASSUME Init PROVE IInv
  OBVIOUS
<1> USE SchedulerAssumption DEF Init
<1>1. TypeOK
  BY DEF TypeOK, Phase, TaskState, ProcessControlBlock, NewPCB, ProcessState,
         TerminationReason, Winner
<1>2. PermitConservation
  <2>1. Holders = {}
    BY DEF Holders, Holding
  <2> QED
    BY <2>1, FS_EmptySet DEF PermitConservation
<1>3. Staging
  BY NodeFacts DEF Staging
<1>4. Bookkeeping
  BY DEF Bookkeeping, Consistent, NewPCB
<1>6. NeverOnRejectedInput
  BY DEF NeverOnRejectedInput, Holding
<1>7. NoResidue
  BY DEF NoResidue
<1> QED
  BY <1>1, <1>2, <1>3, <1>4, <1>6, <1>7 DEF IInv

-----------------------------------------------------------------------------
(* Types.                                                                  *)

\* A holder accounts for one permit that is out.
LEMMA PermitIsOut ==
    ASSUME TypeOK, PermitConservation, NEW n \in Holders
    PROVE  permits + 1 \in 0 .. Permits
<1>1. Cardinality(Holders) # 0
  BY HoldersFinite, FS_EmptySet
<1>2. permits \in Nat /\ Permits \in Nat
  BY SchedulerAssumption DEF TypeOK
<1>3. permits + Cardinality(Holders) = Permits
  BY DEF PermitConservation
<1> QED
  BY <1>1, <1>2, <1>3, HoldersFinite

\* Each step keeps the variables in range.
LEMMA TypeStep ==
    ASSUME IInv, [Next]_vars
    PROVE  TypeOK'
<1> USE SchedulerAssumption, NodeFacts, TransitionType DEF IInv, TypeOK
<1>1. ASSUME NEW p \in Plan, Schedule(p) PROVE TypeOK'
  BY <1>1 DEF Schedule, Phase
<1>2. ASSUME NEW p \in Plan, StartLayer(p) PROVE TypeOK'
  BY <1>2 DEF StartLayer, TaskState
<1>3. ASSUME NEW p \in Plan, Abort(p) PROVE TypeOK'
  BY <1>3 DEF Abort, Phase
<1>4. ASSUME NEW p \in Plan, Return(p) PROVE TypeOK'
  BY <1>4 DEF Return, Phase
<1>5. ASSUME NEW n \in Node, Admit(n) PROVE TypeOK'
  BY <1>5 DEF Admit, TaskState, ProcessState, TerminationReason
<1>6. ASSUME NEW n \in Node, Reject(n) PROVE TypeOK'
  <2>1. transition(transition(pcb[n], "QUEUED", "NONE"), "TERMINATED", "FAILED")
          \in ProcessControlBlock
    BY DEF ProcessState, TerminationReason
  <2> QED
    BY <1>6, <2>1 DEF Reject, TaskState
<1>7. ASSUME NEW n \in Node, Dispatch(n) PROVE TypeOK'
  BY <1>7 DEF Dispatch, TaskState, ProcessState, TerminationReason,
              provision_container, record_assignment, Workspace
<1>11. ASSUME NEW n \in Node, FailProvision(n) PROVE TypeOK'
  <2>1. n \in Holders
    BY <1>11 DEF FailProvision, Holders, Holding
  <2> QED
    BY <1>11, <2>1, PermitIsOut
       DEF FailProvision, TaskState, ProcessState, TerminationReason
<1>8. ASSUME NEW n \in Node, Settle(n) PROVE TypeOK'
  <2>1. CASE Finish(n)
    BY <2>1 DEF Finish, Leave, Verdict, Winner, TaskState, ProcessState, TerminationReason
  <2>2. CASE TimeOut(n)
    BY <2>2 DEF TimeOut, Leave, TaskState, ProcessState, TerminationReason
  <2>3. CASE Fault(n)
    BY <2>3 DEF Fault, Leave, Winner, TaskState, ProcessState, TerminationReason
  <2>4. CASE Crash(n)
    BY <2>4 DEF Crash, Leave, TaskState, ProcessState, TerminationReason
  <2>5. CASE Cancel(n)
    BY <2>5 DEF Cancel, TaskState
  <2> QED
    BY <1>8, <2>1, <2>2, <2>3, <2>4, <2>5 DEF Settle
<1>9. ASSUME NEW n \in Node, Close(n) PROVE TypeOK'
  <2>1. n \in Holders
    BY <1>9 DEF Close, Closing, Holders, Holding
  <2> QED
    BY <1>9, <2>1, PermitIsOut
       DEF Close, TaskState, recycle_container, purge_workflow, Workspace
<1>10. CASE UNCHANGED vars
  BY <1>10 DEF vars
<1> QED
  BY <1>1, <1>2, <1>3, <1>4, <1>5, <1>6, <1>7, <1>8, <1>9, <1>10, <1>11
     DEF Next, Progress, Quiet

-----------------------------------------------------------------------------
(* Permits.                                                                *)

\* Each step takes and gives back permits in step with the holders.
LEMMA PermitStep ==
    ASSUME IInv, [Next]_vars
    PROVE  PermitConservation'
<1> USE SchedulerAssumption DEF IInv, TypeOK
<1>1. ASSUME Holders' = Holders, permits' = permits PROVE PermitConservation'
  BY <1>1 DEF PermitConservation
<1>2. ASSUME NEW n \in Node, Admit(n) PROVE PermitConservation'
  <2>1. Holders' = Holders \cup {n} /\ n \notin Holders
    BY <1>2 DEF Admit, Holders, Holding
  <2>2. Cardinality(Holders') = Cardinality(Holders) + 1
    BY <2>1, HoldersFinite, FS_AddElement
  <2> QED
    BY <1>2, <2>2, HoldersFinite DEF Admit, PermitConservation
<1>3. ASSUME NEW n \in Node, Close(n) \/ FailProvision(n) PROVE PermitConservation'
  <2>1. Holders' = Holders \ {n} /\ n \in Holders
    BY <1>3 DEF Close, FailProvision, Closing, Holders, Holding
  <2>2. Cardinality(Holders') = Cardinality(Holders) - 1
    BY <2>1, HoldersFinite, FS_RemoveElement
  <2> QED
    BY <1>3, <2>2, HoldersFinite DEF Close, FailProvision, PermitConservation
<1>4. ASSUME NEW n \in Node, Reject(n) \/ Dispatch(n) \/ Settle(n)
      PROVE  PermitConservation'
  <2>1. Holders' = Holders
    BY <1>4 DEF Reject, Dispatch, Settle, Finish, TimeOut, Fault, Crash, Cancel, Leave,
                Holders, Holding
  <2>2. permits' = permits
    BY <1>4 DEF Reject, Dispatch, Settle, Finish, TimeOut, Fault, Crash, Cancel, Leave
  <2> QED
    BY <1>1, <2>1, <2>2
<1>5. ASSUME NEW p \in Plan, StartLayer(p) PROVE PermitConservation'
  <2>1. ASSUME NEW n \in Members(p, layer[p] + 1) PROVE task[n] = "absent"
    BY <2>1, NodeFacts DEF Members, Staging
  <2>2. Holders' = Holders
    BY <1>5, <2>1 DEF StartLayer, Holders, Holding, Members
  <2> QED
    BY <1>1, <1>5, <2>2 DEF StartLayer
<1>6. ASSUME NEW p \in Plan, Schedule(p) \/ Abort(p) \/ Return(p)
      PROVE  PermitConservation'
  BY <1>1, <1>6 DEF Schedule, Abort, Return, Holders
<1>7. CASE UNCHANGED vars
  BY <1>1, <1>7 DEF vars, Holders
<1> QED
  BY <1>2, <1>3, <1>4, <1>5, <1>6, <1>7 DEF Next, Progress, Quiet

-----------------------------------------------------------------------------
(* Layers.                                                                 *)

\* A node is below, in or above the layer its plan is gathering.
LEMMA ByLayer ==
    ASSUME TypeOK, Staging, NEW n \in Node
    PROVE  \/ LayerOf[n] < layer[PlanOf[n]] /\ task[n] = "returned"
           \/ LayerOf[n] = layer[PlanOf[n]] /\ n \in Members(PlanOf[n], layer[PlanOf[n]])
           \/ LayerOf[n] > layer[PlanOf[n]] /\ task[n] = "absent"
<1>1. LayerOf[n] \in Nat /\ layer[PlanOf[n]] \in Nat
  BY NodeFacts DEF TypeOK
<1>2. CASE LayerOf[n] < layer[PlanOf[n]]
  BY <1>2 DEF Staging
<1>3. CASE LayerOf[n] = layer[PlanOf[n]]
  BY <1>3 DEF Members
<1>4. CASE LayerOf[n] > layer[PlanOf[n]]
  BY <1>1, <1>4 DEF Staging
<1> QED
  BY <1>1, <1>2, <1>3, <1>4

\* The next layer's nodes have no task yet.
LEMMA NextLayerAbsent ==
    ASSUME TypeOK, Staging, NEW p \in Plan, NEW n \in Members(p, layer[p] + 1)
    PROVE  task[n] = "absent"
<1>1. n \in Node /\ PlanOf[n] = p /\ LayerOf[n] = layer[p] + 1 /\ layer[p] \in Nat
  BY DEF Members, TypeOK
<1> QED
  BY <1>1, ByLayer

\* Each step keeps the nodes at the stage their plan has reached.
LEMMA StagingStep ==
    ASSUME IInv, [Next]_vars
    PROVE  Staging'
<1> USE SchedulerAssumption DEF IInv, TypeOK
<1>1. ASSUME NEW p \in Plan, Schedule(p) PROVE Staging'
  BY <1>1, NodeFacts DEF Schedule, Staging
<1>2. ASSUME NEW p \in Plan, StartLayer(p) PROVE Staging'
  <2>1. /\ layer' = [layer EXCEPT ![p] = layer[p] + 1]
        /\ phase' = phase /\ phase[p] = "running"
    BY <1>2 DEF StartLayer
  <2>2. ASSUME NEW q \in Plan
        PROVE  /\ layer'[q] <= DepthOf[q]
               /\ phase'[q] = "idle" => layer'[q] = 0
               /\ phase'[q] = "returned" => layer'[q] = DepthOf[q]
    BY <1>2, <2>1 DEF StartLayer, Staging
  <2>3. ASSUME NEW n \in Node
        PROVE  /\ task'[n] = "absent" <=> layer'[PlanOf[n]] < LayerOf[n]
               /\ LayerOf[n] < layer'[PlanOf[n]] => task'[n] = "returned"
               /\ phase'[PlanOf[n]] = "returned" => task'[n] = "returned"
               /\ phase'[PlanOf[n]] = "raised"
                     => task'[n] \in {"absent", "returned", "raised"}
    <3>0. LayerOf[n] \in Nat /\ layer[p] \in Nat /\ PlanOf[n] \in Plan
      BY NodeFacts
    <3>1. CASE PlanOf[n] # p
      BY <1>2, <2>1, <3>0, <3>1 DEF StartLayer, Members, Staging
    <3>2. CASE PlanOf[n] = p /\ LayerOf[n] = layer[p] + 1
      BY <1>2, <2>1, <3>0, <3>2 DEF StartLayer, Members
    <3>3. CASE PlanOf[n] = p /\ LayerOf[n] > layer[p] + 1
      BY <1>2, <2>1, <3>0, <3>3 DEF StartLayer, Members, Staging
    <3>4. CASE PlanOf[n] = p /\ LayerOf[n] <= layer[p]
      <4>1. task[n] = "returned"
        BY <1>2, <3>0, <3>4, ByLayer DEF StartLayer
      <4> QED
        BY <1>2, <2>1, <3>0, <3>4, <4>1 DEF StartLayer, Members
    <3> QED
      BY <3>0, <3>1, <3>2, <3>3, <3>4
  <2> QED
    BY <2>2, <2>3 DEF Staging
<1>3. ASSUME NEW p \in Plan, Abort(p) PROVE Staging'
  <2>1. ASSUME NEW n \in Node, PlanOf[n] = p
        PROVE  task[n] \in {"absent", "returned", "raised"}
    BY <1>3, <2>1, ByLayer DEF Abort, LayerEnded, Ended
  <2> QED
    BY <1>3, <2>1, NodeFacts DEF Abort, Staging
<1>4. ASSUME NEW p \in Plan, Return(p) PROVE Staging'
  <2>1. ASSUME NEW n \in Node, PlanOf[n] = p
        PROVE  task[n] = "returned"
    <3>1. LayerOf[n] <= layer[p] /\ LayerOf[n] \in Nat /\ layer[p] \in Nat
      BY <1>4, <2>1, NodeFacts DEF Return
    <3> QED
      BY <1>4, <2>1, <3>1, ByLayer DEF Return
  <2> QED
    BY <1>4, <2>1, NodeFacts DEF Return, Staging
<1>5. ASSUME NEW n \in Node,
             Admit(n) \/ Reject(n) \/ Dispatch(n) \/ FailProvision(n) \/ Settle(n)
             \/ Close(n)
      PROVE  Staging'
  <2>1. /\ phase' = phase /\ layer' = layer
        /\ task[n] \in {"waiting"} \cup Holding
        /\ \E s \in TaskState \ {"absent"} : task' = [task EXCEPT ![n] = s]
    BY <1>5 DEF Admit, Reject, Dispatch, FailProvision, Settle, Finish, TimeOut, Fault,
                Crash, Cancel, Leave, Close, Closing, Holding, TaskState
  <2>2. /\ phase[PlanOf[n]] \notin {"returned", "raised"}
        /\ ~(LayerOf[n] < layer[PlanOf[n]])
        /\ ~(layer[PlanOf[n]] < LayerOf[n])
    BY <2>1 DEF Staging, Holding
  <2> QED
    BY <2>1, <2>2 DEF Staging
<1>6. CASE UNCHANGED vars
  BY <1>6 DEF vars, Staging
<1> QED
  BY <1>1, <1>2, <1>3, <1>4, <1>5, <1>6 DEF Next, Progress, Quiet

-----------------------------------------------------------------------------
(* Process blocks and results.                                             *)

\* A step of one node that leaves that node consistent.
LEMMA OneNodeMoves ==
    ASSUME TypeOK, Bookkeeping, NEW n \in Node,
           NEW t, NEW pc, NEW r,
           task' = [task EXCEPT ![n] = t],
           pcb' = [pcb EXCEPT ![n] = pc],
           result' = [result EXCEPT ![n] = r],
           Consistent(t, pc, r)
    PROVE  Bookkeeping'
<1>1. ASSUME NEW m \in Node PROVE Consistent(task'[m], pcb'[m], result'[m])
  <2>1. CASE m = n
    <3>1. task'[m] = t /\ pcb'[m] = pc /\ result'[m] = r
      BY <2>1 DEF TypeOK
    <3> QED
      BY <3>1
  <2>2. CASE m # n
    <3>1. task'[m] = task[m] /\ pcb'[m] = pcb[m] /\ result'[m] = result[m]
      BY <2>2 DEF TypeOK
    <3> QED
      BY <3>1 DEF Bookkeeping
  <2> QED
    BY <2>1, <2>2
<1> QED
  BY <1>1 DEF Bookkeeping

\* Each step keeps a node's result and process block what its stage says.
LEMMA BookkeepingStep ==
    ASSUME IInv, [Next]_vars
    PROVE  Bookkeeping'
<1> USE DEF IInv
<1>0. ASSUME NEW n \in Node
      PROVE  /\ Consistent(task[n], pcb[n], result[n])
             /\ pcb = [pcb EXCEPT ![n] = pcb[n]]
             /\ result = [result EXCEPT ![n] = result[n]]
  BY DEF Bookkeeping, TypeOK
<1>1. ASSUME NEW p \in Plan, Schedule(p) \/ Abort(p) \/ Return(p)
      PROVE  Bookkeeping'
  BY <1>1 DEF Schedule, Abort, Return, Bookkeeping
<1>2. ASSUME NEW p \in Plan, StartLayer(p)
      PROVE  Bookkeeping'
  <2>1. ASSUME NEW n \in Node PROVE Consistent(task'[n], pcb'[n], result'[n])
    <3>1. pcb'[n] = pcb[n] /\ result'[n] = result[n]
      BY <1>2 DEF StartLayer
    <3>2. CASE n \in Members(p, layer[p] + 1)
      <4>1. task[n] = "absent" /\ task'[n] = "waiting"
        BY <1>2, <3>2, NextLayerAbsent DEF StartLayer, TypeOK
      <4> QED
        BY <1>0, <3>1, <4>1 DEF Consistent
    <3>3. CASE n \notin Members(p, layer[p] + 1)
      <4>1. task'[n] = task[n]
        BY <1>2, <3>3 DEF StartLayer, TypeOK
      <4> QED
        BY <1>0, <3>1, <4>1
    <3> QED
      BY <3>2, <3>3
  <2> QED
    BY <2>1 DEF Bookkeeping
<1>3. ASSUME NEW n \in Node, Admit(n) PROVE Bookkeeping'
  <2>1. pcb[n] = NewPCB /\ result[n] = "none"
    BY <1>0, <1>3 DEF Admit, Consistent, NewPCB
  <2>2. Consistent("queued", [state |-> "QUEUED", reason |-> "NONE"], "none")
    BY DEF Consistent
  <2>3. /\ task' = [task EXCEPT ![n] = "queued"]
        /\ pcb' = [pcb EXCEPT ![n] = [state |-> "QUEUED", reason |-> "NONE"]]
        /\ result' = [result EXCEPT ![n] = "none"]
    BY <1>0, <1>3, <2>1, TransitionFacts DEF Admit
  <2> QED
    BY <2>2, <2>3, OneNodeMoves
<1>4. ASSUME NEW n \in Node, Reject(n) PROVE Bookkeeping'
  <2>1. pcb[n] = NewPCB /\ result[n] = "none"
    BY <1>0, <1>4 DEF Reject, Consistent, NewPCB
  <2>2. Consistent("raised", [state |-> "TERMINATED", reason |-> "FAILED"], "none")
    BY DEF Consistent
  <2>3. /\ task' = [task EXCEPT ![n] = "raised"]
        /\ pcb' = [pcb EXCEPT ![n] = [state |-> "TERMINATED", reason |-> "FAILED"]]
        /\ result' = [result EXCEPT ![n] = "none"]
    BY <1>0, <1>4, <2>1, TransitionFacts DEF Reject, TerminationReason
  <2> QED
    BY <2>2, <2>3, OneNodeMoves
<1>5. ASSUME NEW n \in Node, Dispatch(n) PROVE Bookkeeping'
  <2>1. pcb[n] = [state |-> "QUEUED", reason |-> "NONE"] /\ result[n] = "none"
    BY <1>0, <1>5 DEF Dispatch, Consistent
  <2>2. Consistent("executing", [state |-> "EXECUTING", reason |-> "NONE"], "none")
    BY DEF Consistent
  <2>3. /\ task' = [task EXCEPT ![n] = "executing"]
        /\ pcb' = [pcb EXCEPT ![n] = [state |-> "EXECUTING", reason |-> "NONE"]]
        /\ result' = [result EXCEPT ![n] = "none"]
    BY <1>0, <1>5, <2>1, TransitionFacts DEF Dispatch
  <2> QED
    BY <2>2, <2>3, OneNodeMoves
<1>9. ASSUME NEW n \in Node, FailProvision(n) PROVE Bookkeeping'
  <2>1. pcb[n] = [state |-> "QUEUED", reason |-> "NONE"] /\ result[n] = "none"
    BY <1>0, <1>9 DEF FailProvision, Consistent
  <2>2. Consistent("raised", [state |-> "EXECUTING", reason |-> "NONE"], "none")
    BY DEF Consistent
  <2>3. /\ task' = [task EXCEPT ![n] = "raised"]
        /\ pcb' = [pcb EXCEPT ![n] = [state |-> "EXECUTING", reason |-> "NONE"]]
        /\ result' = [result EXCEPT ![n] = "none"]
    BY <1>0, <1>9, <2>1, TransitionFacts DEF FailProvision
  <2> QED
    BY <2>2, <2>3, OneNodeMoves
<1>6. ASSUME NEW n \in Node, Settle(n) PROVE Bookkeeping'
  <2>1. pcb[n] = [state |-> "EXECUTING", reason |-> "NONE"] /\ result[n] = "none"
    BY <1>0, <1>6 DEF Settle, Finish, TimeOut, Fault, Crash, Cancel, Leave, Consistent
  <2>2. ASSUME NEW r \in TerminationReason, NEW x, Leave(n, r, x)
        PROVE  /\ pcb' = [pcb EXCEPT ![n] = [state |-> "TERMINATED", reason |-> r]]
               /\ task' = [task EXCEPT ![n] = x]
    BY <2>1, <2>2, TransitionFacts DEF Leave
  <2>3. CASE Finish(n)
    <3>1. PICK v \in Verdict(n) : result' = [result EXCEPT ![n] = v]
      BY <2>3 DEF Finish
    <3>2. Consistent("returning", [state |-> "TERMINATED", reason |-> "COMPLETED"], v)
      BY DEF Consistent, Verdict
    <3>3. /\ pcb' = [pcb EXCEPT ![n] = [state |-> "TERMINATED", reason |-> "COMPLETED"]]
          /\ task' = [task EXCEPT ![n] = "returning"]
      BY <2>2, <2>3 DEF Finish, TerminationReason
    <3> QED
      BY <3>1, <3>2, <3>3, OneNodeMoves
  <2>4. CASE TimeOut(n)
    <3>1. Consistent("raising", [state |-> "TERMINATED", reason |-> "KILLED"], "none")
      BY DEF Consistent
    <3>2. /\ pcb' = [pcb EXCEPT ![n] = [state |-> "TERMINATED", reason |-> "KILLED"]]
          /\ task' = [task EXCEPT ![n] = "raising"]
      BY <2>2, <2>4 DEF TimeOut, TerminationReason
    <3>3. result' = [result EXCEPT ![n] = "none"]
      BY <1>0, <2>1, <2>4 DEF TimeOut
    <3> QED
      BY <3>1, <3>2, <3>3, OneNodeMoves
  <2>5. CASE Fault(n)
    <3>1. Consistent("returning", [state |-> "TERMINATED", reason |-> "FAILED"],
                     "RUNTIME ERROR")
      BY DEF Consistent
    <3>2. /\ pcb' = [pcb EXCEPT ![n] = [state |-> "TERMINATED", reason |-> "FAILED"]]
          /\ task' = [task EXCEPT ![n] = "returning"]
      BY <2>2, <2>5 DEF Fault, TerminationReason
    <3>3. result' = [result EXCEPT ![n] = "RUNTIME ERROR"]
      BY <2>5 DEF Fault
    <3> QED
      BY <3>1, <3>2, <3>3, OneNodeMoves
  <2>6. CASE Crash(n)
    <3>1. Consistent("raising", [state |-> "TERMINATED", reason |-> "FAILED"], "none")
      BY DEF Consistent
    <3>2. /\ pcb' = [pcb EXCEPT ![n] = [state |-> "TERMINATED", reason |-> "FAILED"]]
          /\ task' = [task EXCEPT ![n] = "raising"]
      BY <2>2, <2>6 DEF Crash, TerminationReason
    <3>3. result' = [result EXCEPT ![n] = "none"]
      BY <1>0, <2>1, <2>6 DEF Crash
    <3> QED
      BY <3>1, <3>2, <3>3, OneNodeMoves
  <2>7. CASE Cancel(n)
    <3>1. Consistent("raising", pcb[n], "none")
      BY <2>1 DEF Consistent
    <3>2. /\ task' = [task EXCEPT ![n] = "raising"]
          /\ pcb' = [pcb EXCEPT ![n] = pcb[n]]
          /\ result' = [result EXCEPT ![n] = "none"]
      BY <1>0, <2>1, <2>7 DEF Cancel
    <3> QED
      BY <3>1, <3>2, OneNodeMoves
  <2> QED
    BY <1>6, <2>3, <2>4, <2>5, <2>6, <2>7 DEF Settle
<1>7. ASSUME NEW n \in Node, Close(n) PROVE Bookkeeping'
  <2>1. CASE task[n] = "returning"
    <3>1. Consistent("returned", pcb[n], result[n])
      BY <1>0, <2>1 DEF Consistent
    <3>2. /\ task' = [task EXCEPT ![n] = "returned"]
          /\ pcb' = [pcb EXCEPT ![n] = pcb[n]]
          /\ result' = [result EXCEPT ![n] = result[n]]
      BY <1>0, <1>7, <2>1 DEF Close
    <3> QED
      BY <3>1, <3>2, OneNodeMoves
  <2>2. CASE task[n] = "raising"
    <3>1. Consistent("raised", pcb[n], result[n])
      BY <1>0, <2>2 DEF Consistent
    <3>2. /\ task' = [task EXCEPT ![n] = "raised"]
          /\ pcb' = [pcb EXCEPT ![n] = pcb[n]]
          /\ result' = [result EXCEPT ![n] = result[n]]
      BY <1>0, <1>7, <2>2 DEF Close
    <3> QED
      BY <3>1, <3>2, OneNodeMoves
  <2> QED
    BY <1>7, <2>1, <2>2 DEF Close, Closing
<1>8. CASE UNCHANGED vars
  BY <1>8 DEF vars, Bookkeeping
<1> QED
  BY <1>1, <1>2, <1>3, <1>4, <1>5, <1>6, <1>7, <1>8, <1>9 DEF Next, Progress, Quiet

-----------------------------------------------------------------------------
(* The dependency gate and the scratch directories.                        *)

\* A started node's dependencies have returned, so their results are final.
LEMMA DependenciesReturned ==
    ASSUME TypeOK, Staging, NEW n \in Node, task[n] # "absent", NEW d \in DepsOf[n]
    PROVE  d \in Node /\ task[d] = "returned"
<1>1. /\ d \in Node /\ PlanOf[d] = PlanOf[n] /\ LayerOf[d] < LayerOf[n]
      /\ LayerOf[n] \in Nat /\ LayerOf[d] \in Nat /\ layer[PlanOf[n]] \in Nat
  BY SchedulerAssumption DEF TypeOK
<1>2. ~(layer[PlanOf[n]] < LayerOf[n])
  BY DEF Staging
<1> QED
  BY <1>1, <1>2, ByLayer

\* No step changes the result of a node that has returned.
LEMMA ResultsAreFinal ==
    ASSUME TypeOK, [Next]_vars, NEW d \in Node, task[d] = "returned"
    PROVE  result'[d] = result[d]
<1>1. ASSUME NEW n \in Node, Settle(n) PROVE result'[d] = result[d]
  BY <1>1 DEF Settle, Finish, TimeOut, Fault, Crash, Cancel, Leave, TypeOK
<1> QED
  BY <1>1 DEF Next, Progress, Quiet, vars, Schedule, StartLayer, Abort, Return,
              Admit, Reject, Dispatch, FailProvision, Close

\* A node enters the semaphore only by Admit.
LEMMA EntersByAdmit ==
    ASSUME TypeOK, [Next]_vars, NEW n \in Node,
           task'[n] \in Holding \cup {"returned"},
           task[n] \notin Holding \cup {"returned"}
    PROVE  Admit(n)
<1>1. ASSUME NEW m \in Node,
             Reject(m) \/ Dispatch(m) \/ FailProvision(m) \/ Settle(m) \/ Close(m)
      PROVE  FALSE
  BY <1>1 DEF Reject, Dispatch, FailProvision, Settle, Finish, TimeOut, Fault, Crash, Cancel, Leave,
              Close, Closing, Holding, TypeOK
<1>2. ASSUME NEW m \in Node, Admit(m) PROVE Admit(n)
  BY <1>2 DEF Admit, TypeOK
<1>3. ASSUME NEW p \in Plan, StartLayer(p) PROVE FALSE
  BY <1>3 DEF StartLayer, Holding, TypeOK
<1> QED
  BY <1>1, <1>2, <1>3 DEF Next, Progress, Quiet, vars, Schedule, Abort, Return

\* Each step keeps the dependencies of a running node accepted.
LEMMA GateStep ==
    ASSUME IInv, [Next]_vars
    PROVE  NeverOnRejectedInput'
<1> USE DEF IInv
<1> SUFFICES ASSUME NEW n \in Node, task'[n] \in Holding \cup {"returned"},
                    NEW d \in DepsOf[n]
             PROVE  result'[d] \notin {"none", "FAILED"}
  BY DEF NeverOnRejectedInput
<1>1. task[n] # "absent" /\ result[d] \notin {"none", "FAILED"}
  <2>1. CASE task[n] \in Holding \cup {"returned"}
    BY <2>1 DEF NeverOnRejectedInput, Holding
  <2>2. CASE task[n] \notin Holding \cup {"returned"}
    <3>1. Admit(n)
      BY <2>2, EntersByAdmit
    <3> QED
      BY <3>1 DEF Admit, DependenciesMet
  <2> QED
    BY <2>1, <2>2
<1>2. d \in Node /\ task[d] = "returned"
  BY <1>1, DependenciesReturned
<1> QED
  BY <1>1, <1>2, ResultsAreFinal

\* Each step keeps the scratch directories free of nodes that are done.
LEMMA ResidueStep ==
    ASSUME IInv, [Next]_vars
    PROVE  NoResidue'
<1> USE SchedulerAssumption, NodeFacts DEF IInv, TypeOK
<1> DEFINE Inside == {"executing", "returning", "raising"}
<1>1. ASSUME NEW n \in Node, Dispatch(n) PROVE NoResidue'
  BY <1>1 DEF Dispatch, provision_container, NoResidue, Workspace
<1>2. ASSUME NEW n \in Node, Close(n) PROVE NoResidue'
  <2>1. ASSUME NEW x \in Dir,
               \A m \in Node : Workspace(m) = x => task'[m] \notin Inside
        PROVE  scratch'[x] = {}
    <3>1. CASE x = Workspace(n)
      BY <1>2, <3>1 DEF Close, recycle_container, Workspace
    <3>2. CASE x # Workspace(n)
      <4>1. scratch'[x] = scratch[x]
        BY <1>2, <3>2 DEF Close, recycle_container, Workspace
      <4>2. \A m \in Node : Workspace(m) = x => task'[m] = task[m]
        BY <1>2, <3>2 DEF Close
      <4> QED
        BY <2>1, <4>1, <4>2 DEF NoResidue
    <3> QED
      BY <3>1, <3>2
  <2>2. \A m \in Node : Workspace(m)' = Workspace(m)
    BY DEF Workspace, Workflow
  <2> QED
    BY <2>1, <2>2 DEF NoResidue
<1>3. ASSUME scratch' = scratch,
             \A m \in Node : task[m] \in Inside => task'[m] \in Inside
      PROVE  NoResidue'
  BY <1>3 DEF NoResidue, Workspace, Workflow
<1>4. ASSUME NEW n \in Node, Admit(n) \/ Reject(n) \/ FailProvision(n) PROVE NoResidue'
  BY <1>3, <1>4 DEF Admit, Reject, FailProvision
<1>5. ASSUME NEW n \in Node, Settle(n) PROVE NoResidue'
  BY <1>3, <1>5 DEF Settle, Finish, TimeOut, Fault, Crash, Cancel, Leave
<1>6. ASSUME NEW p \in Plan, StartLayer(p) PROVE NoResidue'
  <2>1. ASSUME NEW m \in Node, task[m] \in Inside PROVE task'[m] \in Inside
    <3>1. m \notin Members(p, layer[p] + 1)
      BY <2>1, NextLayerAbsent
    <3> QED
      BY <1>6, <2>1, <3>1 DEF StartLayer
  <2> QED
    BY <1>3, <1>6, <2>1 DEF StartLayer
<1>7. ASSUME NEW p \in Plan, Schedule(p) \/ Abort(p) \/ Return(p) PROVE NoResidue'
  BY <1>3, <1>7 DEF Schedule, Abort, Return
<1>8. CASE UNCHANGED vars
  BY <1>3, <1>8 DEF vars
<1> QED
  BY <1>1, <1>2, <1>4, <1>5, <1>6, <1>7, <1>8 DEF Next, Progress, Quiet

-----------------------------------------------------------------------------
(* The invariant, and the properties it implies.                           *)

\* The inductive invariant holds in every reachable state of the scheduler.
THEOREM InductiveInvariant == Spec => []IInv
<1>1. IInv /\ [Next]_vars => IInv'
  BY TypeStep, PermitStep, StagingStep, BookkeepingStep, GateStep, ResidueStep DEF IInv
<1> QED
  BY InitIInv, <1>1, PTL DEF Spec

\* Every variable stays in its range, for every set of plans.
THEOREM TypeCorrect == Spec => []TypeOK
<1>1. IInv => TypeOK
  BY DEF IInv
<1> QED
  BY <1>1, InductiveInvariant, PTL

\* The semaphore never leaks or mints a permit, whatever the plans and however
\* their nodes end.
THEOREM PermitsConserved == Spec => []PermitConservation
<1>1. IInv => PermitConservation
  BY DEF IInv
<1> QED
  BY <1>1, InductiveInvariant, PTL

\* At most MAX_CONCURRENT_RUNTIMES nodes are inside the semaphore at any time.
THEOREM ConcurrencyBound == Spec => [](Cardinality(Holders) <= Permits)
<1>1. IInv => Cardinality(Holders) <= Permits
  <2> SUFFICES ASSUME IInv PROVE Cardinality(Holders) <= Permits
    OBVIOUS
  <2>1. permits \in Nat /\ Permits \in Nat
    BY SchedulerAssumption DEF IInv, TypeOK
  <2>2. permits + Cardinality(Holders) = Permits
    BY DEF IInv, PermitConservation
  <2> QED
    BY <2>1, <2>2, HoldersFinite
<1> QED
  BY <1>1, InductiveInvariant, PTL

\* Layers never overlap: a node with a task has only returned nodes below it.
THEOREM LayersNeverOverlap == Spec => []LayerBarrier
<1>1. IInv => LayerBarrier
  <2> SUFFICES ASSUME IInv, NEW n \in Node, task[n] # "absent",
                      NEW m \in Node, PlanOf[m] = PlanOf[n], LayerOf[m] < LayerOf[n]
               PROVE  task[m] = "returned"
    BY DEF LayerBarrier
  <2>1. /\ LayerOf[n] \in Nat /\ LayerOf[m] \in Nat /\ layer[PlanOf[n]] \in Nat
        /\ ~(layer[PlanOf[n]] < LayerOf[n])
    BY NodeFacts DEF IInv, TypeOK, Staging
  <2> QED
    BY <2>1, ByLayer DEF IInv
<1> QED
  BY <1>1, InductiveInvariant, PTL

\* When a call comes back, no task it started is still running.
THEOREM CallsLeaveNothingBehind == Spec => []NothingLeftBehind
<1>1. IInv => NothingLeftBehind
  <2> SUFFICES ASSUME IInv, NEW n \in Node
               PROVE  /\ phase[PlanOf[n]] = "returned"
                            => task[n] = "returned" /\ result[n] # "none"
                      /\ phase[PlanOf[n]] = "raised"
                            => task[n] \in {"absent", "returned", "raised"}
    BY DEF NothingLeftBehind
  <2>1. task[n] = "returned" => result[n] # "none"
    BY DEF IInv, Bookkeeping, Consistent
  <2>2. /\ phase[PlanOf[n]] = "returned" => task[n] = "returned"
        /\ phase[PlanOf[n]] = "raised"
              => task[n] \in {"absent", "returned", "raised"}
    BY DEF IInv, Staging
  <2> QED
    BY <2>1, <2>2
<1> QED
  BY <1>1, InductiveInvariant, PTL

\* Results and process blocks tell how each node ended.
THEOREM ResultsTellOutcomes == Spec => []ResultTellsOutcome
<1>1. IInv => ResultTellsOutcome
  BY DEF IInv, Bookkeeping, Consistent, ResultTellsOutcome
<1> QED
  BY <1>1, InductiveInvariant, PTL

\* No node runs, or has returned, on a rejected or missing dependency.
THEOREM GateHolds == Spec => []NeverOnRejectedInput
<1>1. IInv => NeverOnRejectedInput
  BY DEF IInv
<1> QED
  BY <1>1, InductiveInvariant, PTL

\* A directory none of whose nodes is at work is empty.
THEOREM ScratchIsCleaned == Spec => []NoResidue
<1>1. IInv => NoResidue
  BY DEF IInv
<1> QED
  BY <1>1, InductiveInvariant, PTL

-----------------------------------------------------------------------------
(* Who takes an executing node's files, as an action property.             *)

\* The only step that takes files out of a directory is the clean-up of a node
\* whose workflow id leads there.
LEMMA FilesTakenByClose ==
    ASSUME IInv, [Next]_vars, NEW n \in Node,
           n \in scratch[Workspace(n)], n \notin scratch'[Workspace(n)]
    PROVE  \E m \in Node : Workspace(m) = Workspace(n) /\ Close(m)
<1> USE NodeFacts DEF IInv, TypeOK
<1>1. scratch' # scratch
  OBVIOUS
<1>2. ASSUME NEW m \in Node, Dispatch(m) PROVE FALSE
  BY <1>2 DEF Dispatch, provision_container
<1>3. PICK m \in Node : Close(m)
  BY <1>1, <1>2 DEF Next, Progress, Quiet, vars, Schedule, StartLayer, Abort, Return,
     Admit, Reject, FailProvision, Settle, Finish, TimeOut, Fault, Crash, Cancel, Leave
<1>4. Workspace(m) = Workspace(n)
  BY <1>3 DEF Close, recycle_container, Workspace
<1> QED
  BY <1>3, <1>4

\* A node's files are taken away while it executes only by the clean-up of
\* another node of its directory, whatever ids _get_path sends to one directory.
THEOREM OnlyNeighboursTakeFiles == Spec => FilesTakenByNeighbours
<1> DEFINE ByNeighbour ==
      \A n \in Node :
          /\ task[n] = "executing" /\ task'[n] = "executing"
          /\ n \in scratch[Workspace(n)]
          /\ n \notin scratch'[Workspace(n)]
          => \E m \in Node \ {n} :
                /\ Workspace(m) = Workspace(n)
                /\ task[m] \in Closing
                /\ task'[m] \in Ended
<1>1. IInv /\ [Next]_vars => ByNeighbour
  <2> SUFFICES ASSUME IInv, [Next]_vars, NEW n \in Node,
                      task[n] = "executing", task'[n] = "executing",
                      n \in scratch[Workspace(n)], n \notin scratch'[Workspace(n)]
               PROVE  \E m \in Node \ {n} :
                         /\ Workspace(m) = Workspace(n)
                         /\ task[m] \in Closing
                         /\ task'[m] \in Ended
    OBVIOUS
  <2>1. PICK m \in Node : Workspace(m) = Workspace(n) /\ Close(m)
    BY FilesTakenByClose
  <2>2. task[m] \in Closing /\ task'[m] \in Ended
    BY <2>1 DEF Close, Ended, IInv, TypeOK
  <2>3. m # n
    BY <2>2 DEF Closing
  <2> QED
    BY <2>1, <2>2, <2>3
<1>2. IInv /\ [Next]_vars => [ByNeighbour]_vars
  BY <1>1
<1> HIDE DEF ByNeighbour
<1>3. Spec => [][ByNeighbour]_vars
  BY <1>2, InductiveInvariant, PTL DEF Spec
<1> QED
  BY <1>3 DEF ByNeighbour, FilesTakenByNeighbours

-----------------------------------------------------------------------------
(* The scheduler implements LayeredExecution, for every set of plans: the  *)
(* initial states agree, and under the inductive invariant every step of   *)
(* the scheduler is a step of the abstract specification or leaves the     *)
(* abstract state as it is.                                                *)

\* The abstract status of a node, before and after a step.
LEMMA StatusFacts ==
    ASSUME TypeOK, NEW n \in Node
    PROVE  /\ Status[n] = "pending" <=> task[n] \in {"absent", "waiting"}
           /\ Status[n] = "active" <=> task[n] \in Holding
           /\ task[n] \in Ended => Status[n] = task[n]
  BY DEF Status, TypeOK, TaskState, Holding, Ended

\* The abstract active nodes are the holders of permits.
LEMMA ActiveAreHolders ==
    ASSUME TypeOK
    PROVE  Promise!Active = Holders
  BY StatusFacts DEF Promise!Active, Holders

\* A node whose task waits belongs to a running plan.
LEMMA WaitingMeansRunning ==
    ASSUME IInv, NEW n \in Node, task[n] = "waiting"
    PROVE  phase[PlanOf[n]] = "running"
<1>1. PlanOf[n] \in Plan /\ LayerOf[n] \in Nat \ {0}
  BY NodeFacts
<1>2. phase[PlanOf[n]] # "idle"
  BY <1>1 DEF IInv, Staging
<1>3. phase[PlanOf[n]] \notin {"returned", "raised"}
  BY <1>1 DEF IInv, Staging
<1> QED
  BY <1>1, <1>2, <1>3 DEF IInv, TypeOK, Phase

\* Such a node may be started: its predecessors have all returned.
LEMMA WaitingIsStartable ==
    ASSUME IInv, NEW n \in Node, task[n] = "waiting"
    PROVE  Promise!Startable(n)
<1>1. Status[n] = "pending"
  BY StatusFacts DEF IInv
<1>2. ASSUME NEW m \in Node, PlanOf[m] = PlanOf[n], LayerOf[m] < LayerOf[n]
      PROVE  Status[m] = "returned"
  <2>1. /\ LayerOf[n] \in Nat /\ LayerOf[m] \in Nat /\ layer[PlanOf[n]] \in Nat
        /\ ~(layer[PlanOf[n]] < LayerOf[n])
    BY NodeFacts DEF IInv, TypeOK, Staging
  <2>2. task[m] = "returned"
    BY <1>2, <2>1, ByLayer DEF IInv
  <2> QED
    BY <2>2, StatusFacts DEF IInv, Ended
<1> QED
  BY <1>1, <1>2, WaitingMeansRunning DEF Promise!Startable

\* A step that moves one node's task moves its abstract status only.
LEMMA StatusMoves ==
    ASSUME TypeOK, NEW n \in Node, NEW t, task' = [task EXCEPT ![n] = t]
    PROVE  /\ t \in {"absent", "waiting"} => Status' = [Status EXCEPT ![n] = "pending"]
           /\ t \in Holding => Status' = [Status EXCEPT ![n] = "active"]
           /\ t \in Ended => Status' = [Status EXCEPT ![n] = t]
  BY DEF Status, TypeOK, Holding, Ended

\* The instance counts as this module does.
LEMMA SameCardinality ==
    ASSUME NEW S
    PROVE  Promise!Cardinality(S) = Cardinality(S)
  BY DEF Cardinality, Promise!Cardinality

\* The initial states map to an initial state.
LEMMA InitRefines == Init => Promise!Init
<1> SUFFICES ASSUME Init PROVE Promise!Init
  OBVIOUS
<1>1. ASSUME NEW n \in Node
      PROVE  (CASE task[n] \in {"absent", "waiting"} -> "pending"
                [] task[n] \in Holding -> "active"
                [] OTHER -> task[n]) = "pending"
  BY DEF Init, Holding
<1>2. Status = [n \in Node |-> "pending"]
  BY <1>1 DEF Status
<1> QED
  BY <1>2 DEF Init, Promise!Init

\* Each step maps to a step of the layered execution or to none.
LEMMA StepRefines ==
    ASSUME IInv, [Next]_vars
    PROVE  [Promise!Next]_Promise!vars
<1> USE NodeFacts DEF IInv
<1>1. ASSUME NEW p \in Plan, Schedule(p) PROVE Promise!Begin(p)
  BY <1>1 DEF Schedule, Promise!Begin, Status
<1>2. ASSUME NEW p \in Plan, StartLayer(p) PROVE UNCHANGED Promise!vars
  <2>1. ASSUME NEW n \in Members(p, layer[p] + 1)
        PROVE  task[n] = "absent" /\ task'[n] = "waiting"
    BY <1>2, NextLayerAbsent DEF StartLayer, Members
  <2>2. \A n \in Node : n \notin Members(p, layer[p] + 1) => task'[n] = task[n]
    BY <1>2 DEF StartLayer
  <2>3. ASSUME NEW n \in Node
        PROVE  (CASE task'[n] \in {"absent", "waiting"} -> "pending"
                  [] task'[n] \in Holding -> "active"
                  [] OTHER -> task'[n])
               = (CASE task[n] \in {"absent", "waiting"} -> "pending"
                    [] task[n] \in Holding -> "active"
                    [] OTHER -> task[n])
    BY <2>1, <2>2 DEF Holding
  <2>4. Status' = Status
    BY <2>3 DEF Status
  <2> QED
    BY <1>2, <2>4 DEF StartLayer, Promise!vars
<1>3. ASSUME NEW p \in Plan, Abort(p) PROVE Promise!Raise(p)
  <2>1. PICK r \in Members(p, layer[p]) : task[r] = "raised"
    BY <1>3 DEF Abort
  <2>2. r \in Node /\ PlanOf[r] = p /\ LayerOf[r] = layer[p] /\ Status[r] = "raised"
    BY <2>1, StatusFacts DEF Members, Ended
  <2>3. ASSUME NEW n \in Node, PlanOf[n] = p
        PROVE  IF LayerOf[n] <= LayerOf[r]
               THEN Status[n] \in {"returned", "raised"}
               ELSE Status[n] = "pending"
    <3>1. LayerOf[n] \in Nat /\ layer[p] \in Nat
      BY DEF TypeOK
    <3>2. CASE LayerOf[n] < layer[p]
      <4>1. task[n] = "returned"
        BY <2>3, <3>2 DEF Staging
      <4> QED
        BY <4>1, <2>2, <3>1, <3>2, StatusFacts DEF Ended
    <3>3. CASE LayerOf[n] = layer[p]
      <4>1. task[n] \in Ended
        BY <1>3, <2>3, <3>3 DEF Abort, LayerEnded, Members
      <4> QED
        BY <4>1, <2>2, <3>1, <3>3, StatusFacts DEF Ended
    <3>4. CASE layer[p] < LayerOf[n]
      <4>1. task[n] = "absent"
        BY <2>3, <3>4 DEF Staging
      <4> QED
        BY <4>1, <2>2, <3>1, <3>4, StatusFacts
    <3> QED
      BY <3>1, <3>2, <3>3, <3>4
  <2>4. Status' = Status
    BY <1>3 DEF Abort, Status
  <2> QED
    BY <1>3, <2>2, <2>3, <2>4 DEF Abort, Promise!Raise
<1>4. ASSUME NEW p \in Plan, Return(p) PROVE Promise!Return(p)
  <2>1. ASSUME NEW n \in Node, PlanOf[n] = p PROVE Status[n] = "returned"
    <3>1. LayerOf[n] \in Nat /\ layer[p] \in Nat /\ LayerOf[n] <= layer[p]
      BY <1>4, <2>1 DEF Return, TypeOK
    <3>2. CASE LayerOf[n] < layer[p]
      BY <2>1, <3>2, StatusFacts DEF Staging, Ended
    <3>3. CASE LayerOf[n] = layer[p]
      <4>1. task[n] = "returned"
        BY <1>4, <2>1, <3>3 DEF Return, Members
      <4> QED
        BY <4>1, StatusFacts DEF Ended
    <3> QED
      BY <3>1, <3>2, <3>3
  <2>2. Status' = Status
    BY <1>4 DEF Return, Status
  <2> QED
    BY <1>4, <2>1, <2>2 DEF Return, Promise!Return
<1>5. ASSUME NEW n \in Node, Admit(n) PROVE Promise!Activate(n)
  <2>1. Promise!Startable(n)
    BY <1>5, WaitingIsStartable DEF Admit
  <2>2. Cardinality(Holders) < Permits
    <3>1. permits \in Nat /\ permits > 0 /\ Permits \in Nat
      BY <1>5, SchedulerAssumption DEF Admit, TypeOK
    <3>2. permits + Cardinality(Holders) = Permits
      BY DEF PermitConservation
    <3> QED
      BY <3>1, <3>2, HoldersFinite
  <2>3. Status' = [Status EXCEPT ![n] = "active"]
    BY <1>5, StatusMoves DEF Admit, Holding
  <2>4. Promise!Cardinality(Promise!Active) < Permits
    <3>1. Promise!Active = Holders
      BY ActiveAreHolders
    <3> QED
      BY <2>2, <3>1, SameCardinality
  <2>5. phase' = phase
    BY <1>5 DEF Admit
  <2> QED
    BY <2>1, <2>3, <2>4, <2>5 DEF Promise!Activate
<1>6. ASSUME NEW n \in Node, Reject(n) PROVE Promise!Refuse(n)
  <2>1. Promise!Startable(n)
    BY <1>6, WaitingIsStartable DEF Reject
  <2>2. Status' = [Status EXCEPT ![n] = "raised"]
    BY <1>6, StatusMoves DEF Reject, Ended
  <2> QED
    BY <1>6, <2>1, <2>2 DEF Reject, Promise!Refuse
<1>7. ASSUME NEW n \in Node, Dispatch(n) \/ Settle(n) PROVE UNCHANGED Promise!vars
  <2>1. PICK t \in Holding : task' = [task EXCEPT ![n] = t]
    BY <1>7 DEF Dispatch, Settle, Finish, TimeOut, Fault, Crash, Cancel, Leave, Holding
  <2>2. task[n] \in Holding
    BY <1>7 DEF Dispatch, Settle, Finish, TimeOut, Fault, Crash, Cancel, Leave, Holding
  <2>3. Status' = [Status EXCEPT ![n] = "active"]
    BY <2>1, StatusMoves
  <2>4. Status[n] = "active"
    BY <2>2, StatusFacts
  <2>5. Status' = Status
    BY <2>3, <2>4 DEF Status
  <2>6. phase' = phase
    BY <1>7 DEF Dispatch, Settle, Finish, TimeOut, Fault, Crash, Cancel, Leave
  <2> QED
    BY <2>5, <2>6 DEF Promise!vars
<1>8. ASSUME NEW n \in Node, Close(n) \/ FailProvision(n) PROVE Promise!Settle(n)
  <2>1. Status[n] = "active"
    BY <1>8, StatusFacts DEF Close, FailProvision, Closing, Holding
  <2>2. PICK t \in Ended : task' = [task EXCEPT ![n] = t]
    BY <1>8 DEF Close, FailProvision, Ended, TypeOK
  <2>3. Status' = [Status EXCEPT ![n] = t]
    BY <2>2, StatusMoves
  <2> QED
    BY <1>8, <2>1, <2>2, <2>3 DEF Close, FailProvision, Promise!Settle, Ended
<1>9. CASE UNCHANGED vars
  BY <1>9 DEF vars, Promise!vars, Status
<1> QED
  BY <1>1, <1>2, <1>3, <1>4, <1>5, <1>6, <1>7, <1>8, <1>9
     DEF Next, Progress, Quiet, Promise!Next

\* Whatever the plans, their layers and the permits: a behaviour of the
\* scheduler is a behaviour of the layered execution it promises.
THEOREM SchedulerRefinesLayeredExecution == Spec => ImplementsLayeredExecution
<1>1. IInv /\ [Next]_vars => [Promise!Next]_Promise!vars
  BY StepRefines
<1> QED
  BY InitRefines, <1>1, InductiveInvariant, PTL
     DEF Spec, ImplementsLayeredExecution, Promise!Spec

-----------------------------------------------------------------------------
(* Progress: what EveryPlanComesBack rests on besides fairness.            *)

\* The guards of what the scheduler does by itself.
CanStartLayer(p) == /\ phase[p] = "running" /\ layer[p] < DepthOf[p]
                    /\ \A n \in Members(p, layer[p]) : task[n] = "returned"
CanAbort(p) == /\ phase[p] = "running" /\ LayerEnded(p)
               /\ \E n \in Members(p, layer[p]) : task[n] = "raised"
CanReturn(p) == /\ phase[p] = "running" /\ layer[p] = DepthOf[p]
                /\ \A n \in Members(p, layer[p]) : task[n] = "returned"
CanEnter(n) == task[n] = "waiting" /\ permits > 0
CanGoOn(n) == task[n] \in Holding

\* While a plan runs, it or another running plan can take a step.
NeverStuck ==
    \A p \in Plan : phase[p] = "running" =>
        \E q \in Plan :
            /\ phase[q] = "running"
            /\ \/ CanStartLayer(q) \/ CanAbort(q) \/ CanReturn(q)
               \/ \E n \in Node : PlanOf[n] = q /\ (CanEnter(n) \/ CanGoOn(n))

\* A node inside the semaphore belongs to a running plan.
LEMMA HoldersRun ==
    ASSUME TypeOK, Staging, NEW n \in Node, CanGoOn(n)
    PROVE  phase[PlanOf[n]] = "running"
<1>1. PlanOf[n] \in Plan /\ LayerOf[n] \in Nat \ {0}
  BY NodeFacts
<1>2. task[n] \notin {"absent", "returned", "raised"}
  BY DEF CanGoOn, Holding
<1>3. phase[PlanOf[n]] # "idle"
  BY <1>1, <1>2 DEF Staging, TypeOK
<1> QED
  BY <1>1, <1>2, <1>3 DEF Staging, TypeOK, Phase

\* THEOREM: no running plan waits for a permit nobody will give back, nor for a
\* layer that cannot end.
THEOREM SchedulerNeverStuck == Spec => []NeverStuck
<1>1. ASSUME IInv PROVE NeverStuck
  <2> USE <1>1 DEF IInv
  <2> SUFFICES ASSUME NEW p \in Plan, phase[p] = "running"
               PROVE  \E q \in Plan :
                         /\ phase[q] = "running"
                         /\ \/ CanStartLayer(q) \/ CanAbort(q) \/ CanReturn(q)
                            \/ \E n \in Node : PlanOf[n] = q /\ (CanEnter(n) \/ CanGoOn(n))
    BY DEF NeverStuck
  <2>1. CASE LayerEnded(p)
    <3>1. CASE \E n \in Members(p, layer[p]) : task[n] = "raised"
      BY <2>1, <3>1 DEF CanAbort
    <3>2. CASE \A n \in Members(p, layer[p]) : task[n] # "raised"
      <4>1. \A n \in Members(p, layer[p]) : task[n] = "returned"
        BY <2>1, <3>2 DEF LayerEnded, Ended
      <4>2. layer[p] < DepthOf[p] \/ layer[p] = DepthOf[p]
        <5>1. layer[p] \in Nat /\ DepthOf[p] \in Nat /\ layer[p] <= DepthOf[p]
          BY SchedulerAssumption DEF Staging, TypeOK
        <5> QED
          BY <5>1
      <4> QED
        BY <4>1, <4>2 DEF CanStartLayer, CanReturn
    <3> QED
      BY <3>1, <3>2
  <2>2. ASSUME NEW n \in Members(p, layer[p]), task[n] \notin Ended
        PROVE  \E q \in Plan :
                  /\ phase[q] = "running"
                  /\ \E m \in Node : PlanOf[m] = q /\ (CanEnter(m) \/ CanGoOn(m))
    <3>1. n \in Node /\ PlanOf[n] = p /\ LayerOf[n] = layer[p] /\ layer[p] \in Nat
      BY DEF Members, TypeOK
    <3>2. task[n] \in {"waiting"} \cup Holding
      BY <2>2, <3>1 DEF Staging, TypeOK, TaskState, Holding, Ended
    <3>3. CASE permits > 0 \/ task[n] \in Holding
      BY <3>1, <3>2, <3>3 DEF CanEnter, CanGoOn
    <3>4. CASE ~(permits > 0)
      <4>1. Cardinality(Holders) = Permits /\ Permits # 0
        BY <3>4, HoldersFinite, SchedulerAssumption DEF TypeOK, PermitConservation
      <4>2. PICK m \in Holders : TRUE
        BY <4>1, FS_EmptySet
      <4>3. m \in Node /\ CanGoOn(m)
        BY <4>2 DEF Holders, CanGoOn
      <4> QED
        BY <4>3, HoldersRun, NodeFacts
    <3> QED
      BY <3>3, <3>4
  <2> QED
    BY <2>1, <2>2 DEF LayerEnded
<1> QED
  BY <1>1, InductiveInvariant, PTL

\* How far a coroutine is, in the five steps a node has at most.
Place == [absent |-> 0, waiting |-> 1, queued |-> 2, executing |-> 3,
          returning |-> 4, raising |-> 4, returned |-> 5, raised |-> 5]

\* What is still to come of a plan: places its nodes have not reached, layers it
\* has not spawned, and its end.
StepsLeft(p) == {x \in Node \X (1..5) : PlanOf[x[1]] = p /\ Place[task[x[1]]] < x[2]}
LayersLeft(p) == {k \in 1..DepthOf[p] : layer[p] < k}
EndsLeft(p) == IF phase[p] \in Ended THEN {} ELSE {p}
Left(p) == <<StepsLeft(p), LayersLeft(p), EndsLeft(p)>>

\* Nothing is ever put back, and each step the scheduler takes by itself takes
\* something away from a running plan.
NothingPutBack ==
    \A p \in Plan : /\ StepsLeft(p)' \subseteq StepsLeft(p)
                    /\ LayersLeft(p)' \subseteq LayersLeft(p)
                    /\ EndsLeft(p)' \subseteq EndsLeft(p)
SomethingDone == \E p \in Plan : phase[p] = "running" /\ Left(p)' # Left(p)

WorkRunsOut == [][NothingPutBack /\ (Progress => SomethingDone)]_vars

\* What is left of a plan is finite.
LEMMA WorkFinite ==
    ASSUME NEW p \in Plan
    PROVE  IsFiniteSet(StepsLeft(p)) /\ IsFiniteSet(LayersLeft(p)) /\ IsFiniteSet(EndsLeft(p))
<1>1. IsFiniteSet(Node \X (1..5))
  <2> DEFINE Places == 1..5
  <2>1. IsFiniteSet(Node)
    BY SchedulerAssumption
  <2>2. IsFiniteSet(Places)
    <3>1. 1 \in Int /\ 5 \in Int
      OBVIOUS
    <3> QED
      BY <3>1, FS_Interval, Zenon
  <2> HIDE DEF Places
  <2>3. IsFiniteSet(Node \X Places)
    BY <2>1, <2>2, FS_Product
  <2> QED
    BY <2>3 DEF Places
<1>2. IsFiniteSet(1..DepthOf[p])
  BY SchedulerAssumption, FS_Interval
<1>3. StepsLeft(p) \subseteq Node \X (1..5) /\ LayersLeft(p) \subseteq 1..DepthOf[p]
  BY DEF StepsLeft, LayersLeft
<1>4. IsFiniteSet({p}) /\ IsFiniteSet({})
  BY FS_Singleton, FS_EmptySet
<1> QED
  BY <1>1, <1>2, <1>3, <1>4, FS_Subset DEF EndsLeft

\* Places are numbers up to five.
LEMMA PlaceType ==
    /\ \A t \in TaskState : Place[t] \in 0..5
    /\ Place["absent"] = 0 /\ Place["waiting"] = 1
    /\ Place["queued"] = 2 /\ Place["executing"] = 3
    /\ \A t \in Closing : Place[t] = 4
    /\ \A t \in Ended : Place[t] = 5
  BY DEF Place, TaskState, Closing, Ended

\* A node that moves on leaves a place behind, and only its own.
LEMMA MoveShrinks ==
    ASSUME TypeOK, TypeOK', NEW n \in Node, Place[task'[n]] > Place[task[n]],
           \A m \in Node \ {n} : task'[m] = task[m]
    PROVE  /\ \A p \in Plan : StepsLeft(p)' \subseteq StepsLeft(p)
           /\ StepsLeft(PlanOf[n])' # StepsLeft(PlanOf[n])
<1>1. \A m \in Node : Place[task'[m]] \in 0..5 /\ Place[task[m]] \in 0..5
  BY PlaceType DEF TypeOK
<1>2. \A m \in Node : Place[task'[m]] >= Place[task[m]]
  BY <1>1
<1>3. ASSUME NEW p \in Plan PROVE StepsLeft(p)' \subseteq StepsLeft(p)
  <2> SUFFICES ASSUME NEW x \in Node \X (1..5), PlanOf[x[1]] = p,
                      Place[task'[x[1]]] < x[2]
               PROVE  Place[task[x[1]]] < x[2]
    BY DEF StepsLeft
  <2>1. x[1] \in Node /\ x[2] \in 1..5
    OBVIOUS
  <2> QED
    BY <1>1, <1>2, <2>1
<1>4. <<n, Place[task'[n]]>> \in StepsLeft(PlanOf[n])
  BY <1>1 DEF StepsLeft
<1>5. <<n, Place[task'[n]]>> \notin StepsLeft(PlanOf[n])'
  BY <1>1 DEF StepsLeft
<1> QED
  BY <1>3, <1>4, <1>5

\* THEOREM: with SchedulerNeverStuck, all that EveryPlanComesBack needs but the
\* fairness: a running plan has finitely many steps left, and they are used up.
THEOREM SchedulerRunsOut ==
    Spec => WorkRunsOut /\ [](\A p \in Plan :
        IsFiniteSet(StepsLeft(p)) /\ IsFiniteSet(LayersLeft(p)) /\ IsFiniteSet(EndsLeft(p)))
<1>1. ASSUME IInv, IInv', [Next]_vars
      PROVE  NothingPutBack /\ (Progress => SomethingDone)
  <2> USE <1>1 DEF IInv
  <2>0. TypeOK /\ TypeOK'
    OBVIOUS
  <2>1. ASSUME NEW p \in Plan, StartLayer(p)
        PROVE  NothingPutBack /\ SomethingDone
    <3>1. /\ phase' = phase /\ phase[p] = "running" /\ layer[p] \in Nat
          /\ layer' = [layer EXCEPT ![p] = layer[p] + 1]
          /\ layer[p] < DepthOf[p] /\ DepthOf[p] \in Nat
      BY <2>1, SchedulerAssumption DEF StartLayer, TypeOK
    <3>2. ASSUME NEW n \in Node PROVE Place[task'[n]] >= Place[task[n]]
      <4>1. CASE n \in Members(p, layer[p] + 1)
        <5>1. task[n] = "absent" /\ task'[n] = "waiting"
          BY <2>1, <4>1, NextLayerAbsent DEF StartLayer
        <5> QED
          BY <5>1, PlaceType
      <4>2. CASE n \notin Members(p, layer[p] + 1)
        <5>1. task'[n] = task[n]
          BY <2>1, <4>2 DEF StartLayer
        <5>2. Place[task[n]] \in 0..5
          BY PlaceType DEF TypeOK
        <5> QED
          BY <5>1, <5>2
      <4> QED
        BY <4>1, <4>2
    <3>3. ASSUME NEW q \in Plan PROVE StepsLeft(q)' \subseteq StepsLeft(q)
      <4> SUFFICES ASSUME NEW x \in Node \X (1..5), PlanOf[x[1]] = q,
                          Place[task'[x[1]]] < x[2]
                   PROVE  Place[task[x[1]]] < x[2]
        BY DEF StepsLeft
      <4>1. x[1] \in Node /\ x[2] \in 1..5
        OBVIOUS
      <4>2. Place[task[x[1]]] \in 0..5 /\ Place[task'[x[1]]] \in 0..5
        BY <2>0, <4>1, PlaceType DEF TypeOK
      <4> QED
        BY <3>2, <4>1, <4>2
    <3>4. ASSUME NEW q \in Plan
          PROVE  LayersLeft(q)' \subseteq LayersLeft(q) /\ EndsLeft(q)' = EndsLeft(q)
      BY <3>1 DEF LayersLeft, EndsLeft, TypeOK
    <3>5. layer[p] + 1 \in LayersLeft(p) /\ layer[p] + 1 \notin LayersLeft(p)'
      BY <3>1 DEF LayersLeft, TypeOK
    <3> QED
      BY <3>1, <3>3, <3>4, <3>5 DEF Left, NothingPutBack, SomethingDone
  <2>2. ASSUME NEW p \in Plan, Abort(p) \/ Return(p)
        PROVE  NothingPutBack /\ SomethingDone
    <3>1. /\ task' = task /\ layer' = layer /\ phase[p] = "running" /\ phase'[p] \in Ended
          /\ \A q \in Plan \ {p} : phase'[q] = phase[q]
      BY <2>2 DEF Abort, Return, Ended, TypeOK
    <3>2. \A q \in Plan : StepsLeft(q)' = StepsLeft(q) /\ LayersLeft(q)' = LayersLeft(q)
      BY <3>1 DEF StepsLeft, LayersLeft
    <3>3. EndsLeft(p)' = {} /\ EndsLeft(p) = {p}
      BY <3>1 DEF EndsLeft, Ended
    <3>4. \A q \in Plan : EndsLeft(q)' \subseteq EndsLeft(q)
      BY <3>1 DEF EndsLeft
    <3> QED
      BY <3>1, <3>2, <3>3, <3>4 DEF Left, NothingPutBack, SomethingDone
  <2>3. ASSUME NEW n \in Node,
               Admit(n) \/ Reject(n) \/ Dispatch(n) \/ FailProvision(n) \/ Settle(n)
               \/ Close(n)
        PROVE  NothingPutBack /\ SomethingDone
    <3>1. phase' = phase /\ layer' = layer
      BY <2>3 DEF Admit, Reject, Dispatch, FailProvision, Settle, Finish, TimeOut, Fault, Crash, Cancel,
                  Leave, Close
    <3>2. /\ task[n] \in {"waiting"} \cup Holding
          /\ \E s \in TaskState : /\ task' = [task EXCEPT ![n] = s]
                                  /\ Place[s] > Place[task[n]]
      <4>1. CASE Admit(n)
        BY <4>1, PlaceType DEF Admit, TaskState
      <4>2. CASE Reject(n)
        BY <4>2, PlaceType DEF Reject, TaskState, Ended
      <4>3. CASE Dispatch(n)
        BY <4>3, PlaceType DEF Dispatch, TaskState, Holding
      <4>6. CASE FailProvision(n)
        BY <4>6, PlaceType DEF FailProvision, TaskState, Holding, Ended
      <4>4. CASE Settle(n)
        <5>1. /\ task[n] = "executing"
              /\ \E s \in Closing : task' = [task EXCEPT ![n] = s]
          BY <4>4 DEF Settle, Finish, TimeOut, Fault, Crash, Cancel, Leave, Closing
        <5>2. Place[task[n]] = 3 /\ \A s \in Closing : s \in TaskState /\ Place[s] = 4
          BY <5>1, PlaceType DEF TaskState, Closing
        <5>3. PICK s \in Closing : task' = [task EXCEPT ![n] = s]
          BY <5>1
        <5>4. s \in TaskState /\ Place[s] > Place[task[n]]
          BY <5>2
        <5> QED
          BY <5>1, <5>3, <5>4 DEF Holding
      <4>5. CASE Close(n)
        <5>1. /\ task[n] \in Closing
              /\ \E s \in Ended : task' = [task EXCEPT ![n] = s]
          BY <4>5 DEF Close, Closing, Ended
        <5>2. Place[task[n]] = 4 /\ \A s \in Ended : s \in TaskState /\ Place[s] = 5
          BY <5>1, PlaceType DEF TaskState, Ended
        <5>3. PICK s \in Ended : task' = [task EXCEPT ![n] = s]
          BY <5>1
        <5>4. s \in TaskState /\ Place[s] > Place[task[n]]
          BY <5>2
        <5> QED
          BY <5>1, <5>3, <5>4 DEF Closing, Holding
      <4> QED
        BY <2>3, <4>1, <4>2, <4>3, <4>4, <4>5, <4>6
    <3>3. /\ Place[task'[n]] > Place[task[n]]
          /\ \A m \in Node \ {n} : task'[m] = task[m]
      BY <3>2 DEF TypeOK
    <3>4. /\ \A q \in Plan : StepsLeft(q)' \subseteq StepsLeft(q)
          /\ StepsLeft(PlanOf[n])' # StepsLeft(PlanOf[n])
      BY <2>0, <3>3, MoveShrinks
    <3>5. \A q \in Plan : LayersLeft(q)' = LayersLeft(q) /\ EndsLeft(q)' = EndsLeft(q)
      BY <3>1 DEF LayersLeft, EndsLeft
    <3>6. PlanOf[n] \in Plan /\ phase[PlanOf[n]] = "running"
      <4>1. CASE task[n] = "waiting"
        BY <4>1, WaitingMeansRunning, NodeFacts
      <4>2. CASE task[n] \in Holding
        BY <4>2, HoldersRun, NodeFacts DEF CanGoOn
      <4> QED
        BY <3>2, <4>1, <4>2
    <3> QED
      BY <3>4, <3>5, <3>6 DEF Left, NothingPutBack, SomethingDone
  <2>4. ASSUME NEW p \in Plan, Schedule(p)
        PROVE  NothingPutBack
    BY <2>4 DEF Schedule, StepsLeft, LayersLeft, EndsLeft, Ended, TypeOK, NothingPutBack
  <2>5. ASSUME UNCHANGED vars
        PROVE  NothingPutBack
    BY <2>5 DEF vars, StepsLeft, LayersLeft, EndsLeft, NothingPutBack
  <2> QED
    BY <1>1, <2>1, <2>2, <2>3, <2>4, <2>5 DEF Next, Progress, Quiet
<1>2. IInv /\ IInv' /\ [Next]_vars => [NothingPutBack /\ (Progress => SomethingDone)]_vars
  BY <1>1
<1>3. \A p \in Plan : IsFiniteSet(StepsLeft(p)) /\ IsFiniteSet(LayersLeft(p)) /\ IsFiniteSet(EndsLeft(p))
  BY WorkFinite
<1> QED
  BY <1>2, <1>3, InductiveInvariant, PTL DEF Spec, WorkRunsOut

=============================================================================
