-------------------------- MODULE LayeredExecution --------------------------
(***************************************************************************)
(* What the scheduler promises its callers, without saying how: every node *)
(* of a plan runs at most once, never before every node of the earlier     *)
(* layers has returned, and never more than Permits nodes at a time over   *)
(* all plans. A plan returns only when all of its nodes have returned; it  *)
(* raises only after a node has raised and the layer of that node has      *)
(* settled; and once a plan has returned or raised, nothing of it moves.   *)
(***************************************************************************)
EXTENDS Naturals, FiniteSets

CONSTANTS Plan, Node, PlanOf, LayerOf, Permits

VARIABLES
    phase,   \* phase[p]: the call that schedules plan p
    status   \* status[n]: the node, as the caller could observe it

vars == <<phase, status>>

Active == {n \in Node : status[n] = "active"}

Init ==
    /\ phase  = [p \in Plan |-> "idle"]
    /\ status = [n \in Node |-> "pending"]

Begin(p) ==
    /\ phase[p] = "idle"
    /\ phase' = [phase EXCEPT ![p] = "running"]
    /\ UNCHANGED status

\* The node is the plan's to start: its plan runs and its predecessors are done.
Startable(n) ==
    /\ phase[PlanOf[n]] = "running"
    /\ status[n] = "pending"
    /\ \A m \in Node :
          PlanOf[m] = PlanOf[n] /\ LayerOf[m] < LayerOf[n] => status[m] = "returned"

Activate(n) ==
    /\ Startable(n)
    /\ Cardinality(Active) < Permits
    /\ status' = [status EXCEPT ![n] = "active"]
    /\ UNCHANGED phase

\* A node may be turned away without ever running.
Refuse(n) ==
    /\ Startable(n)
    /\ status' = [status EXCEPT ![n] = "raised"]
    /\ UNCHANGED phase

Settle(n) ==
    /\ status[n] = "active"
    /\ \E s \in {"returned", "raised"} : status' = [status EXCEPT ![n] = s]
    /\ UNCHANGED phase

Return(p) ==
    /\ phase[p] = "running"
    /\ \A n \in Node : PlanOf[n] = p => status[n] = "returned"
    /\ phase' = [phase EXCEPT ![p] = "returned"]
    /\ UNCHANGED status

Raise(p) ==
    /\ phase[p] = "running"
    /\ \E r \in Node :
          /\ PlanOf[r] = p
          /\ status[r] = "raised"
          /\ \A n \in Node :
                PlanOf[n] = p =>
                    IF LayerOf[n] <= LayerOf[r]
                    THEN status[n] \in {"returned", "raised"}
                    ELSE status[n] = "pending"
    /\ phase' = [phase EXCEPT ![p] = "raised"]
    /\ UNCHANGED status

Next ==
    \/ \E p \in Plan : Begin(p) \/ Return(p) \/ Raise(p)
    \/ \E n \in Node : Activate(n) \/ Refuse(n) \/ Settle(n)

Spec == Init /\ [][Next]_vars

=============================================================================
