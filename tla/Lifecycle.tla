----------------------------- MODULE Lifecycle -----------------------------
(***************************************************************************)
(* The process control block (PCB) of kernel/lifecycle.py and the one      *)
(* operation on it: LifecycleManager.transition, which moves the block     *)
(* only along the allowance matrix and silently refuses any other move.    *)
(***************************************************************************)

ProcessState ==
    {"SPAWNED", "QUEUED", "EXECUTING", "UNDER_REVIEW", "TERMINATED"}

\* "NONE" is Python's None: the block has no termination reason yet.
TerminationReason == {"COMPLETED", "FAILED", "KILLED", "FAILED_OVER", "NONE"}

ProcessControlBlock == [state : ProcessState, reason : TerminationReason]

NewPCB == [state |-> "SPAWNED", reason |-> "NONE"]

VALID_TRANSITIONS ==
    [ SPAWNED      |-> {"QUEUED", "TERMINATED"},
      QUEUED       |-> {"EXECUTING", "TERMINATED"},
      EXECUTING    |-> {"UNDER_REVIEW", "TERMINATED"},
      UNDER_REVIEW |-> {"TERMINATED"},
      TERMINATED   |-> {} ]

\* A refused move returns the block as it was; a reason is kept only on the
\* way into TERMINATED.
transition(pcb, next, reason) ==
    IF next \in VALID_TRANSITIONS[pcb.state]
    THEN [state  |-> next,
          reason |-> IF next = "TERMINATED" THEN reason ELSE pcb.reason]
    ELSE pcb

=============================================================================
