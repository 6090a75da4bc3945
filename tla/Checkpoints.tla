---------------------------- MODULE Checkpoints -----------------------------
(***************************************************************************)
(* CheckpointManager (storage/checkpoints.py) on a JSONStorageAdapter      *)
(* (storage/adapter.py), for one key: coroutines that save, delete and     *)
(* recover from a checkpoint take turns by an asyncio.Lock, which is fair. *)
(* Opening the file truncates it, the write is awaited, and a write that   *)
(* fails or is cut by a kill leaves the file truncated: no prefix of a     *)
(* snapshot is JSON. A save's caller is told the key whatever came of it.  *)
(***************************************************************************)
EXTENDS Naturals, Sequences

CONSTANTS
    Client,                  \* coroutines
    Snapshot,                \* valid against CheckpointSchema
    Missing, Torn,           \* no file; one cut short
    Unknown,                 \* see expected
    MaxBoots,                \* bound of the restarts
    MaxMisreads              \* bound of the loads that cannot read the file

ASSUME CheckpointsAssumption ==
    /\ Snapshot \cap {Missing, Torn, Unknown, "load", "delete"} = {}
    /\ Torn # Missing /\ Unknown \notin {Missing, Torn}
    /\ MaxBoots \in Nat /\ MaxMisreads \in Nat

VARIABLES
    boot,
    up,
    lock,       \* _lock: its holder, then those who wait for it
    op,         \* what a client does: a snapshot to save, "load" or "delete"
    at,         \* where it is
    file,
    expected,   \* history: what the file holds if nothing went wrong since, or
                \* Unknown after a save that failed or was cut short
    misreads    \* history: loads that could not read the file

vars == <<boot, up, lock, op, at, file, expected, misreads>>

Init ==
    /\ boot = 1 /\ up = TRUE
    /\ lock = <<>>
    /\ op = [c \in Client |-> "load"]
    /\ at = [c \in Client |-> "idle"]
    /\ file = Missing /\ expected = Missing /\ misreads = 0

-----------------------------------------------------------------------------

Idle(c) == up /\ at[c] \notin {"locking", "writing"}

Acquire(c, o) ==
    /\ op' = [op EXCEPT ![c] = o]
    /\ at' = [at EXCEPT ![c] = "locking"]
    /\ lock' = Append(lock, c)

\* create_checkpoint and the adapter's delete.
Call(c) ==
    /\ Idle(c)
    /\ \E o \in Snapshot \cup {"delete"} : Acquire(c, o)
    /\ UNCHANGED <<boot, up, file, expected, misreads>>

\* The caller's context tells what has been tried: two retries and a hot swap
\* come before the checkpoint is looked for.
execute_recovery_escalation(c) ==
    /\ Idle(c)
    /\ \E retry_count \in 0..2, hot_swap_attempted \in BOOLEAN :
          IF retry_count < 2 \/ ~hot_swap_attempted
          THEN /\ at' = [at EXCEPT ![c] = IF retry_count < 2 THEN "RETRY" ELSE "HOT_SWAP"]
               /\ UNCHANGED <<op, lock>>
          ELSE Acquire(c, "load")
    /\ UNCHANGED <<boot, up, file, expected, misreads>>

\* A lock that keeps nobody out.
HoldsWithOthers(c) == TRUE

Holds(c) == lock # <<>> /\ Head(lock) = c

Release(c, where) ==
    /\ lock' = Tail(lock)
    /\ at' = [at EXCEPT ![c] = where]
    /\ UNCHANGED <<boot, up, op>>

\* save: the file is opened,
Open(c) ==
    /\ up /\ at[c] = "locking" /\ Holds(c) /\ op[c] \in Snapshot
    /\ file' = Torn
    /\ at' = [at EXCEPT ![c] = "writing"]
    /\ UNCHANGED <<boot, up, lock, op, expected, misreads>>

\* or cannot be;
OpenFails(c) ==
    /\ up /\ at[c] = "locking" /\ Holds(c) /\ op[c] \in Snapshot
    /\ Release(c, "idle")
    /\ UNCHANGED <<file, expected, misreads>>

\* the snapshot is written,
Write(c) ==
    /\ up /\ at[c] = "writing"
    /\ file' = op[c] /\ expected' = op[c]
    /\ Release(c, "idle")
    /\ UNCHANGED misreads

\* or is not, and save returns False.
WriteFails(c) ==
    /\ up /\ at[c] = "writing"
    /\ file' = Torn /\ expected' = Unknown
    /\ Release(c, "idle")
    /\ UNCHANGED misreads

\* load: what is not JSON counts as no checkpoint,
Load(c) ==
    /\ up /\ at[c] = "locking" /\ Holds(c) /\ op[c] = "load"
    /\ Release(c, IF file \in Snapshot THEN "RESUME" ELSE "TERMINATE")
    /\ UNCHANGED <<file, expected, misreads>>

\* and so does a file that is there and cannot be read.
LoadFails(c) ==
    /\ up /\ at[c] = "locking" /\ Holds(c) /\ op[c] = "load" /\ file # Missing
    /\ misreads < MaxMisreads /\ misreads' = misreads + 1
    /\ Release(c, "TERMINATE")
    /\ UNCHANGED <<file, expected>>

delete(c) ==
    /\ up /\ at[c] = "locking" /\ Holds(c) /\ op[c] = "delete"
    /\ \/ file' = Missing /\ expected' = Missing
       \/ UNCHANGED <<file, expected>>
    /\ Release(c, "idle")
    /\ UNCHANGED misreads

Crash ==
    /\ up
    /\ up' = FALSE
    /\ IF \E c \in Client : at[c] = "writing"
       THEN /\ file' \in {Torn} \cup {op[c] : c \in {c \in Client : at[c] = "writing"}}
            /\ expected' = Unknown
       ELSE UNCHANGED <<file, expected>>
    /\ lock' = <<>>
    /\ at' = [c \in Client |-> "idle"]
    /\ UNCHANGED <<boot, op, misreads>>

Restart ==
    /\ ~up /\ boot < MaxBoots
    /\ up' = TRUE /\ boot' = boot + 1
    /\ UNCHANGED <<lock, op, at, file, expected, misreads>>

Next ==
    \/ \E c \in Client :
          \/ Call(c) \/ execute_recovery_escalation(c) \/ Open(c) \/ OpenFails(c)
          \/ Write(c) \/ WriteFails(c) \/ Load(c) \/ LoadFails(c) \/ delete(c)
    \/ Crash \/ Restart

Spec == Init /\ [][Next]_vars

-----------------------------------------------------------------------------
(* Properties.                                                             *)

Content == Snapshot \cup {Missing, Torn}

\* Every variable stays in its range.
TypeOK ==
    /\ boot \in Nat /\ up \in BOOLEAN
    /\ lock \in Seq(Client)
    /\ op \in [Client -> Snapshot \cup {"load", "delete"}]
    /\ at \in [Client -> {"idle", "locking", "writing", "RETRY", "HOT_SWAP", "RESUME",
                          "TERMINATE"}]
    /\ file \in Content /\ expected \in Snapshot \cup {Missing, Unknown}
    /\ misreads \in 0..MaxMisreads

\* A client's call under way, and what it was told, as CheckpointStore has them.
Request == [c \in Client |-> IF at[c] \in {"locking", "writing"} THEN {op[c]} ELSE {}]
Advice == [c \in Client |-> IF at[c] \in {"idle", "locking", "writing"} THEN "nothing" ELSE at[c]]

Store == INSTANCE CheckpointStore
            WITH content <- expected, request <- Request, advice <- Advice

\* The manager behaves like a store that each call meets in one step: nobody sees
\* a file another is writing, and recovery says RESUME if the last save or delete
\* left a snapshot and TERMINATE if it left none, across restarts. It may say either
\* once a save has failed or was cut short, and says TERMINATE, checkpoint or not,
\* when it cannot read the file.
ImplementsCheckpointStore == Store!Spec

=============================================================================
