--------------------------- MODULE CheckpointStore --------------------------
(***************************************************************************)
(* What the checkpoint manager promises its callers, without lock or file: *)
(* there is one checkpoint, and each save, delete and recovery meets it in *)
(* a single step between its call and its end. A save that fails, or that  *)
(* a kill meets under way, leaves nobody knows what, until a later save or *)
(* delete succeeds; nothing else makes the checkpoint uncertain. Recovery  *)
(* may fail to read it: then it says TERMINATE, whatever there is.         *)
(***************************************************************************)
EXTENDS Naturals

CONSTANTS Client, Snapshot, Missing, Unknown

VARIABLES
    content,   \* the snapshot saved last, Missing, or Unknown
    request,   \* request[c]: what c has asked for and not got yet, {} or one of
               \* a snapshot to save, "load" and "delete"
    advice,    \* advice[c]: what c was last told to do
    misreads   \* how many recoveries could not read the checkpoint

vars == <<content, request, advice, misreads>>

Init ==
    /\ content = Missing
    /\ request = [c \in Client |-> {}]
    /\ advice = [c \in Client |-> "nothing"]
    /\ misreads = 0

Ask(c) ==
    /\ request[c] = {}
    /\ \E o \in Snapshot \cup {"load", "delete"} : request' = [request EXCEPT ![c] = {o}]
    /\ advice' = [advice EXCEPT ![c] = "nothing"]
    /\ UNCHANGED <<content, misreads>>

\* Advice that needs no checkpoint.
Advise(c) ==
    /\ request[c] = {}
    /\ \E a \in {"RETRY", "HOT_SWAP"} : advice' = [advice EXCEPT ![c] = a]
    /\ UNCHANGED <<content, request, misreads>>

Answer(c, a) ==
    /\ request' = [request EXCEPT ![c] = {}]
    /\ advice' = [advice EXCEPT ![c] = a]

\* The save succeeds, fails before it has touched anything, or after.
Save(c) ==
    /\ \E s \in Snapshot : request[c] = {s} /\ content' \in {s, content, Unknown}
    /\ Answer(c, "nothing")
    /\ UNCHANGED misreads

Delete(c) ==
    /\ request[c] = {"delete"}
    /\ content' \in {Missing, content}
    /\ Answer(c, "nothing")
    /\ UNCHANGED misreads

\* Resume if and only if there is something to resume from, if that is known.
Recover(c) ==
    /\ request[c] = {"load"}
    /\ \/ content # Missing /\ Answer(c, "RESUME")
       \/ content \notin Snapshot /\ Answer(c, "TERMINATE")
    /\ UNCHANGED <<content, misreads>>

\* The checkpoint is there and cannot be read: the caller is told to terminate.
RecoverUnread(c) ==
    /\ request[c] = {"load"} /\ content # Missing
    /\ misreads' = misreads + 1
    /\ Answer(c, "TERMINATE")
    /\ UNCHANGED content

Kill ==
    /\ \/ UNCHANGED content
       \/ content' = Unknown /\ \E c \in Client, s \in Snapshot : request[c] = {s}
    /\ request' = [c \in Client |-> {}]
    /\ advice' = [c \in Client |-> "nothing"]
    /\ UNCHANGED misreads

Next ==
    \/ \E c \in Client :
          \/ Ask(c) \/ Advise(c) \/ Save(c) \/ Delete(c) \/ Recover(c) \/ RecoverUnread(c)
    \/ Kill

Spec == Init /\ [][Next]_vars

=============================================================================
