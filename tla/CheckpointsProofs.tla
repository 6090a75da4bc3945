-------------------------- MODULE CheckpointsProofs -------------------------
(***************************************************************************)
(* Theorems of Checkpoints, for any coroutines, snapshots and number of    *)
(* restarts. The invariant says that a file being written has its writer   *)
(* at the head of the lock, and that a file nobody writes is as expected.  *)
(***************************************************************************)
EXTENDS Checkpoints, TLAPS

\* Only the lock's holder has the file open, and finds it truncated until it has
\* written its snapshot.
WriterHolds ==
    \A c \in Client : at[c] = "writing" =>
        lock # <<>> /\ Head(lock) = c /\ op[c] \in Snapshot /\ file = Torn

\* A file nobody writes holds what the last save or delete left, unless a save
\* failed or was cut short since.
FileAsExpected ==
    (\A c \in Client : at[c] # "writing") => expected = Unknown \/ file = expected

IInv == TypeOK /\ WriterHolds /\ FileAsExpected

-----------------------------------------------------------------------------
(* The lock is a queue of coroutines.                                      *)

\* What joining and leaving the queue make of it.
LEMMA QueueFacts ==
    ASSUME NEW s \in Seq(Client), NEW c \in Client
    PROVE  /\ Append(s, c) \in Seq(Client) /\ Append(s, c) # <<>>
           /\ s # <<>> => /\ Tail(s) \in Seq(Client)
                          /\ Head(Append(s, c)) = Head(s)
<1>1. Append(s, c) \in Seq(Client) /\ Append(s, c) # <<>>
  <2>1. Append(s, c) \in Seq(Client) /\ Len(Append(s, c)) = Len(s) + 1 /\ Len(s) \in Nat
    OBVIOUS
  <2> QED
    BY <2>1
<1>2. ASSUME s # <<>>
      PROVE  Tail(s) \in Seq(Client) /\ Head(Append(s, c)) = Head(s)
  <2>1. Tail(s) \in Seq(Client)
    BY <1>2
  <2>2. Len(s) \in Nat \ {0}
    BY <1>2
  <2>3. Append(s, c)[1] = s[1]
    BY <2>2
  <2>4. Head(s) = s[1] /\ Head(Append(s, c)) = Append(s, c)[1]
    BY <1>1, <1>2
  <2> QED
    BY <2>1, <2>3, <2>4
<1> QED
  BY <1>1, <1>2

\* The literals of op are no contents of the file.
LEMMA Names == Snapshot \cap {Missing, Torn, Unknown, "load", "delete"} = {} /\ Torn # Missing
  BY CheckpointsAssumption DEF CheckpointsAssumption

\* Joining the queue disturbs nobody.
LEMMA AcquireStep ==
    ASSUME IInv, NEW c \in Client, at[c] # "writing",
           NEW o \in Snapshot \cup {"load", "delete"}, Acquire(c, o),
           UNCHANGED <<boot, up, file, expected, misreads>>
    PROVE  IInv'
<1>1. /\ lock' = Append(lock, c) /\ lock' \in Seq(Client)
      /\ lock # <<>> => Head(lock') = Head(lock)
  BY QueueFacts DEF Acquire, IInv, TypeOK
<1>2. TypeOK'
  BY <1>1 DEF Acquire, IInv, TypeOK, Content
<1>3. \A d \in Client : /\ at'[d] = "writing" <=> at[d] = "writing"
                        /\ at[d] = "writing" => op'[d] = op[d]
  BY DEF Acquire, IInv, TypeOK
<1>4. WriterHolds'
  <2> SUFFICES ASSUME NEW d \in Client, at'[d] = "writing"
               PROVE  lock' # <<>> /\ Head(lock') = d /\ op'[d] \in Snapshot /\ file' = Torn
    BY DEF WriterHolds
  <2>1. lock # <<>> /\ Head(lock) = d /\ op[d] \in Snapshot /\ file = Torn
    BY <1>3 DEF IInv, WriterHolds
  <2>2. lock' # <<>>
    BY <1>1, QueueFacts DEF IInv, TypeOK
  <2> QED
    BY <1>1, <1>3, <2>1, <2>2
<1>5. FileAsExpected'
  BY <1>3 DEF IInv, FileAsExpected
<1> QED
  BY <1>2, <1>4, <1>5 DEF IInv

\* The holder leaves the queue and the file as it should be.
LEMMA ReleaseStep ==
    ASSUME IInv, NEW c \in Client, Holds(c),
           NEW w \in {"idle", "RESUME", "TERMINATE"}, Release(c, w),
           file' \in Content, expected' \in Snapshot \cup {Missing, Unknown},
           expected' = Unknown \/ file' = expected', misreads' \in 0..MaxMisreads
    PROVE  IInv'
<1>1. lock' \in Seq(Client)
  BY QueueFacts DEF Release, Holds, IInv, TypeOK
<1>2. TypeOK'
  BY <1>1 DEF Release, IInv, TypeOK
<1>3. \A d \in Client : at'[d] # "writing"
  BY DEF Release, Holds, IInv, TypeOK, WriterHolds
<1> QED
  BY <1>2, <1>3 DEF IInv, WriterHolds, FileAsExpected

\* While the holder has not opened the file nobody writes it.
LEMMA NobodyWrites ==
    ASSUME IInv, NEW c \in Client, at[c] = "locking", Holds(c)
    PROVE  /\ \A d \in Client : at[d] # "writing"
           /\ expected = Unknown \/ file = expected
  BY DEF Holds, IInv, WriterHolds, FileAsExpected

-----------------------------------------------------------------------------
(* The theorems.                                                           *)

\* The invariant holds initially.
LEMMA InvariantInit == Init => IInv
  BY CheckpointsAssumption DEF CheckpointsAssumption, Init, IInv, TypeOK, Content, WriterHolds, FileAsExpected

\* Each step keeps the invariant.
LEMMA InvariantStep == IInv /\ [Next]_vars => IInv'
<1> SUFFICES ASSUME IInv, [Next]_vars
             PROVE  IInv'
  OBVIOUS
<1>1. ASSUME NEW c \in Client, Call(c)
      PROVE  IInv'
  BY <1>1, AcquireStep DEF Call, Idle
<1>2. ASSUME NEW c \in Client, execute_recovery_escalation(c)
      PROVE  IInv'
  <2>1. CASE Acquire(c, "load")
    BY <1>2, <2>1, AcquireStep DEF execute_recovery_escalation, Idle
  <2>2. CASE /\ at' \in {[at EXCEPT ![c] = "RETRY"], [at EXCEPT ![c] = "HOT_SWAP"]}
             /\ UNCHANGED <<op, lock, boot, up, file, expected, misreads>>
    <3>1. TypeOK'
      BY <2>2 DEF IInv, TypeOK
    <3>2. \A d \in Client : at'[d] = "writing" <=> at[d] = "writing"
      BY <1>2, <2>2 DEF IInv, TypeOK, execute_recovery_escalation, Idle
    <3> QED
      BY <2>2, <3>1, <3>2 DEF IInv, WriterHolds, FileAsExpected
  <2> QED
    BY <1>2, <2>1, <2>2 DEF execute_recovery_escalation
<1>3. ASSUME NEW c \in Client, Open(c)
      PROVE  IInv'
  <2>1. TypeOK'
    BY <1>3 DEF Open, IInv, TypeOK, Content
  <2>2. at'[c] = "writing" /\ \A d \in Client \ {c} : at'[d] # "writing"
    BY <1>3, NobodyWrites DEF Open, IInv, TypeOK
  <2> QED
    BY <1>3, <2>1, <2>2 DEF Open, Holds, IInv, WriterHolds, FileAsExpected
<1>4. ASSUME NEW c \in Client, OpenFails(c) \/ Load(c) \/ LoadFails(c)
      PROVE  IInv'
  <2>1. /\ at[c] = "locking" /\ Holds(c) /\ UNCHANGED <<file, expected>>
        /\ \E w \in {"idle", "RESUME", "TERMINATE"} : Release(c, w)
    BY <1>4 DEF OpenFails, Load, LoadFails
  <2>2. misreads' \in 0..MaxMisreads
    <3>1. misreads \in 0..MaxMisreads /\ MaxMisreads \in Nat
      BY CheckpointsAssumption DEF CheckpointsAssumption, IInv, TypeOK
    <3>2. misreads' = misreads \/ (misreads < MaxMisreads /\ misreads' = misreads + 1)
      BY <1>4 DEF OpenFails, Load, LoadFails
    <3> QED
      BY <3>1, <3>2
  <2> QED
    BY <2>1, <2>2, NobodyWrites, ReleaseStep DEF IInv, TypeOK
<1>5. ASSUME NEW c \in Client, Write(c) \/ WriteFails(c)
      PROVE  IInv'
  <2>1. Holds(c) /\ op[c] \in Snapshot
    BY <1>5 DEF Write, WriteFails, Holds, IInv, WriterHolds
  <2>2. Release(c, "idle") /\ file' \in Content
    BY <1>5, <2>1 DEF Write, WriteFails, Content
  <2>3. /\ expected' \in Snapshot \cup {Missing, Unknown}
        /\ expected' = Unknown \/ file' = expected'
    BY <1>5, <2>1 DEF Write, WriteFails
  <2>4. misreads' \in 0..MaxMisreads
    BY <1>5 DEF Write, WriteFails, IInv, TypeOK
  <2> QED
    BY <2>1, <2>2, <2>3, <2>4, ReleaseStep
<1>6. ASSUME NEW c \in Client, delete(c)
      PROVE  IInv'
  <2>1. Holds(c) /\ Release(c, "idle") /\ at[c] = "locking"
    BY <1>6 DEF delete
  <2>2. /\ file' \in Content /\ expected' \in Snapshot \cup {Missing, Unknown}
        /\ expected' = Unknown \/ file' = expected'
    BY <1>6, <2>1, NobodyWrites DEF delete, IInv, TypeOK, Content
  <2>3. misreads' \in 0..MaxMisreads
    BY <1>6 DEF delete, IInv, TypeOK
  <2> QED
    BY <2>1, <2>2, <2>3, ReleaseStep
<1>7. CASE Crash
  <2>1. /\ file' \in Content /\ expected' \in Snapshot \cup {Missing, Unknown}
        /\ expected' = Unknown \/ file' = expected'
    <3>1. CASE \E c \in Client : at[c] = "writing"
      <4>1. expected' = Unknown
        BY <1>7, <3>1 DEF Crash
      <4>2. file' \in {Torn} \cup {op[c] : c \in {d \in Client : at[d] = "writing"}}
        BY <1>7, <3>1 DEF Crash
      <4>3. \A c \in Client : at[c] = "writing" => op[c] \in Snapshot
        BY DEF IInv, WriterHolds
      <4> QED
        BY <4>1, <4>2, <4>3 DEF Content
    <3>2. CASE \A c \in Client : at[c] # "writing"
      BY <1>7, <3>2 DEF Crash, IInv, TypeOK, FileAsExpected
    <3> QED
      BY <3>1, <3>2
  <2>2. /\ lock' = <<>> /\ at' = [c \in Client |-> "idle"]
        /\ up' = FALSE /\ UNCHANGED <<boot, op, misreads>>
    BY <1>7 DEF Crash
  <2>3. TypeOK'
    <3>1. lock' \in Seq(Client) /\ at' \in [Client -> {"idle"}]
      BY <2>2
    <3> QED
      BY <2>1, <2>2, <3>1 DEF IInv, TypeOK
  <2> QED
    BY <2>1, <2>2, <2>3 DEF IInv, WriterHolds, FileAsExpected
<1>8. CASE Restart
  BY <1>8 DEF Restart, IInv, TypeOK, WriterHolds, FileAsExpected
<1>9. CASE UNCHANGED vars
  BY <1>9 DEF vars, IInv, TypeOK, WriterHolds, FileAsExpected
<1> QED
  BY <1>1, <1>2, <1>3, <1>4, <1>5, <1>6, <1>7, <1>8, <1>9 DEF Next

\* The invariant holds in every state.
LEMMA InductiveInvariant == Spec => []IInv
  BY InvariantInit, InvariantStep, PTL DEF Spec

\* THEOREM: every variable stays in its range.
THEOREM TypeCorrect == Spec => []TypeOK
<1>1. IInv => TypeOK
  BY DEF IInv
<1> QED
  BY <1>1, InductiveInvariant, PTL

\* No two coroutines have the file open, and the one that has it holds the lock.
OneWriter ==
    \A c, d \in Client : at[c] = "writing" /\ at[d] = "writing" => c = d /\ Holds(c)

\* THEOREM: saves never overlap, across kills and restarts.
THEOREM WritersExcluded == Spec => []OneWriter
<1>1. IInv => OneWriter
  BY DEF IInv, WriterHolds, OneWriter, Holds
<1> QED
  BY <1>1, InductiveInvariant, PTL

\* A recovery that can read the checkpoint resumes if there is one.
RecoveryFindsCheckpoint ==
    [][ \A c \in Client :
          at[c] = "locking" /\ at'[c] \in {"RESUME", "TERMINATE"} =>
              /\ expected \in Snapshot /\ misreads' = misreads => at'[c] = "RESUME"
              /\ expected = Missing => at'[c] = "TERMINATE" ]_vars

\* THEOREM: recovery says RESUME if the last save or delete left a snapshot and the
\* file can be read, and TERMINATE if it left none, unless a save has failed or was
\* cut short by a kill since.
THEOREM RecoveryCorrect == Spec => RecoveryFindsCheckpoint
<1>1. ASSUME IInv, [Next]_vars, NEW c \in Client, at[c] = "locking",
             at'[c] \in {"RESUME", "TERMINATE"}
      PROVE  /\ expected \in Snapshot /\ misreads' = misreads => at'[c] = "RESUME"
             /\ expected = Missing => at'[c] = "TERMINATE"
  <2>1. Load(c) \/ LoadFails(c)
    <3>0. at \in [Client -> {"idle", "locking", "writing", "RETRY", "HOT_SWAP", "RESUME",
                            "TERMINATE"}]
      BY <1>1 DEF IInv, TypeOK
    <3>1. ASSUME NEW d \in Client, d # c,
                 \/ Call(d) \/ execute_recovery_escalation(d) \/ Open(d) \/ OpenFails(d)
                 \/ Write(d) \/ WriteFails(d) \/ Load(d) \/ LoadFails(d) \/ delete(d)
          PROVE  at'[c] = at[c]
      <4>1. \E w : at' = [at EXCEPT ![d] = w]
        BY <3>1 DEF Call, execute_recovery_escalation, Acquire, Open, OpenFails, Write,
                    WriteFails, Load, LoadFails, delete, Release
      <4> QED
        BY <3>0, <3>1, <4>1
    <3>2. ASSUME \/ Call(c) \/ execute_recovery_escalation(c) \/ Write(c) \/ WriteFails(c)
          PROVE  FALSE
      BY <1>1, <3>2 DEF Call, execute_recovery_escalation, Idle, Write, WriteFails
    <3>3. ASSUME Open(c) \/ OpenFails(c) \/ delete(c)
          PROVE  at'[c] \notin {"RESUME", "TERMINATE"}
      <4>1. \E w \in {"writing", "idle"} : at' = [at EXCEPT ![c] = w]
        BY <3>3 DEF Open, OpenFails, delete, Release
      <4> QED
        BY <3>0, <4>1
    <3>4. CASE Crash \/ Restart \/ UNCHANGED vars
      BY <1>1, <3>4 DEF Crash, Restart, vars
    <3> QED
      BY <1>1, <3>1, <3>2, <3>3, <3>4 DEF Next
  <2>2. expected = Unknown \/ file = expected
    BY <1>1, <2>1, NobodyWrites DEF Load, LoadFails
  <2>3. /\ file \in Snapshot /\ misreads' = misreads => at'[c] = "RESUME"
        /\ file = Missing => at'[c] = "TERMINATE"
    <3>1. CASE Load(c)
      <4>1. at'[c] = IF file \in Snapshot THEN "RESUME" ELSE "TERMINATE"
        BY <1>1, <3>1 DEF Load, Release, IInv, TypeOK
      <4>2. Missing \notin Snapshot
        BY CheckpointsAssumption DEF CheckpointsAssumption
      <4> QED
        BY <4>1, <4>2
    <3>2. CASE LoadFails(c)
      <4>1. misreads' = misreads + 1 /\ misreads \in Nat
        BY <1>1, <3>2 DEF LoadFails, IInv, TypeOK
      <4>2. at'[c] = "TERMINATE"
        BY <1>1, <3>2 DEF LoadFails, Release, IInv, TypeOK
      <4> QED
        BY <4>1, <4>2
    <3> QED
      BY <2>1, <3>1, <3>2
  <2>4. Missing \notin Snapshot /\ Unknown \notin Snapshot /\ Unknown # Missing
    BY CheckpointsAssumption DEF CheckpointsAssumption
  <2> QED
    BY <2>2, <2>3, <2>4
<1>2. IInv /\ [Next]_vars =>
        [\A c \in Client :
          at[c] = "locking" /\ at'[c] \in {"RESUME", "TERMINATE"} =>
              /\ expected \in Snapshot /\ misreads' = misreads => at'[c] = "RESUME"
              /\ expected = Missing => at'[c] = "TERMINATE"]_vars
  BY <1>1
<1> QED
  BY <1>2, InductiveInvariant, PTL DEF Spec, RecoveryFindsCheckpoint


-----------------------------------------------------------------------------
(* The refinement: the manager implements CheckpointStore. Opening the     *)
(* file and restarting are steps the store does not see.                   *)

\* A client that starts or ends a wait changes its own request and advice.
LEMMA MappingMoves ==
    ASSUME TypeOK, NEW c \in Client, NEW w, at' = [at EXCEPT ![c] = w],
           NEW o, op' = [op EXCEPT ![c] = o]
    PROVE  /\ Request' = [Request EXCEPT ![c] = IF w \in {"locking", "writing"} THEN {o} ELSE {}]
           /\ Advice' = [Advice EXCEPT ![c] =
                            IF w \in {"idle", "locking", "writing"} THEN "nothing" ELSE w]
<1>1. /\ at'[c] = w /\ op'[c] = o
      /\ \A d \in Client \ {c} : at'[d] = at[d] /\ op'[d] = op[d]
  BY DEF TypeOK
<1> QED
  BY <1>1 DEF Request, Advice

\* The same for a step that leaves the requests' contents alone.
LEMMA AnswerMoves ==
    ASSUME TypeOK, NEW c \in Client, NEW w, at' = [at EXCEPT ![c] = w], op' = op
    PROVE  /\ Request' = [Request EXCEPT ![c] = IF w \in {"locking", "writing"} THEN {op[c]} ELSE {}]
           /\ Advice' = [Advice EXCEPT ![c] =
                            IF w \in {"idle", "locking", "writing"} THEN "nothing" ELSE w]
<1>1. op' = [op EXCEPT ![c] = op[c]]
  BY DEF TypeOK
<1> QED
  BY <1>1, MappingMoves

\* A client that queues asks the store.
LEMMA AcquireAsks ==
    ASSUME TypeOK, NEW c \in Client, Idle(c), NEW o \in Snapshot \cup {"load", "delete"},
           Acquire(c, o), expected' = expected, misreads' = misreads
    PROVE  Store!Ask(c)
<1>1. Request[c] = {}
  BY DEF Idle, Request
<1>2. /\ Request' = [Request EXCEPT ![c] = {o}]
      /\ Advice' = [Advice EXCEPT ![c] = "nothing"]
  BY MappingMoves DEF Acquire
<1> QED
  BY <1>1, <1>2 DEF Store!Ask

\* A client that leaves the lock gets its answer.
LEMMA ReleaseAnswers ==
    ASSUME TypeOK, NEW c \in Client, NEW w \in {"idle", "RESUME", "TERMINATE"},
           Release(c, w)
    PROVE  Store!Answer(c, IF w = "idle" THEN "nothing" ELSE w)
  BY AnswerMoves DEF Release, Store!Answer

\* What the store sees of a client with the lock is what it has asked for.
LEMMA LockedRequest ==
    ASSUME NEW c \in Client, at[c] \in {"locking", "writing"}
    PROVE  Request[c] = {op[c]}
  BY DEF Request

\* Each step is one of the store, or none.
LEMMA StepRefines == IInv /\ [Next]_vars => [Store!Next]_Store!vars
<1> SUFFICES ASSUME IInv, [Next]_vars
             PROVE  Store!Next \/ UNCHANGED Store!vars
  OBVIOUS
<1>0. TypeOK
  BY DEF IInv
<1>1. ASSUME NEW c \in Client, Call(c)
      PROVE  Store!Ask(c)
  BY <1>0, <1>1, AcquireAsks DEF Call
<1>2. ASSUME NEW c \in Client, execute_recovery_escalation(c)
      PROVE  Store!Ask(c) \/ Store!Advise(c)
  <2>1. CASE Acquire(c, "load")
    BY <1>0, <1>2, <2>1, AcquireAsks DEF execute_recovery_escalation
  <2>2. ASSUME NEW a \in {"RETRY", "HOT_SWAP"}, at' = [at EXCEPT ![c] = a], op' = op
        PROVE  Store!Advise(c)
    <3>1. Request[c] = {} /\ Request \in [Client -> {Request[d] : d \in Client}]
      BY <1>2 DEF execute_recovery_escalation, Idle, Request
    <3>2. /\ Request' = [Request EXCEPT ![c] = {}]
          /\ Advice' = [Advice EXCEPT ![c] = a]
      BY <1>0, <2>2, AnswerMoves
    <3>3. Request' = Request
      BY <3>1, <3>2
    <3> QED
      BY <1>2, <3>1, <3>2, <3>3 DEF execute_recovery_escalation, Store!Advise
  <2> QED
    BY <1>2, <2>1, <2>2 DEF execute_recovery_escalation
<1>3. ASSUME NEW c \in Client, Open(c)
      PROVE  UNCHANGED Store!vars
  <2>1. \A d \in Client : /\ at'[d] \in {"locking", "writing"} <=> at[d] \in {"locking", "writing"}
                          /\ at'[d] \notin {"locking", "writing"} => at'[d] = at[d]
    BY <1>0, <1>3 DEF Open, TypeOK
  <2>2. Request' = Request
    BY <1>3, <2>1 DEF Open, Request
  <2>3. Advice' = Advice
    BY <2>1 DEF Advice
  <2> QED
    BY <1>3, <2>2, <2>3 DEF Open, Store!vars
<1>4. ASSUME NEW c \in Client, OpenFails(c) \/ Write(c) \/ WriteFails(c)
      PROVE  Store!Save(c)
  <2>1. Release(c, "idle") /\ op[c] \in Snapshot /\ at[c] \in {"locking", "writing"}
    BY <1>4 DEF OpenFails, Write, WriteFails, IInv, WriterHolds
  <2>2. Store!Answer(c, "nothing")
    BY <1>0, <2>1, ReleaseAnswers
  <2>3. Request[c] = {op[c]}
    BY <2>1, LockedRequest
  <2>4. expected' \in {op[c], expected, Unknown}
    BY <1>4 DEF OpenFails, Write, WriteFails
  <2>5. misreads' = misreads
    BY <1>4 DEF OpenFails, Write, WriteFails
  <2> QED
    BY <2>1, <2>2, <2>3, <2>4, <2>5 DEF Store!Save
<1>5. ASSUME NEW c \in Client, Load(c) \/ LoadFails(c)
      PROVE  Store!Recover(c) \/ Store!RecoverUnread(c)
  <2>1. /\ at[c] = "locking" /\ Holds(c) /\ op[c] = "load" /\ expected' = expected
        /\ \/ Release(c, "RESUME") /\ file \in Snapshot /\ misreads' = misreads
           \/ Release(c, "TERMINATE") /\ file \notin Snapshot /\ misreads' = misreads
           \/ Release(c, "TERMINATE") /\ file # Missing /\ misreads' = misreads + 1
    BY <1>5 DEF Load, LoadFails
  <2>2. expected = Unknown \/ file = expected
    BY <2>1, NobodyWrites
  <2>3. Unknown \notin Snapshot /\ Unknown # Missing /\ Missing \notin Snapshot
    BY CheckpointsAssumption
  <2>4. Request[c] = {"load"}
    BY <2>1, LockedRequest
  <2>5. CASE Release(c, "RESUME") /\ file \in Snapshot /\ misreads' = misreads
    <3>1. Store!Answer(c, "RESUME") /\ expected # Missing
      BY <1>0, <2>2, <2>3, <2>5, ReleaseAnswers
    <3> QED
      BY <2>1, <2>4, <2>5, <3>1 DEF Store!Recover
  <2>6. CASE Release(c, "TERMINATE") /\ file \notin Snapshot /\ misreads' = misreads
    <3>1. Store!Answer(c, "TERMINATE") /\ expected \notin Snapshot
      BY <1>0, <2>2, <2>3, <2>6, ReleaseAnswers
    <3> QED
      BY <2>1, <2>4, <2>6, <3>1 DEF Store!Recover
  <2>7. CASE Release(c, "TERMINATE") /\ file # Missing /\ misreads' = misreads + 1
    <3>1. Store!Answer(c, "TERMINATE") /\ expected # Missing
      BY <1>0, <2>2, <2>3, <2>7, ReleaseAnswers
    <3> QED
      BY <2>1, <2>4, <2>7, <3>1 DEF Store!RecoverUnread
  <2> QED
    BY <2>1, <2>5, <2>6, <2>7
<1>6. ASSUME NEW c \in Client, delete(c)
      PROVE  Store!Delete(c)
  <2>1. /\ Release(c, "idle") /\ at[c] = "locking" /\ op[c] = "delete"
        /\ expected' \in {Missing, expected} /\ misreads' = misreads
    BY <1>6 DEF delete
  <2>2. Store!Answer(c, "nothing") /\ Request[c] = {"delete"}
    BY <1>0, <2>1, ReleaseAnswers, LockedRequest
  <2> QED
    BY <2>1, <2>2 DEF Store!Delete
<1>7. CASE Crash
  <2>1. /\ Request' = [c \in Client |-> {}]
        /\ Advice' = [c \in Client |-> "nothing"]
    BY <1>7 DEF Crash, Request, Advice
  <2>2. expected' = expected \/ (expected' = Unknown /\ \E c \in Client : at[c] = "writing")
    BY <1>7 DEF Crash
  <2>4. misreads' = misreads
    BY <1>7 DEF Crash
  <2>3. ASSUME NEW c \in Client, at[c] = "writing"
        PROVE  op[c] \in Snapshot /\ Request[c] = {op[c]}
    BY <2>3, LockedRequest DEF IInv, WriterHolds
  <2> QED
    BY <2>1, <2>2, <2>3, <2>4 DEF Store!Kill, Store!Next
<1>8. CASE Restart \/ UNCHANGED vars
  BY <1>8 DEF Restart, vars, Store!vars, Request, Advice
<1> QED
  BY <1>1, <1>2, <1>3, <1>4, <1>5, <1>6, <1>7, <1>8 DEF Next, Store!Next

\* THEOREM: whatever the coroutines, failures, kills and restarts, the manager is
\* a store that each call meets in one step.
THEOREM ManagerRefinesStore == Spec => ImplementsCheckpointStore
<1>1. Init => Store!Init
  BY DEF Init, Store!Init, Request, Advice
<1> QED
  BY <1>1, StepRefines, InductiveInvariant, PTL
     DEF Spec, ImplementsCheckpointStore, Store!Spec

-----------------------------------------------------------------------------
(* Progress: nobody waits for the lock for ever while the process lives.   *)
(* Those who wait are in the queue, once each; its head can always go on;  *)
(* and nobody overtakes anybody.                                           *)

Waits(c) == at[c] \in {"locking", "writing"}

InPlace(c, i) == i \in DOMAIN lock /\ lock[i] = c

\* The queue has those who wait, each of them once.
QueueOK ==
    /\ \A i \in DOMAIN lock : Waits(lock[i])
    /\ \A i, j \in DOMAIN lock : lock[i] = lock[j] => i = j
    /\ \A c \in Client : Waits(c) => \E i \in DOMAIN lock : lock[i] = c

\* The guards of Write and WriteFails, of Open and OpenFails, of Load, of delete.
CanWrite(c) == at[c] = "writing"
CanOpen(c) == at[c] = "locking" /\ Holds(c) /\ op[c] \in Snapshot
CanLoad(c) == at[c] = "locking" /\ Holds(c) /\ op[c] = "load"
CanDelete(c) == at[c] = "locking" /\ Holds(c) /\ op[c] = "delete"

HolderGoesOn ==
    \A c \in Client : InPlace(c, 1) => CanWrite(c) \/ CanOpen(c) \/ CanLoad(c) \/ CanDelete(c)

\* All keep their places, or the first leaves and the others move up.
Stay == \A c \in Client, i \in Nat : InPlace(c, i) => InPlace(c, i)'

MoveUp ==
    \A c \in Client, i \in Nat : InPlace(c, i) =>
        IF i = 1 THEN ~Waits(c)' ELSE InPlace(c, i - 1)'

\* The steps with the lock: of save, load and delete.
LockedStep(c) ==
    \/ Open(c) \/ OpenFails(c) \/ Write(c) \/ WriteFails(c) \/ Load(c) \/ LoadFails(c)
    \/ delete(c)

\* Short of a kill, nobody overtakes anybody, and whoever has the lock opens the
\* file or leaves.
TakeTurns ==
    /\ ~up' \/ Stay \/ MoveUp
    /\ \A c \in Client : LockedStep(c) =>
          /\ InPlace(c, 1)
          /\ (at[c] = "locking" /\ at'[c] = "writing") \/ MoveUp

\* What Append and Tail do to the places.
LEMMA PlaceFacts ==
    ASSUME NEW s \in Seq(Client), NEW c \in Client
    PROVE  /\ Len(s) \in Nat /\ DOMAIN s = 1 .. Len(s)
           /\ DOMAIN Append(s, c) = 1 .. Len(s) + 1
           /\ \A i \in 1 .. Len(s) : Append(s, c)[i] = s[i]
           /\ Append(s, c)[Len(s) + 1] = c
           /\ s # <<>> => /\ Len(s) >= 1 /\ Head(s) = s[1]
                          /\ DOMAIN Tail(s) = 1 .. Len(s) - 1
                          /\ \A i \in 1 .. Len(s) - 1 : Tail(s)[i] = s[i + 1]
  OBVIOUS

\* Whoever queues takes the last place.
LEMMA AcquireQueues ==
    ASSUME IInv, QueueOK, NEW c \in Client, ~Waits(c),
           NEW o \in Snapshot \cup {"load", "delete"}, Acquire(c, o)
    PROVE  QueueOK' /\ Stay
<1> DEFINE n == Len(lock)
<1>1. /\ n \in Nat /\ DOMAIN lock = 1 .. n /\ DOMAIN lock' = 1 .. n + 1
      /\ \A i \in 1 .. n : lock'[i] = lock[i] /\ lock[i] \in Client
      /\ lock'[n + 1] = c
  BY PlaceFacts DEF Acquire, IInv, TypeOK
<1>2. Waits(c)' /\ \A d \in Client \ {c} : Waits(d)' <=> Waits(d)
  BY DEF Waits, Acquire, IInv, TypeOK
<1> HIDE DEF n
<1>3. \A i \in 1 .. n : Waits(lock[i]) /\ lock[i] # c
  BY <1>1 DEF QueueOK
<1>4. \A i \in DOMAIN lock' : at'[lock'[i]] \in {"locking", "writing"}
  <2> SUFFICES ASSUME NEW i \in 1 .. n + 1 PROVE at'[lock'[i]] \in {"locking", "writing"}
    BY <1>1
  <2>1. lock'[i] \in Client /\ (lock'[i] = c \/ Waits(lock'[i]))
    BY <1>1, <1>3
  <2> QED
    BY <1>2, <2>1 DEF Waits
<1>5. \A i, j \in DOMAIN lock' : lock'[i] = lock'[j] => i = j
  BY <1>1, <1>3 DEF QueueOK
<1>6. \A d \in Client : Waits(d)' => \E i \in DOMAIN lock' : lock'[i] = d
  BY <1>1, <1>2 DEF QueueOK
<1>7. Stay
  BY <1>1 DEF Stay, InPlace
<1> QED
  BY <1>4, <1>5, <1>6, <1>7 DEF QueueOK, Waits

\* When the holder leaves all move up.
LEMMA ReleaseMovesUp ==
    ASSUME IInv, QueueOK, NEW c \in Client, Holds(c),
           NEW w \in {"idle", "RESUME", "TERMINATE"}, Release(c, w)
    PROVE  QueueOK' /\ InPlace(c, 1) /\ MoveUp
<1> DEFINE n == Len(lock)
<1>1. /\ n \in Nat /\ n >= 1 /\ DOMAIN lock = 1 .. n /\ DOMAIN lock' = 1 .. n - 1
      /\ \A i \in 1 .. n - 1 : lock'[i] = lock[i + 1]
      /\ \A i \in 1 .. n : lock[i] \in Client
      /\ lock[1] = c
  BY PlaceFacts DEF Release, Holds, IInv, TypeOK
<1>2. ~Waits(c)' /\ \A d \in Client \ {c} : Waits(d)' <=> Waits(d)
  BY DEF Waits, Release, IInv, TypeOK
<1> HIDE DEF n
<1>3. \A i \in 1 .. n : lock[i] = c <=> i = 1
  BY <1>1 DEF QueueOK
<1>4. \A i \in DOMAIN lock' : at'[lock'[i]] \in {"locking", "writing"}
  <2> SUFFICES ASSUME NEW i \in 1 .. n - 1 PROVE at'[lock'[i]] \in {"locking", "writing"}
    BY <1>1
  <2>1. i + 1 \in 1 .. n /\ i + 1 # 1
    BY <1>1
  <2>2. lock[i + 1] \in Client \ {c} /\ Waits(lock[i + 1])
    BY <1>1, <1>3, <2>1 DEF QueueOK
  <2> QED
    BY <1>1, <1>2, <2>2 DEF Waits
<1>5. \A i, j \in DOMAIN lock' : lock'[i] = lock'[j] => i = j
  <2> SUFFICES ASSUME NEW i \in 1 .. n - 1, NEW j \in 1 .. n - 1, lock'[i] = lock'[j]
               PROVE  i = j
    BY <1>1
  <2>1. i + 1 \in DOMAIN lock /\ j + 1 \in DOMAIN lock /\ lock[i + 1] = lock[j + 1]
    BY <1>1
  <2>2. i + 1 = j + 1
    BY <2>1 DEF QueueOK
  <2> QED
    BY <1>1, <2>2
<1>6. \A d \in Client : Waits(d)' => \E i \in DOMAIN lock' : lock'[i] = d
  <2> SUFFICES ASSUME NEW d \in Client, Waits(d)'
               PROVE  \E i \in DOMAIN lock' : lock'[i] = d
    OBVIOUS
  <2>1. d # c /\ Waits(d)
    BY <1>2
  <2>2. PICK i \in 1 .. n : lock[i] = d
    BY <1>1, <2>1 DEF QueueOK
  <2>3. i # 1 /\ i - 1 \in 1 .. n - 1 /\ (i - 1) + 1 = i
    BY <1>1, <2>1, <2>2
  <2> QED
    BY <1>1, <2>2, <2>3
<1>7. MoveUp
  <2> SUFFICES ASSUME NEW d \in Client, NEW i \in 1 .. n, lock[i] = d
               PROVE  IF i = 1 THEN ~Waits(d)' ELSE InPlace(d, i - 1)'
    BY <1>1 DEF MoveUp, InPlace
  <2>1. CASE i = 1
    BY <1>1, <1>2, <2>1
  <2>2. CASE i # 1
    <3>1. i - 1 \in 1 .. n - 1 /\ (i - 1) + 1 = i
      BY <1>1, <2>2
    <3> QED
      BY <1>1, <2>2, <3>1 DEF InPlace
  <2> QED
    BY <2>1, <2>2
<1> QED
  BY <1>1, <1>4, <1>5, <1>6, <1>7 DEF QueueOK, InPlace, Waits

\* Each step leaves the queue as it should be, and takes turns.
LEMMA QueueStep == IInv /\ QueueOK /\ [Next]_vars => QueueOK' /\ TakeTurns
<1> SUFFICES ASSUME IInv, QueueOK, [Next]_vars
             PROVE  QueueOK' /\ TakeTurns
  OBVIOUS
<1>1. ASSUME lock' = lock, \A d \in Client : Waits(d)' <=> Waits(d)
      PROVE  QueueOK' /\ Stay
  <2>1. \A i \in DOMAIN lock : lock[i] \in Client
    BY DEF IInv, TypeOK
  <2> QED
    BY <1>1, <2>1 DEF QueueOK, Stay, InPlace
<1>2. ASSUME NEW c \in Client, OpenFails(c) \/ Write(c) \/ WriteFails(c) \/ Load(c)
                               \/ LoadFails(c) \/ delete(c)
      PROVE  QueueOK' /\ InPlace(c, 1) /\ MoveUp
  <2>1. Holds(c)
    BY <1>2 DEF OpenFails, Write, WriteFails, Load, LoadFails, delete, Holds, IInv, WriterHolds
  <2>2. \E w \in {"idle", "RESUME", "TERMINATE"} : Release(c, w)
    BY <1>2 DEF OpenFails, Write, WriteFails, Load, LoadFails, delete
  <2> QED
    BY <2>1, <2>2, ReleaseMovesUp
<1>3. ASSUME NEW c \in Client, Open(c)
      PROVE  /\ QueueOK' /\ Stay
             /\ InPlace(c, 1) /\ at[c] = "locking" /\ at'[c] = "writing"
  <2>1. lock' = lock /\ at[c] = "locking" /\ at'[c] = "writing"
    BY <1>3 DEF Open, IInv, TypeOK
  <2>2. \A d \in Client : Waits(d)' <=> Waits(d)
    BY <1>3 DEF Open, Waits, IInv, TypeOK
  <2>3. InPlace(c, 1)
    BY <1>3, PlaceFacts DEF Open, Holds, InPlace, IInv, TypeOK
  <2> QED
    BY <1>1, <2>1, <2>2, <2>3
<1>4. \A c \in Client : LockedStep(c) =>
          /\ InPlace(c, 1)
          /\ (at[c] = "locking" /\ at'[c] = "writing") \/ MoveUp
  BY <1>2, <1>3 DEF LockedStep
<1>5. QueueOK' /\ (~up' \/ Stay \/ MoveUp)
  <2>1. ASSUME NEW c \in Client, Call(c) PROVE QueueOK' /\ Stay
    BY <2>1, AcquireQueues DEF Call, Idle, Waits
  <2>2. ASSUME NEW c \in Client, execute_recovery_escalation(c) PROVE QueueOK' /\ Stay
    <3>1. CASE Acquire(c, "load")
      BY <2>2, <3>1, AcquireQueues DEF execute_recovery_escalation, Idle, Waits
    <3>2. CASE /\ at' \in {[at EXCEPT ![c] = "RETRY"], [at EXCEPT ![c] = "HOT_SWAP"]}
               /\ lock' = lock
      <4>1. \A d \in Client : Waits(d)' <=> Waits(d)
        BY <2>2, <3>2 DEF execute_recovery_escalation, Idle, Waits, IInv, TypeOK
      <4> QED
        BY <1>1, <3>2, <4>1
    <3> QED
      BY <2>2, <3>1, <3>2 DEF execute_recovery_escalation
  <2>3. CASE Crash
    BY <2>3 DEF Crash, QueueOK, Waits
  <2>4. CASE Restart \/ UNCHANGED vars
    BY <1>1, <2>4 DEF Restart, vars, Waits
  <2> QED
    BY <1>2, <1>3, <2>1, <2>2, <2>3, <2>4 DEF Next
<1> QED
  BY <1>4, <1>5 DEF TakeTurns

\* THEOREM: every save, load and delete gets the lock in its turn: those who wait
\* are in the queue, its head can go on, and each of its steps opens the file or
\* lets the others move up. All that is left to fairness is that it goes on.
THEOREM LockIsFair == Spec => [](QueueOK /\ HolderGoesOn) /\ [][TakeTurns]_vars
<1>1. Init => QueueOK
  BY DEF Init, QueueOK, Waits
<1>2. IInv /\ QueueOK => HolderGoesOn
  <2> SUFFICES ASSUME IInv, QueueOK, NEW c \in Client, InPlace(c, 1)
               PROVE  CanWrite(c) \/ CanOpen(c) \/ CanLoad(c) \/ CanDelete(c)
    BY DEF HolderGoesOn
  <2>1. Waits(c) /\ lock # <<>> /\ Head(lock) = c
    BY PlaceFacts DEF QueueOK, InPlace, IInv, TypeOK
  <2>2. op[c] \in Snapshot \cup {"load", "delete"}
    BY DEF IInv, TypeOK
  <2> QED
    BY <2>1, <2>2 DEF Waits, Holds, CanWrite, CanOpen, CanLoad, CanDelete
<1>3. IInv /\ QueueOK /\ [Next]_vars => QueueOK' /\ [TakeTurns]_vars
  BY QueueStep
<1> QED
  BY <1>1, <1>2, <1>3, InductiveInvariant, PTL DEF Spec
=============================================================================
