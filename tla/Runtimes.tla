------------------------------ MODULE Runtimes ------------------------------
(***************************************************************************)
(* The tasks behind `await runtime.execute()` (runtimes/*.py): a standard  *)
(* run's worker and surveillance agent, a competitive run's twins, a micro *)
(* run's slices, a direct run's call; and the event bus on which workers   *)
(* publish what the agents watch.                                          *)
(*                                                                         *)
(* A run is one execution of a node; its id is also that of the callback   *)
(* its agent subscribes and of the chunk its worker publishes. Provider    *)
(* calls answer or raise (module Failover). The _sim_ switches of the      *)
(* tests are left out: a worker publishes its output as one chunk, and of  *)
(* the agent's tests the one for refusals remains. asyncio starts tasks in *)
(* the order they are made and before any timer made by them fires, and    *)
(* wakes who awaits a task that has ended before a time limit can hit it.  *)
(***************************************************************************)
EXTENDS EventBus

CONSTANTS
    Run,
    Slice,         \* the partition of a micro run's items, five at most
    Failing,       \* slices whose first two attempts fail
    PhraseOf,      \* refusal phrase in a run's output, or NoPhrase
    NoPhrase

MAX_LOOP_ITERATIONS == 3
max_attempts == 3

ASSUME RuntimesAssumption ==
    /\ Run \subseteq Callback /\ Run \subseteq Message
    /\ \A r \in Run : ChannelOf[r] = "BROADCAST" /\ ReceiverOf[r] = "BROADCAST"
    /\ DOMAIN PhraseOf = Run
    /\ IsFiniteSet(Slice) /\ Failing \subseteq Slice /\ Slice # {}
    /\ Slice \cap {"worker", "agent", "x", "y", "call"} = {}

VARIABLES
    kind,      \* assigned_runtime
    at,        \* where execute is
    task,      \* task[r][t]: a task or awaited coroutine of the run
    count,     \* critiques of the looper, failed attempts of the slices
    reported   \* the list of alerts in the result, a set of at most one

runs == <<kind, at, task, count, reported>>
allvars == <<vars, runs>>

Kind == {"STANDARD", "COMPETITIVE", "MICRO", "DIRECT"}
Task == {"worker", "agent", "x", "y", "call"} \cup Slice
TasksOf(k) == CASE k = "STANDARD" -> {"worker", "agent"}
                [] k = "COMPETITIVE" -> {"x", "y"}
                [] k = "MICRO" -> Slice
                [] k = "DIRECT" -> {"call"}

\* What execute awaits first: a task, gather's, or wait_for's.
Awaited(r) == TasksOf(kind[r]) \ {"agent"}

Ended(r, t) == task[r][t] \in {"none", "returned", "raised", "cancelled"}
AnyRaised(r) == \E t \in Awaited(r) : task[r][t] = "raised"
AllReturned(r) == \A t \in Awaited(r) : task[r][t] = "returned"

RuntimesInit ==
    /\ Init
    /\ kind \in [Run -> Kind]
    /\ at = [r \in Run |-> "new"]
    /\ task = [r \in Run |-> [t \in Task |-> "none"]]
    /\ count = [r \in Run |-> [t \in Task |-> 0]]
    /\ reported = [r \in Run |-> {}]

-----------------------------------------------------------------------------
(* execute, up to its first await. The gateway has started the bus.        *)

execute(r) ==
    /\ at[r] = "new" /\ running
    /\ at' = [at EXCEPT ![r] = "waiting"]
    /\ task' = [task EXCEPT ![r] = [t \in Task |->
                   IF t \notin TasksOf(kind[r]) THEN "none"
                   ELSE IF t = "agent" THEN "created" ELSE "calling"]]
    /\ UNCHANGED <<vars, kind, count, reported>>

-----------------------------------------------------------------------------
(* The tasks.                                                              *)

Becomes(r, t, s) == task' = [task EXCEPT ![r][t] = s]

\* The agent's first step.
Watch(r) ==
    /\ task[r]["agent"] = "created"
    /\ subscribe(r)
    /\ Becomes(r, "agent", "watching")
    /\ UNCHANGED <<kind, at, count, reported>>

\* A worker that does not sleep first.
WorkerReadyAtOnce(r, t) == task[r][t] = "calling"

\* A call has been made. The worker sleeps first, so the agent has started.
Called(r, t) ==
    /\ task[r][t] = "calling"
    /\ t = "worker" => task[r]["agent"] # "created"

\* The provider answers: the worker publishes, the looper criticises its draft.
Answer(r, t) ==
    /\ t \in {"worker", "x", "y", "call"}
    /\ Called(r, t)
    /\ Becomes(r, t, IF t = "y" THEN "critique" ELSE "returned")
    /\ IF t = "worker" THEN publish(r) ELSE UNCHANGED vars
    /\ UNCHANGED <<kind, at, count, reported>>

\* The chain is exhausted: RuntimeError.
Exhaust(r, t) ==
    /\ t \in {"worker", "x", "y", "call"}
    /\ Called(r, t)
    /\ Becomes(r, t, "raised")
    /\ UNCHANGED <<vars, kind, at, count, reported>>

\* A looper that forgets to count.
CritiqueUncounted(r) ==
    /\ task[r]["y"] = "critique"
    /\ IF count[r]["y"] < MAX_LOOP_ITERATIONS
       THEN UNCHANGED <<task, count>>
       ELSE Becomes(r, "y", "returned") /\ UNCHANGED count
    /\ UNCHANGED <<vars, kind, at, reported>>

Critique(r) ==
    /\ task[r]["y"] = "critique"
    /\ IF count[r]["y"] < MAX_LOOP_ITERATIONS
       THEN count' = [count EXCEPT ![r]["y"] = @ + 1] /\ UNCHANGED task
       ELSE Becomes(r, "y", "returned") /\ UNCHANGED count
    /\ UNCHANGED <<vars, kind, at, reported>>

\* _execute_slice_with_retry.
Attempt(r, s) ==
    /\ task[r][s] = "calling"
    /\ IF s \in Failing /\ count[r][s] + 1 < max_attempts
       THEN count' = [count EXCEPT ![r][s] = @ + 1] /\ UNCHANGED task
       ELSE Becomes(r, s, "returned") /\ UNCHANGED count
    /\ UNCHANGED <<vars, kind, at, reported>>

\* The worker has ended: after 0.05 s the agent returns; what the worker raised
\* it raises as well.
EndWatch(r) ==
    /\ task[r]["agent"] = "watching"
    /\ Ended(r, "worker")
    /\ Becomes(r, "agent", task[r]["worker"])
    /\ UNCHANGED <<vars, kind, at, count, reported>>

-----------------------------------------------------------------------------
(* execute goes on.                                                        *)

\* The first await is over: a standard run awaits its agent, a competitive one
\* its judge. gather raises at the first failure and leaves the other twin be.
Resume(r) ==
    /\ at[r] = "waiting"
    /\ AllReturned(r) \/ AnyRaised(r)
    /\ at' = [at EXCEPT ![r] =
                 IF ~AnyRaised(r) /\ kind[r] \in {"STANDARD", "COMPETITIVE"}
                 THEN "watching" ELSE "ended"]
    /\ UNCHANGED <<vars, kind, task, count, reported>>

\* on_chunk: chunks of other runs' workers count as well.
AlertsOf(r) ==
    {PhraseOf[q] : q \in {q \in Run : \E i \in DOMAIN log[r] : log[r][i] = q}} \ {NoPhrase}

\* The agent has returned, or the judge has chosen.
Return(r) ==
    /\ at[r] = "watching"
    /\ kind[r] = "STANDARD" => task[r]["agent"] = "returned"
    /\ at' = [at EXCEPT ![r] = "ended"]
    /\ reported' = IF kind[r] = "STANDARD" THEN [reported EXCEPT ![r] = {AlertsOf(r)}]
                   ELSE reported
    /\ UNCHANGED <<vars, kind, task, count>>

\* A time limit that is none of gather's business.
TimeoutOfOne(r) ==
    /\ at[r] = "waiting" /\ ~AllReturned(r) /\ ~AnyRaised(r)
    /\ \A t \in Awaited(r) : Called(r, t) \/ task[r][t] # "calling"
    /\ LET t == CHOOSE t \in Awaited(r) : ~Ended(r, t)
       IN task' = [task EXCEPT ![r][t] = "cancelled"]
    /\ at' = [at EXCEPT ![r] = "ended"]
    /\ UNCHANGED <<vars, kind, count, reported>>

\* The limit of the node, or of 8 s in a direct or micro run: what execute awaits
\* is cancelled, and execute ends.
Timeout(r) ==
    /\ \/ /\ at[r] = "waiting" /\ ~AllReturned(r) /\ ~AnyRaised(r)
          /\ \A t \in Awaited(r) : Called(r, t) \/ task[r][t] # "calling"
          /\ task' = [task EXCEPT ![r] = [t \in Task |->
                         IF t \in Awaited(r) /\ ~Ended(r, t) THEN "cancelled"
                         ELSE task[r][t]]]
       \/ /\ at[r] = "watching"
          /\ kind[r] = "STANDARD" => task[r]["agent"] = "watching"
          /\ IF kind[r] = "STANDARD" THEN Becomes(r, "agent", "cancelled")
             ELSE UNCHANGED task
    /\ at' = [at EXCEPT ![r] = "ended"]
    /\ UNCHANGED <<vars, kind, count, reported>>

\* The scheduler's finally.
cleanup(r) ==
    /\ at[r] = "ended"
    /\ at' = [at EXCEPT ![r] = "over"]
    /\ IF r \in subscribers THEN unsubscribe(r) ELSE UNCHANGED vars
    /\ UNCHANGED <<kind, task, count, reported>>

-----------------------------------------------------------------------------

\* The loop and its timers; once execute is called none of this waits for anyone.
Step(r) ==
    \/ Watch(r) \/ EndWatch(r) \/ Critique(r)
    \/ \E t \in Task : Answer(r, t) \/ Exhaust(r, t)
    \/ \E s \in Slice : Attempt(r, s)
    \/ Resume(r) \/ Return(r) \/ Timeout(r) \/ cleanup(r)

\* The bus and its other subscribers, who stay; it is started once.
Elsewhere ==
    /\ \/ start
       \/ \E c \in Callback \ Run : subscribe(c)
       \/ Bus
    /\ UNCHANGED runs

RuntimesNext ==
    \/ \E r \in Run : execute(r) \/ Step(r)
    \/ Elsewhere

RuntimesSpec == RuntimesInit /\ [][RuntimesNext]_allvars

\* Provider calls end and timers fire.
FairRuntimesSpec == RuntimesSpec /\ \A r \in Run : WF_allvars(Step(r))

-----------------------------------------------------------------------------
(* Properties.                                                             *)

\* Every variable stays in its range.
RuntimesTypeOK ==
    /\ kind \in [Run -> Kind]
    /\ at \in [Run -> {"new", "waiting", "watching", "ended", "over"}]
    /\ task \in [Run -> [Task -> {"none", "created", "calling", "watching", "critique",
                                  "returned", "raised", "cancelled"}]]
    /\ count \in [Run -> [Task -> 0..MAX_LOOP_ITERATIONS]]
    /\ reported \in [Run -> SUBSET SUBSET {PhraseOf[q] : q \in Run}]

\* When the bus is through with a worker's chunk by the time the agent returns,
\* the result reports the refusal in it: the agent was subscribed before the
\* chunk was published, and no other callback or run kept it from its call.
AlertsCoverOwnChunks ==
    [][ \A r \in Run :
          reported'[r] # reported[r] /\ r \notin queue \cup message /\ PhraseOf[r] # NoPhrase
              => \A alerts \in reported'[r] : PhraseOf[r] \in alerts ]_allvars

\* A run that is over leaves no callback on the bus and no task, but for a twin
\* whose sibling raised and an agent that is about to hear what its worker raised.
NothingOutlivesRun ==
    \A r \in Run : at[r] = "over" =>
        /\ r \notin subscribers
        /\ \A t \in Task : ~Ended(r, t) =>
              \/ t \in {"x", "y"} /\ AnyRaised(r)
              \/ t = "agent" /\ task[r]["worker"] \in {"raised", "cancelled"}

\* Whatever raises, hangs or is cancelled, an execution comes to its cleanup and
\* all of its tasks end, the twin nobody awaits any more included.
RunsEnd ==
    \A r \in Run : at[r] = "waiting" ~> (at[r] = "over" /\ \A t \in Task : Ended(r, t))

=============================================================================
