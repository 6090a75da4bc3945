# Neelvak: a TLA+ verification project

Neelvak is a Python asyncio service. A request for an answer is *compiled* by
language models and deterministic passes into a plan, a graph of task control
blocks; the plan is checked by a policy engine, sorted into layers and run by a
*scheduler* on several kinds of *runtimes*; the runtimes call language model
*providers* through a router and an interface that fails over from one provider
to the next; all parts announce what they do on an *event bus*; answers are kept
in caches. Everything runs in one process and one event loop, so the
interleavings are those of coroutines at their suspension points (`await`s that
really suspend), and a step of every model here is what one coroutine does
between two of them.

Paths below are relative to `src/`.

## Inventory

| Part | State it keeps | Operations | What makes it correct |
|---|---|---|---|
| Scheduler, `runtime/scheduler.py` | one semaphore, results per plan | `schedule_workflow`, `_execute_node_with_semaphore` | permits are conserved, layers do not overlap, a call leaves nothing running, results tell how nodes ended |
| Lifecycle, `kernel/lifecycle.py` | a state and a reason per process block | `transition` | only moves of the allowance matrix |
| Workspaces, `runtime/factory.py` | directories per sanitized workflow id | provision, recycle, deprovision | nothing stays behind, only nodes of one directory take each other's files |
| Compiler, `compiler/*.py` | none between requests | ten passes, policy sweep, layer planner | topological order, tight layers, cyclic drafts and only those refused |
| Event bus, `kernel/bus.py` | priority queue, subscribers, routing loop, dispatch count | publish, subscribe, unsubscribe, start, stop | at most once, nobody left out, stop waits and ends, callbacks' failures do no harm |
| Provider interface, `models/provider.py` | class-level map of resting providers | `execute` | bounded requests, resting providers skipped, last resort last |
| Router, `models/router.py` | providers assigned per workflow id | `resolve_capability`, `purge_workflow` | diversity, records purged |
| Health, `models/health.py` | state, counters, time of failure per provider | probes, `record_*`, `get_status` | counters match states, recovery takes the successes it should |
| Runtimes, `runtimes/*.py` | one instance per node | validate, initialize, execute, cleanup | twins are both ended, surveillance sees every chunk |
| Gateway, `gateway/server.py` | globals: registry, caches, scheduler, bus | `chat_endpoint`, lifespan | whatever requests overlap, registry, workspaces, reports, caches and conversations come out right |
| Request manager, `gateway/request_manager.py` | time stamps per client | sliding window | never above the limit |
| Registry, `kernel/registry.py` | a table of processes under a lock | register, update, remove, list | entries have an owner |
| Memory, `memory/manager.py` | tiers L1 to L5, access counts, a manifest and files | lookup with promotion, store | L2 never answers with a replaced content, a store that nothing failed after survives every restart that can read the manifest |
| Semantic cache, `memory/semantic_cache.py` | entries with a time to live | query, store, evict | an answer belongs to a prompt similar to the one it answers |
| Conversations, `storage/conversations.py` | a JSON file per conversation | create, get, append a turn | no turn lost but to its file's failure |
| Checkpoints, `storage/adapter.py`, `storage/checkpoints.py` | JSON files under a lock | save, load, delete, escalate | recovery finds what was saved last, if it can read it |
| Tool manager, `runtime/tool_manager.py` | none | handles `EXECUTE_TOOL` messages, which nothing sends | |
| Context compressor, `memory/context_compressor.py` | none | drops and summarises turns | the history reaches the compiler |
| The rest | | authentication, formatter, PII scrubber, cost engine, model selector, analytics, observability, configuration, contracts, JSON-RPC front, web clients, report tools | no state that several steps share |

How they interact: the gateway calls compiler, policy engine, planner,
scheduler and caches in sequence inside one request (`gateway/server.py`
188-567); concurrent requests share the scheduler's semaphore, the router, the
map of resting providers, the bus, the registry and, when they belong to one
conversation, the workflow id and so the workspace (which ids the factory cannot
tell from one another share as well). The scheduler creates a
runtime for each node; runtimes call the router, the provider interface and the
bus. Callbacks subscribed to the bus run inside its routing loop. What outlives
the process is the memory manager's files and manifest, the conversations and
the checkpoints.

The behaviours that are hard: the interleavings of a plan's siblings and of
several plans; the many ways out of a node (result, rejected result, time-out,
fault swallowed into a result, crash, cancellation) times the clean-up each
owes; shared maps read before and written after a suspension; stopping the bus
while it dispatches; retries nested in failover nested in an upgrade; loops
over Python sets, whose order nobody chooses; tasks of a runtime that outlive
the `await` that started them; files truncated before they are written, and a
process killed in between. `PROJECT.json` lists each hazard at its line.

## Modules

| Module | Models | Proofs |
|---|---|---|
| `Lifecycle` | the process block and its matrix (operators only) | |
| `Scheduler` | the scheduler, with the operations it calls of the lifecycle manager, the environment factory and the router | `SchedulerProofs` |
| `LayeredExecution` | abstract: what the scheduler promises its callers | in `SchedulerProofs` |
| `Compiler` | passes 3 to 6 and 10, the policy sweep, the layer planner | `CompilerProofs` |
| `EventBus` | the bus, its routing loop, its callbacks and its clients | in `RuntimesProofs` |
| `Failover` | `ProviderInterface.execute`, for calls side by side | `FailoverProofs` |
| `Health` | the health manager: states, counters, probing daemon, expiring reads | in `RouterProofs` |
| `Router` | the router over `Health`, and the twin runtime's two requests to it | `RouterProofs` |
| `Runtimes` | `execute` of the four runtimes over `EventBus`: tasks, time limits, surveillance, clean-up | `RuntimesProofs` |
| `Gateway` | `chat_endpoint` for requests side by side, with the rate limiter, registry, workspaces, conversations, semantic cache, compressor and what memory answers | `GatewayProofs` |
| `Memory` | the memory manager with its files, failed writes, kills and restarts | `MemoryProofs` |
| `Checkpoints` | the checkpoint manager on its storage adapter, with kills and restarts | `CheckpointsProofs` |
| `CheckpointStore` | abstract: what the checkpoint manager promises | in `CheckpointsProofs` |

An `MC` module for each of `Scheduler`, `Compiler`, `EventBus`, `Failover`,
`Router`, `Runtimes`, `Gateway`, `Memory` and `Checkpoints` gives the constants their
values for TLC. Definitions have the source's names where the language
allows. A definition with a name that says what is wrong with it
(`RejectLeaking`, `OpenCheckedAtHead`) is a mutation of the definition it
precedes; it is in no next-state relation, and serves to show that the
properties notice such a bug. Variables marked "history" are in no guard; they
record what a property has to look back at.

### Scheduler

`phase[p]` and `layer[p]` are the program counter of `schedule_workflow(p)`,
`task[n]` that of the node's coroutine. A node goes `absent`, `waiting` (for the
semaphore), `queued` (permit taken, dependency gate passed), `executing` (inside
`wait_for(runtime.execute())`), then `returning` or `raising` (inside the
`finally` block) and `returned` or `raised`. The ways out of `executing` are an
action each, one for each handler: `Finish`, `TimeOut`, `Fault` (a RuntimeError
becomes a fallback result), `Crash`, `Cancel` (a CancelledError meets no
handler). `Reject` covers the two raises before the `try` block. `Close` is the
end of the `finally` block and of `async with`. Result values are abstracted to
the winner names the scheduler and its gate tell apart. `FailProvision` is the directory that cannot be made: `provision_container` stands
before the `try` block (`runtime/scheduler.py:264`), so no handler and no `finally`
runs, and the process block stays EXECUTING. `scratch` stands for the
files a node may put into its directory between provisioning and clean-up, per
directory and not per workflow: `_get_path` is a constant, any map from ids to
directories, because `EnvironmentFactory._get_path` drops every character of an id
that is no letter, digit, `-` or `_`, and several ids may name one directory.
`assigned` stands for the router's records. Left out: a recycling that fails (an `rmtree` that raises
leaves files behind and the node raises), and the empty directory that a provisioning
may have made before it failed. Ids are taken not to name the directories that the
program keeps below `workspace/` itself (`conversations`, `memory_cache`,
`checkpoints`). Publications that are tasks of their own
(`create_task`) have no effect on the scheduler and are left out. `Cancel` is a
CancelledError inside the runtime; a cancellation of `schedule_workflow` itself
(the client has gone) is not modelled.

### LayeredExecution

A caller's view: nodes are pending, active, returned or raised. It says what a
caller may rely on and nothing of permits in flight, process blocks or
clean-up. `Scheduler` implements it under the mapping `Status`, checked by TLC
and proved.

### Compiler

A draft is a sequence of subtasks as a language model may hand it on: ids may
repeat and dependencies may name steps that do not exist. Pass 4 walks
`list(unresolved)`, the list of a set, one step at a time in any order
(`Consider`); the planner's loop does not depend on the order within a layer,
so one turn of its `while` is one step (`AddLayer`). Initial states cover both
a request and a plan handed straight to the planner, since the planner's cycle
check is never reached by a compiled plan. Costs are integers, thousandths of a
dollar: the rounding of a floating-point sum is left out.

### EventBus

`stop` and the loop are split at their suspension points: the poll of
`_dispatching_count`, the cancelled task's end. A dispatch to a single
subscriber is awaited in the loop's own step, so its exception reaches the
loop's handler (`FailDispatch`); several are tasks of a `gather` that keeps
their exceptions (`EndDispatch`). Subscriptions may change while a dispatch is
under way; it goes on with its snapshot. `start` and `stop` are not called
concurrently, as in the gateway's lifespan. Messages differ in their place in
the queue's order, `RankOf`. A callback is subscribed once at a time, as all
callers do.

### Failover

A call's list has the primary in place 0 and the chain after it, with repeated
and too small entries left out (`Attempts`). The walk from one request to the
next, over resting providers and cooldowns that are over, has no suspension
point and is one step (`Walk`). The recursive call of a context overflow returns
or raises straight through its caller, and in fact never raises, so only the
innermost frame is kept, with its depth; the caller's later entries are gone.
A cooldown entry is the time it ends, 0 when there is none. HTTP is the
environment: any outcome of any request.

### Health and Router

The daemon is suspended in a probe's request or in its sleep; `probing` is its
place in `config.PROVIDER_PROBES`. `Probe` is all that follows an answer, or the
lack of one: `record_success` or `record_failure`. A read of a status writes it:
`get_status` turns an old DEGRADED or OFFLINE into HEALTHY, and the router calls
it for every provider that passes its static filters. Time is the bit `expired`
per provider, as the code only asks whether 60 s have passed since the last
noted failure. Counters stop at 3, as they are only compared with 3. The success
rate is kept as "still 1 or not" (`flawless`): two rates below 1 may compare
either way.

`Router` takes a request as a profile with the providers that pass the static
filters and their prices. Two uncertain things are left open, which of two
imperfect rates is the higher and what the network does; the rest of the sort
key is deterministic. `resolve_capability` has no suspension point, and the two
calls of the twin runtime have none between them, so each is a step.

### Runtimes

A run is one `await runtime.execute()` of the scheduler, of any of the four
kinds. `at[r]` is the program counter of `execute` (`waiting` for the tasks it
gathers, `watching` the agent or judging the twins, `ended`, `over` after the
scheduler's `finally`), `task[r][t]` that of each task: the standard runtime's
worker and surveillance agent, the competitive runtime's twins `x` and `y`, a
micro run's slices, a direct run's call. The module extends `EventBus`: a worker's
`Answer` publishes, `Watch` subscribes, `cleanup` unsubscribes, and the bus may be
slow at every point. What the code's sleeps do is in the guards: a worker sleeps
0.01 s before it calls, so its agent has started (`Called`); the agent sleeps
0.05 s after the worker, so a chunk may or may not be through by then.
`wait_for` is that of Python 3.12 and later. `Timeout` cancels what is awaited;
`gather` without `return_exceptions` leaves the sibling of a twin that raised,
and `Resume` does so. The result's list of alerts is the agent's live list; its
value is taken when the run returns.

Left out: the `_sim_` switches of the tests; the agent's detectors of
overflow, loops and retries (a worker publishes its output as one chunk, and of the
tests on it the one for refusals remains); the messages the agent itself
publishes, which `on_chunk` ignores by their name; which providers a run uses
(`Router`, `Failover`).

### Gateway

A request suspends in two places, in `compiler.compile` and in
`scheduler.schedule_workflow`; everything else between arrival and answer, its
awaits included, runs without a suspension, so a request is three steps:
arrival (`Reject`, `AnswerFromSemanticCache`, `AnswerFromMemory`, `StartCompile`),
what follows the compiler (`Abort`, `FailProvision`, `Schedule`) and what follows the
scheduler (`Complete`, `Fail`). `StartNode` is the scheduler's provisioning for each
node, which puts back a workspace that a sibling's end has removed. An
exception before the plan is bound leaves no
workspace to remove, one after it removes the conversation's; neither touches
the registry. The registry is keyed by the steps' names, the workspaces by
conversation.

`shared` notes the requests that have met another with the same conversation or
a common step name while both were scheduled; for those, the report of a
finished request lists what is left of the registry. `Compress` keeps what has a
content; which turns are quoted and which summarised makes no difference to it,
since by finding 3 every content is empty.

Similarity is two constants, any relations between prompts and keys: `Similar` for
the semantic cache (with every prompt similar to itself), `Close` for the memory
manager. `Hits` are the live entries a prompt may be answered from; the code takes
the most similar, the model any. `Store` renews a similar entry that is there, or adds
one, so entries of different prompts take each other's answers over. What the memory
manager may answer (`memory`) is one set of answers per key, whatever tier they are
in; `Known` is what it may have when the gateway starts, the indexes L3 to L5 and the
L2 that was loaded from disk, and every initial state has a choice of it. A hit goes on
to the semantic cache. Which tier answers, promotion and files are `Memory`'s.

An answer is named after its origin: the request that computed it and the step the
output was taken from, or a name in `Known`. The formatter, the restoration of masked
words and a content cut short on disk reword an answer and do not change its origin,
which is what the properties speak of.

`DirOf` and `FileOf` are the directory and the conversation file an id names, any maps:
the first drops characters of the id, the second is a path the file system may not
tell from another. `turns` is what a file's reader gets: none if the file is missing
or cannot be parsed. `conv_obj` is the history a request read before it was compiled.
The two error paths of `storage/conversations.py` are in `Return` and `StartCompile`: a
file that cannot be read (`41`-`43`) counts as a new conversation, and `append_turn`
then writes a file with one turn over it; a save that fails (`49`-`53`) leaves the file
as it was, or cut short if it was open already. `FileFails` counts these against
`MaxFailures` and notes in `at_risk` whom they may cost a turn, the request itself and
those of its file that had returned. A file that `create_conversation` could not save
is missing, and read as one without turns.

One organisation; a removal of a directory does not fail half-way; a prompt has at
least one word, and an output is not empty (the caches store nothing else).

### Memory

Both operations are synchronous, so an operation is a step, and what can come
between its writes is a failure or a kill. `files` maps a prompt and the boot
that wrote it to a content: file names are `hash(prompt)`, and Python's string
hash differs from one process to the next. `manifest` and `disk` are the manifest
in memory and the file; `Save` leaves the file new, cut short, or as it was.
A content's file that a failure or a kill cuts short (`WriteFails`, `CrashInStore`) is as
it was, empty, complete, or has a part of the content: `Part` gives for each content the texts
that may be left of it, any set of texts, other contents among them. The code cannot
tell a part from an answer and serves it (`memory/manager.py:184`), and so does the
model (`Readable`). What failed stores may have left of their own is in `latest` and
`durable`, until a later store succeeds; an empty content is in the file and never
served.
`latest`, `durable`, `seen` and `kept` are history. Several entries may be similar
enough to a prompt; the code takes the first in the order of a dictionary, the
model any. A part cut inside a character cannot be read and counts as empty.
Hash collisions, empty answers and the wording of `Css`, the Jaccard
score, are left out; access counts stop at the one they are compared with.

### Checkpoints

One key, and coroutines that save, delete or recover take turns by the adapter's
lock. `Open` truncates, `Write` completes; `OpenFails` and `WriteFails` are the two
places of the exception that `save` turns into False, which `create_checkpoint`
ignores. `execute_recovery_escalation` retries, swaps, and then loads. A kill
leaves the file truncated or written if a write was under way. `LoadFails` is the
exception that `load` turns into None (`storage/adapter.py:62`): the file is there,
cannot be read, and the caller is told TERMINATE as if there were none. `misreads`
counts them, which `MaxMisreads` bounds.

### CheckpointStore

A caller's view: one checkpoint, and each call meets it in a single step, however
long it waits for the lock and whatever others write meanwhile. It has no file and
no lock. The checkpoint becomes uncertain by a save that fails or is under way when
the process is killed, and by nothing else. While it is certain, recovery resumes if
there is one and terminates if there is none (`Recover`); but it may fail to read a
checkpoint that is there, and then it terminates too (`RecoverUnread`, counted by
`misreads`). `Checkpoints` implements it under the mapping of `expected`,
`Request` and `Advice`, checked by TLC and proved.

## Runs

| Run | Bounds | Shows |
|---|---|---|
| `scheduler` | 3 plans, 6 nodes, 2 permits, 2 of 3 ids in one directory; 249,887 states | nine properties of `Scheduler`, the refinement among them |
| `scheduler_failed_dep` | same | finding 1 |
| `scheduler_purge` | same | finding 2 |
| `compiler` | all dependency sets of 3 steps over 4 ids, and special drafts; 106,782 states | six properties of `Compiler` |
| `event_bus` | 3 callbacks on 2 channels, 3 messages; 203,784 states | five properties of `EventBus` |
| `failover` | 2 calls, 3 providers, 4 entries, 1 retry, cooldown 2, clock to 3, 1 upgrade; 204,944 states | five properties of `Failover` |
| `router` | 2 providers, 1 workflow, 3 profiles and the twins'; 118,512 states | three properties of `Health` and `Router` |
| `runtimes` | 2 runs of any kinds, 2 slices, a third subscriber; 227,124 states | three properties of `Runtimes` |
| `gateway` | 3 requests, 3 prompts, 2 conversations in one directory, 2 step names, 2 plans, limit 2 in a window of 2, clock to 2, 1 failed file access; 2,450,341 states | six properties of `Gateway` |
| `gateway_context` | same | finding 3 |
| `memory` | 2 keys, 2 contents and a part of either, promotion at 2, 1 restart; 7,218,060 states | two properties of `Memory` |
| `checkpoints` | 3 coroutines (symmetric), 2 snapshots, 1 restart, 1 misread; 31,027 states | the refinement of `CheckpointStore` |

Each module has a `TypeOK`. It is in no run: `TypeCorrect` in the module's proofs
establishes it for every instance (`RuntimesTypeCorrect` for `Runtimes`, next to that
of the bus; the abstract modules have none).

Why the bounds are enough.

- Scheduler: two siblings, a dependent in a second layer, a second plan in the
  same directory under an id of its own and with an unknown runtime, and a plan in
  another directory, for two permits, give each action a competitor for the permits,
  each dependency outcome a reader, and each clean-up a bystander in its workflow,
  in its directory and outside.
- Compiler: every graph on three steps has every kind of cycle, self-loop and
  dangling dependency that the loops can tell apart; the special drafts add
  repeated ids, the empty draft, and the budget and risk limits exceeded.
- Event bus: the three callbacks give broadcasts with zero, one and several
  receivers and a channel of its own; a message of higher priority can overtake
  the others at every point.
- Failover: the two calls share two of the providers; one has a repeated and a
  too small entry; the clock runs past a cooldown. The retry limit is 1 where the
  code has 2 (`_MAX_RETRIES_PER_PROVIDER` is a constant of the model; 0 would skip
  the backoff). `MaxTime` and `MaxDepth` bound the clock and the recursion, which
  the code does not bound.
- Router: only groq and gemini pass the cost filter of the twin runtime's profiles
  (openrouter's entries cost too much at tier HIGH); workflows meet only through
  the health manager, which any request disturbs in the same way, so one workflow
  with all profiles covers them. Nothing in `Health` or `Router` needs a bound.
- Runtimes: the two runs are of every pair of kinds, so each meets itself and each
  other; one slice fails twice and one does not. The third subscriber makes a
  dispatch a gather, whose other callbacks can hold it up. A chunk is published
  once per worker, as in the code.
- Gateway: two requests share a conversation and its file, the third their directory
  and not their file; the first and the third ask alike in both senses of similarity,
  the second alike to nobody, and memory may or may not know an answer to the third at
  the start; all three share a session and the plans share a step's name. So each pair
  meets on each thing requests share. The limit is reached and its window, like the
  entries' time to live, passes within the clock's bound. One failure of a file
  costs every turn there is in it; a second could only cost the later ones again.
- Memory: a keyword of an index and a rewording that hits it under one threshold
  and not under the other; the two answers begin alike, so that the same part may be
  left of either. `PromoteAt` is 2 where the code has 3: a first hit still counts only
  and a second promotes, from L2 and from the index. `MaxBoots` bounds the
  restarts: a second one meets nothing the first has not (the theorems hold for
  any number).
- Checkpoints: one coroutine in the lock, one waiting, one about to; `MaxBoots`
  bounds the restarts and `MaxMisreads` the loads that cannot read the file; a misread
  leaves nothing behind but its count.

Every property of a passing run is also checked against a mutation of the model
that a plausible bug would make, listed in `PROJECT.json`, and violated there.

### Fairness

- `Scheduler`: weak fairness of `Progress`. The event loop does not idle while a
  coroutine can go on; `asyncio.Semaphore` hands a free permit to a waiter;
  `wait_for` bounds a runtime's time. No fairness for `Schedule`: requests need
  not come.
- `Compiler`: weak fairness of `Next`; straight-line code between two model calls.
- `EventBus`: weak fairness of `Bus`, the loop, `stop` and the callbacks, which are
  finite (an append, a put on an unbounded queue, a tool with a time limit). None
  for the clients.
- `Failover`: weak fairness of `Settle(c)` for each call: the HTTP client has a
  30 s limit and `asyncio.sleep` ends. None for the clock or for cancellation.
- `Router`: weak fairness of the daemon: a probe has a 3 s limit and the sleep
  between rounds ends. None for requests, the clock, providers, start and stop.

- `Runtimes`: weak fairness of each run's `Step`: provider calls end (`Failover`),
  and the timers of `sleep` and `wait_for` fire. None for the bus: `RunsEnd` holds
  even when it stands still. None for new runs.
- `Gateway`, `Memory` and `Checkpoints` state safety only: a process may be killed at
  any time, and requests need not come.

Deadlock is checked in the runs of `Scheduler`, `Compiler`, `EventBus`, `Failover`
and `Router`; where those systems may rest, their rest is an action of its own
(`Quiet`, `Done`). It is not checked for `Runtimes`, `Gateway`, `Memory` and
`Checkpoints`: a finite number of runs or requests come to their end, or the last
kill is not followed by a restart, and the system stops there. That nothing stops
earlier is what `RunsEnd` says of the runs; a step of a request, a lookup or a
checkpoint waits for nothing but a lock whose holder can always go on (`LockIsFair`).

### Findings

1. `runtime/scheduler.py:226`: the gate promises an error "if a dependency node
   has previously failed", but a fault in a runtime is stored as a result whose
   winner is `RUNTIME ERROR`, which the gate lets pass. The dependent runs.
2. `runtime/scheduler.py:332`: the router's records are purged under the plan's
   id, which `compile` overwrites with the conversation's, and kept under the
   blocks' id, a fresh uuid. They are never purged.
3. `gateway/server.py:269`: the history of a conversation is read under the keys
   `user` and `agent_response`, where `append_turn` writes `user_prompt` and
   `response` (`storage/conversations.py:69`). Every content is empty, the compressor
   drops it, and no request is compiled with its history.

Read in the code on the way, without a run of their own:

- `models/provider.py:269` says "no further overflow recursion"; the recursive call
  recurses on the next overflow (`ContextOverflow` raises `depth` each time).
- `models/provider.py:110` says that `execute` raises when the chain is exhausted; it
  returns the loopback answer (`Walk`). The provider's `except` clauses in the
  runtimes see other faults only.
- `models/router.py:147`: the diversity penalty compares with all providers the
  workflow has ever used; once all are used it says nothing, and the second pair of
  twins of a plan may get one provider twice. `TwinsDiffer` says what remains.
- `runtime/factory.py:22` drops characters, so ids that differ in those alone (`a.b` and
  `ab`) share a directory: the clean-up of one's nodes empties the other's scratch
  directories, and the end of one's request removes its workspace until its next step
  makes it again. Siblings of one plan do the same to each other
  (`runtime/scheduler.py:330`). `FilesTakenByNeighbours` and `NoWorkspaceLeft` say what
  remains true.
- `runtime/scheduler.py:264`: an error in `provision_container` is outside the `try` block;
  the node's process block stays EXECUTING for ever (`FailProvision`).
- `storage/conversations.py:43`: a file that cannot be read is taken for a conversation that
  does not exist, and the next turn overwrites all others; `storage/conversations.py:50`
  truncates before it writes, and neither failure reaches the caller (`TurnsKept` says
  what is lost).
- `memory/manager.py:184`: what a failed write left of an answer is served as the answer, if
  the key has an entry whose file it is (`Readable`).
- `storage/checkpoints.py:64` ignores that `save` returned False; `storage/adapter.py:47`
  has by then truncated the previous checkpoint (`WriteFails`). `storage/adapter.py:64`
  answers None for a file that cannot be read, as for one that does not exist, and
  the escalation terminates what could be resumed (`LoadFails`).
- `memory/manager.py:310`: a store to L2 leaves an older answer of the same key in L1,
  which is looked up first, until the restart (`StalenessEndsAtRestart`). A manifest
  cut short by a kill loses all entries of L2 (`Restart`).
- `runtimes/standard.py:336`: 0.05 s is all the time the bus has to deliver a chunk; the
  agent also counts chunks of other runs, as all are broadcast (`AlertsOf`).
- `ui/observability.py:35` awaits `subscribe`, which is no coroutine; the service is not
  started. `main.py:147-150` calls methods the checkpoint manager does not have.

## Proofs

Checked by TLAPS for every value of the constants that the named assumptions allow:
every safety property of the passing runs, the two refinements among them, and of
the liveness properties the parts that need no fairness (Progress, below). The
assumptions, which TLC evaluates in the runs, are `SchedulerAssumption`,
`CompilerAssumption`, `EventBusAssumption`, `FailoverAssumption`, `HealthAssumption`,
`RouterAssumption`, `RuntimesAssumption`, `GatewayAssumption`, `MemoryAssumption` and
`CheckpointsAssumption`.

- `SchedulerProofs`. The inductive invariant adds to `TypeOK` what each program
  counter implies: which process block and which result go with a task's place,
  that `task[n]` is `absent` exactly when the plan has not reached its layer,
  that earlier layers have returned, and that files lie in a directory
  only while a node of one of the workflows it belongs to is executing or closing. From it: permits conserved
  (by counting the holders before and after each step), the concurrency bound,
  the layer barrier, nothing left behind, results telling outcomes, the gate,
  scratch clean-up, and that files are taken by nodes of the same directory only:
  `_get_path` is any function, so this holds of ids the factory cannot tell apart too.
  The refinement, in the same module: initial states map to initial states; each action maps to
  one action of `LayeredExecution` or a stutter. Admission needs the concurrency
  bound in terms of active nodes, `Abort` the fact that later layers are absent.
- `CompilerProofs`. The invariant ties `resolved` to the order built so far in
  pass 4 and to the layers in the planner, and keeps the fact that while `progress`
  is false nothing unresolved and already considered could be resolved: that is
  what makes "no progress" mean "stuck". From it: topological order, layers that
  respect dependencies and are tight, the loops' verdicts, and that a plan that
  compiled is never found cyclic by the planner.
- `FailoverProofs`. The invariant says that the places before the one in use have
  an outcome, and bounds requests by places. From it: last resort, bounded
  attempts, rests that run their time, and no turn to a resting provider: a walk
  ends at a place the map leaves open, and a map with a fresh rest in it closes
  the place the call comes from.
- `RouterProofs`. `CountersMatchStates` is inductive with the types: from each
  state a probe or an expiry needs the counters of that state to leave the right
  ones behind. `TwinsDiffer` rests on it: a provider with a success rate of 1 is
  HEALTHY, hence a candidate, and the record of the first twin puts its provider
  behind it for the second.

- `RuntimesProofs`, the bus. The invariant says where a message is (unsent, queued,
  or in the logs), that the count is 1 exactly during a dispatch, and that no
  callback runs outside of one. From it: at most once, a quiet stop, nobody left
  out. These theorems are about `EventBus`'s own specification, in which the clients
  do as they please.
- `RuntimesProofs`, the runs. First that every behaviour of the runs is one of the bus
  (`RunsUseTheBus`), so that the bus's invariant holds here too. Then
  `RunOK`, which ties each task's state to where its `execute` is, and `Subscribed`,
  the agent's subscription to both; from these, that a run that is over leaves no
  callback and only the tasks it may. For the alerts, `Heard`: a chunk whose worker
  has answered is queued, under dispatch, or in the agent's log; it needs that the
  bus is never stopped while runs go on, and that the agent subscribed first.
- `GatewayProofs`. `Planned` says which requests have a plan. Registry and workspaces
  are inductive with the types, since each step that overwrites or removes an entry
  leaves the others an owner. Reports need `Undisturbed`: a request that met no rival
  still holds its entries. Caches rest on a lemma about `OutputNode`, for any plan, and
  on `EntryFor`: an answer is for a prompt similar to its entry's, or for a key of memory
  close to it, and stays so when `Store` renews an entry, because what is stored comes from
  memory or from the request itself and never from another entry. `Similar`, `Close` and
  `Known` are any relations and contents. For turns, `TurnFacts` says that only a return
  touches a file, and the four things it may leave there (`Left`) each keep the
  turns of requests that are not in `at_risk`, once each. The rate
  limit rests on `Remembered`: although each call cuts its session's list down, every
  accepted request a new one is counted against is still in it, so the accepted
  requests of any window are among those the limiter counts.
- `MemoryProofs`. `OwnFiles` says that an entry of a key names a file of that key, and
  `Backed` that the file holds what the key may have; both for the manifest in
  memory and the one on disk, with different contents known, the parts that failed
  writes may have left among them. A write to one key, whole or cut short,
  then disturbs no other, and a restart may take the one for the other.

- `CheckpointsProofs`. `WriterHolds` says that a coroutine with the file open is at the
  head of the lock and that the file is cut short; `FileAsExpected` that a file
  nobody writes holds what the last save or delete left. A load happens at the head of
  the lock, hence when nobody writes. From these: saves exclude each other,
  recovery resumes if there is something to resume that it can read and terminates if
  there is nothing, and the manager
  implements `CheckpointStore`: opening the file and restarting are stutters, what
  ends a turn with the lock is the store's step.

### Progress

The prover knows no fairness and no ENABLED, so the liveness properties themselves
stay with TLC. What they rest on besides fairness is proved, in two kinds of
theorem:

- nothing is stuck: while there is work, the guard of one of the steps that fairness
  covers is true. The guards are written out next to the theorem, action by action.
- the work runs out: each such step lowers a measure, and no step of anybody else
  raises it but the one that brings new work. The measures count sets that are proved
  finite, or bounded numbers, compared lexicographically.

| Liveness property (TLC) | Nothing is stuck | The work runs out |
|---|---|---|
| `EveryPlanComesBack` | `SchedulerNeverStuck`: if all nodes of a layer wait for permits, the holders belong to running plans | `SchedulerRunsOut`: places of nodes, then layers, then the return |
| `EveryDraftIsDecided` | deadlock checking | `LoopsRunOut`: phases, unresolved steps, the `progress` flag, the sweep's rest |
| `MessagesAreTaken`, `StopReturns` | `BusGoesOn`, with the loop's survival | `BusRunsOut`: queue, the loop's place, calls, `stop`'s place |
| `CallsEnd` | deadlock checking | `CallsRunOut`: depth, place in the list, retries, the request's state |
| `RunsEnd` | `RunsGoOn`, whatever the bus does | `RunsRunOut`: stations of `execute`, and steps of each task |
| `ProbesTellTheTruth` | | `ProbesGetAtTheTruth`: probes a provider still needs, and the daemon's steps to the next one |

`LockIsFair` (`CheckpointsProofs`) says the same of the adapter's lock, for which no
liveness is stated as a process may be killed at any time: those who wait are in the
queue once each, its head can always go on, and a step either keeps every place
or moves all up by one.

`PlansFitScheduler` (`CompilerProofs`) joins two modules: a plan the planner lets through
has the form that `SchedulerAssumption` and `GatewayAssumption` ask for, so what is
proved of the scheduler's plans is proved of every compiled one.

Only model-checked: those seven liveness properties. What a recursively defined sum
computes (`TotalCost`) is not proved about; no theorem depends on it.

## Not modelled, and the plan

What could come next:

1. A composition of `Gateway` with `LayeredExecution`, so that a request's third step is
   the scheduler's promise instead of one action.
2. An abstract specification of the caches and the memory manager (a lookup answers
   with some answer that was stored for the prompt), and the proof that both
   implement it.
3. The agent's other detectors, and messages it publishes from inside the bus's dispatch.

Left out, and why: HTTP transport and error classification (the environment's
choice in `Failover`) and language model passes (inputs in `Compiler`) are the
world's part; the tool manager is never asked for anything (its subscription is a
callback of `MCEventBus`); the formatter, the PII scrubber, the cost engine and the
model selector are functions without state whose results nothing here depends on;
authentication is a database library's; analytics and observability only display;
configuration and contracts are data, which the models take as constants; the
gateway's read-only endpoints, `main.py` (whose tool repeats the gateway's sequence
for one client), the web clients, report generators and tests keep no state that
another part reads.
