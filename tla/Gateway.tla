------------------------------ MODULE Gateway -------------------------------
(***************************************************************************)
(* chat_endpoint (gateway/server.py) with the state its requests share:    *)
(* the rate limiter's windows, the registry of processes, the workspaces,  *)
(* the conversations, the semantic cache and the memory manager's L2.      *)
(*                                                                         *)
(* A request suspends in two places, `await compiler.compile` and `await   *)
(* scheduler.schedule_workflow`; the other awaits (an uncontended lock, a  *)
(* put on an unbounded queue) do not, so a request is three steps. The     *)
(* conversation id is the workflow id of every plan compiled for it, and   *)
(* steps' names, which the registry is keyed by, come from the plans.      *)
(*                                                                         *)
(* An answer is named after where it comes from: the request that computed *)
(* it and the step it took the output from, or what the memory manager had *)
(* before. Cleaning it, or cutting it short, does not change that. The     *)
(* tiers of the memory manager are one set of answers per key; Memory has  *)
(* them apart. Prompts have words and outputs are not empty; one           *)
(* organisation. An id names a directory and a file; two may name the same.*)
(***************************************************************************)
EXTENDS Naturals, Sequences, FiniteSets

CONSTANTS
    Request, Session, Prompt, Node,
    Conversation,      \* ids clients send
    NoConversation,    \* a request without one
    SessionOf, ConversationOf, PromptOf,
    Similar,           \* <<prompt, key>>: a hit in the semantic cache
    Close,             \* <<prompt, key>>: a hit in the memory manager
    Known,             \* key -> what memory may have for it when the gateway starts:
                       \* contents of the indexes L3 to L5, and of L2 on disk
    Dir, _get_path,    \* id -> directory (EnvironmentFactory._get_path)
    File, TurnFile,    \* id -> file (ConversationManager._get_path)
    Plan,              \* what the compiler may return: layers of steps
    Verification,      \* steps with "verify" in their name, or fallbacks
    max_requests_per_min,
    Window,            \* 60 s
    TTL,               \* 7200 s
    MaxTime,           \* bound of the clock
    MaxFailures        \* bound of the failed reads and saves of conversations

ASSUME GatewayAssumption ==
    /\ IsFiniteSet(Request)
    /\ SessionOf \in [Request -> Session]
    /\ PromptOf \in [Request -> Prompt]
    /\ ConversationOf \in [Request -> Conversation \cup {NoConversation}]
    /\ NoConversation \notin Conversation \cup Request
    /\ Request \cap Conversation = {}
    /\ Plan \subseteq Seq(Seq(Node) \ {<<>>}) \ {<<>>}
    /\ Similar \subseteq Prompt \X Prompt /\ \A p \in Prompt : <<p, p>> \in Similar
    /\ Close \subseteq Prompt \X Prompt
    /\ DOMAIN Known = Prompt
    /\ \A p \in Prompt : [by |-> NoConversation] \notin Known[p]
    /\ _get_path \in [Conversation \cup Request -> Dir]
    /\ TurnFile \in [Conversation \cup Request -> File]
    /\ {max_requests_per_min, Window, TTL, MaxTime, MaxFailures} \subseteq Nat

VARIABLES
    now,
    rate_limits,     \* session -> its recently accepted requests
    stage,           \* where each request is
    plan,            \* the plan it has registered, or <<>>
    processes,       \* the registry: step -> process or NoProcess
    workspaces,      \* directories that exist
    turns,           \* file -> its turns; one that is missing or cannot be parsed
                     \* is read as one without any
    semantic_cache,  \* prompt -> entry or NoEntry
    memory,          \* key -> what the tiers of the memory manager have for it
    conv_obj,        \* the turns a request read before compiling
    report,          \* the processes its payload lists
    arrived,         \* when it was accepted: its time stamp in rate_limits
    failures,        \* failed reads and saves of conversations
    shared,          \* history: requests that met a rival, see Rivals
    at_risk          \* history: those that had returned when their file failed

vars == <<now, rate_limits, stage, plan, processes, workspaces, turns, semantic_cache,
          memory, conv_obj, report, arrived, failures, shared, at_risk>>

Time == 0..MaxTime
Outcome == {"cached", "aborted", "completed", "failed"}
Stage == {"new", "limited", "compiling", "scheduling"} \cup Outcome
Returned(r) == stage[r] \in Outcome

NoProcess == [parent_id |-> NoConversation, state |-> "NONE"]
NoAnswer == [by |-> NoConversation]
NoEntry == [response |-> NoAnswer, created_at |-> 0]

\* create_conversation makes an id of its own, here the request.
ConvId == Conversation \cup Request
Conv(r) == IF ConversationOf[r] = NoConversation THEN r ELSE ConversationOf[r]
DirOf(r) == _get_path[Conv(r)]
FileOf(r) == TurnFile[Conv(r)]

NodesOf(p) == {n \in Node : \E i \in DOMAIN p : \E j \in DOMAIN p[i] : p[i][j] = n}

Init ==
    /\ now = 0
    /\ rate_limits = [s \in Session |-> {}]
    /\ stage = [r \in Request |-> "new"]
    /\ plan = [r \in Request |-> <<>>]
    /\ processes = [n \in Node |-> NoProcess]
    /\ workspaces = {}
    /\ turns = [f \in File |-> <<>>]
    /\ semantic_cache = [p \in Prompt |-> NoEntry]
    /\ memory \in {m \in [Prompt -> SUBSET UNION {Known[p] : p \in Prompt}] :
                      \A p \in Prompt : m[p] \subseteq Known[p]}
    /\ conv_obj = [r \in Request |-> <<>>]
    /\ report = [r \in Request |-> {}]
    /\ arrived = [r \in Request |-> 0]
    /\ failures = 0
    /\ shared = {} /\ at_risk = {}

-----------------------------------------------------------------------------
(* Helpers of the steps.                                                   *)

Turn(r, answer) == [turn_id |-> r, user_prompt |-> PromptOf[r], response |-> answer]

\* A read or save of a conversation's file fails: the bound, and whom it may cost.
FileFails(r) ==
    /\ failures < MaxFailures
    /\ failures' = failures + 1
    /\ at_risk' = at_risk \cup
           {q \in Request : FileOf(q) = FileOf(r) /\ (q = r \/ Returned(q))}

\* append_turn to the history read before the compilation.
ReturnStale(r, outcome, answer) ==
    LET history == IF stage[r] = "new" THEN turns[FileOf(r)] ELSE conv_obj[r]
    IN /\ stage' = [stage EXCEPT ![r] = outcome]
       /\ turns' = [turns EXCEPT ![FileOf(r)] = Append(history, Turn(r, answer))]
       /\ UNCHANGED <<failures, at_risk>>

\* append_turn and the return of the payload. A file that cannot be read is taken
\* for a new one; one that cannot be saved stays, or is cut short by the opening.
Return(r, outcome, answer) ==
    /\ stage' = [stage EXCEPT ![r] = outcome]
    /\ \/ /\ turns' = [turns EXCEPT ![FileOf(r)] = Append(@, Turn(r, answer))]
          /\ UNCHANGED <<failures, at_risk>>
       \/ /\ FileFails(r)
          /\ \E left \in {<<Turn(r, answer)>>, turns[FileOf(r)], <<>>} :
                turns' = [turns EXCEPT ![FileOf(r)] = left]

\* Entries a query or get_stats finds expired are dropped.
Live(p) == /\ semantic_cache[p] # NoEntry
           /\ now - semantic_cache[p].created_at < TTL
Evicted == [p \in Prompt |-> IF Live(p) THEN semantic_cache[p] ELSE NoEntry]

Entry(answer) == [response |-> answer, created_at |-> now]

\* SemanticCache.store: a similar entry is renewed, the first of the list, or one
\* is added.
Store(cache, p, answer) ==
    LET near == {k \in Prompt : cache[k] # NoEntry /\ <<p, k>> \in Similar}
    IN \E k \in IF near = {} THEN {p} ELSE near :
          semantic_cache' = [cache EXCEPT ![k] = Entry(answer)]

\* What check_cache_hit may find for a prompt.
Found(p) == UNION {memory[k] : k \in {k \in Prompt : <<p, k>> \in Close}}

\* store_cache to L2: what L2 had for the key goes and the answer comes, unless the
\* write fails.
StoreMemory(p, answer) ==
    \E gone \in {{}} \cup {{a} : a \in memory[p]}, new \in {{}, {answer}} :
        memory' = [memory EXCEPT ![p] = (@ \ gone) \cup new]

\* The gateway reads the keys "user" and "agent_response" of each turn.
Get(turn, key, default) == IF key \in DOMAIN turn THEN turn[key] ELSE default
HistoryOf(conv) ==
    [i \in 1..2 * Len(conv) |->
        LET turn == conv[(i + 1) \div 2]
        IN IF i % 2 = 1 THEN Get(turn, "user", "") ELSE Get(turn, "agent_response", "")]

\* The compressor drops empty contents before anything else.
Compress(history) == SelectSeq(history, LAMBDA content : content # "")

-----------------------------------------------------------------------------
(* A request arrives.                                                      *)

\* A window that forgets a tick too early.
RecentForgetful(s) == {q \in rate_limits[s] : now - arrived[q] + 1 < Window}

\* RequestManager.validate_request: the list of time stamps is the set of the
\* requests they are of, since it is filtered and counted and its order not used.
Recent(s) == {q \in rate_limits[s] : now - arrived[q] < Window}

Reject(r) ==
    /\ stage[r] = "new"
    /\ Cardinality(Recent(SessionOf[r])) >= max_requests_per_min
    /\ rate_limits' = [rate_limits EXCEPT ![SessionOf[r]] = Recent(SessionOf[r])]
    /\ stage' = [stage EXCEPT ![r] = "limited"]
    /\ UNCHANGED <<now, plan, processes, workspaces, turns, semantic_cache, memory,
                   conv_obj, report, arrived, failures, shared, at_risk>>

Accept(r) ==
    /\ stage[r] = "new"
    /\ Cardinality(Recent(SessionOf[r])) < max_requests_per_min
    /\ rate_limits' = [rate_limits EXCEPT ![SessionOf[r]] =
                          Recent(SessionOf[r]) \cup {r}]
    /\ arrived' = [arrived EXCEPT ![r] = now]
    /\ UNCHANGED <<now, plan, processes, workspaces, memory, report, shared>>

\* The live entries that are similar enough; the code takes the most similar.
Hits(p) == {k \in Prompt : Live(k) /\ <<p, k>> \in Similar}

AnswerFromSemanticCache(r) ==
    /\ Accept(r)
    /\ semantic_cache' = Evicted
    /\ \E k \in Hits(PromptOf[r]) : Return(r, "cached", semantic_cache[k].response)
    /\ UNCHANGED conv_obj

\* What the memory manager knows goes to the semantic cache as well.
AnswerFromMemory(r) ==
    /\ Accept(r)
    /\ Hits(PromptOf[r]) = {}
    /\ \E a \in Found(PromptOf[r]) :
          /\ Store(Evicted, PromptOf[r], a)
          /\ Return(r, "cached", a)
    /\ UNCHANGED conv_obj

\* The history is read, if it can be.
StartCompile(r) ==
    /\ Accept(r)
    /\ Hits(PromptOf[r]) = {} /\ Found(PromptOf[r]) = {}
    /\ semantic_cache' = Evicted
    /\ \/ /\ conv_obj' = [conv_obj EXCEPT ![r] = turns[FileOf(r)]]
          /\ UNCHANGED failures
       \/ /\ failures < MaxFailures /\ failures' = failures + 1
          /\ UNCHANGED conv_obj
    /\ stage' = [stage EXCEPT ![r] = "compiling"]
    /\ UNCHANGED <<turns, at_risk>>

-----------------------------------------------------------------------------
(* compile returns or raises.                                              *)

\* The policy turns the plan down, or compile raised and no plan is bound.
Abort(r) ==
    /\ stage[r] = "compiling"
    /\ \E outcome \in {"aborted", "failed"} : Return(r, outcome, NoAnswer)
    /\ UNCHANGED <<now, rate_limits, plan, processes, workspaces, semantic_cache, memory,
                   conv_obj, report, arrived, shared>>

deprovision_container(r) == workspaces' = workspaces \ {DirOf(r)}

\* The plan is bound when provision_container raises: the handler removes the
\* conversation's directory, others' files in it included.
FailProvision(r) ==
    /\ stage[r] = "compiling"
    /\ Return(r, "failed", NoAnswer)
    /\ deprovision_container(r)
    /\ UNCHANGED <<now, rate_limits, plan, processes, semantic_cache, memory, conv_obj,
                   report, arrived, shared>>

\* Requests being scheduled that share the conversation, or a step's name.
Rivals(r, p) ==
    {q \in Request \ {r} : /\ stage[q] = "scheduling"
                           /\ \/ Conv(q) = Conv(r)
                              \/ NodesOf(plan[q]) \cap NodesOf(p) # {}}

\* register overwrites whatever process the step's name stood for.
Schedule(r) ==
    /\ stage[r] = "compiling"
    /\ \E p \in Plan :
          /\ plan' = [plan EXCEPT ![r] = p]
          /\ processes' = [n \in Node |->
                 IF n \in NodesOf(p) THEN [parent_id |-> Conv(r), state |-> "EXECUTING"]
                 ELSE processes[n]]
          /\ shared' = IF Rivals(r, p) = {} THEN shared
                       ELSE shared \cup {r} \cup Rivals(r, p)
    /\ workspaces' = workspaces \cup {DirOf(r)}
    /\ stage' = [stage EXCEPT ![r] = "scheduling"]
    /\ UNCHANGED <<now, rate_limits, turns, semantic_cache, memory, conv_obj, report,
                   arrived, failures, at_risk>>

-----------------------------------------------------------------------------
(* schedule_workflow runs.                                                 *)

\* The scheduler provisions again for each step it starts.
StartNode(r) ==
    /\ stage[r] = "scheduling"
    /\ DirOf(r) \notin workspaces
    /\ workspaces' = workspaces \cup {DirOf(r)}
    /\ UNCHANGED <<now, rate_limits, stage, plan, processes, turns, semantic_cache, memory,
                   conv_obj, report, arrived, failures, shared, at_risk>>

\* Whatever comes last is the answer.
LastNode(p) == p[Len(p)][1]

\* The step whose result is the answer: the first that verifies nothing, in the
\* last layer that has one; else the first of the last layer.
OutputNode(p) ==
    LET works(i) == {j \in DOMAIN p[i] : p[i][j] \notin Verification}
        layers == {i \in DOMAIN p : works(i) # {}}
    IN IF layers = {} THEN p[Len(p)][1]
       ELSE LET i == CHOOSE i \in layers : \A k \in layers : k <= i
            IN p[i][CHOOSE j \in works(i) : \A k \in works(i) : j <= k]

Answer(r) == [by |-> r, node |-> OutputNode(plan[r])]

\* Only the step the output is taken from is marked.
OutputTerminated(r) ==
    [n \in Node |-> IF n = OutputNode(plan[r]) /\ processes[n] # NoProcess
                    THEN [processes[n] EXCEPT !.state = "TERMINATED"]
                    ELSE processes[n]]

\* The registry after update_state(n, "TERMINATED") for the plan's steps.
Terminated(r) ==
    [n \in Node |-> IF n \in NodesOf(plan[r]) /\ processes[n] # NoProcess
                    THEN [processes[n] EXCEPT !.state = "TERMINATED"]
                    ELSE processes[n]]

\* The workflow's processes in the registry, whoever registered them.
Children(r) == {n \in Node : processes[n].parent_id = Conv(r)}

\* The listed processes stay.
Unpurged(r) == Terminated(r)

\* The registry once the listed processes are removed.
Purged(r) ==
    [n \in Node |-> IF n \in Children(r) THEN NoProcess ELSE Terminated(r)[n]]

\* Any output is stored in both caches; the workspace goes; the workflow's
\* processes are listed and removed.
Complete(r) ==
    /\ stage[r] = "scheduling"
    /\ StoreMemory(PromptOf[r], Answer(r))
    /\ Store(semantic_cache, PromptOf[r], Answer(r))
    /\ deprovision_container(r)
    /\ report' = [report EXCEPT ![r] =
                     {<<n, Terminated(r)[n].state>> : n \in Children(r)}]
    /\ processes' = Purged(r)
    /\ Return(r, "completed", Answer(r))
    /\ UNCHANGED <<now, rate_limits, plan, conv_obj, arrived, shared>>

\* A handler that forgets the directory.
FailUncleaned(r) ==
    /\ stage[r] = "scheduling"
    /\ Return(r, "failed", NoAnswer)
    /\ UNCHANGED <<now, rate_limits, plan, processes, workspaces, semantic_cache, memory,
                   conv_obj, report, arrived, shared>>

\* schedule_workflow raises: the processes stay in the registry.
Fail(r) ==
    /\ stage[r] = "scheduling"
    /\ deprovision_container(r)
    /\ Return(r, "failed", NoAnswer)
    /\ UNCHANGED <<now, rate_limits, plan, processes, semantic_cache, memory, conv_obj,
                   report, arrived, shared>>

Tick ==
    /\ now < MaxTime
    /\ now' = now + 1
    /\ UNCHANGED <<rate_limits, stage, plan, processes, workspaces, turns, semantic_cache,
                   memory, conv_obj, report, arrived, failures, shared, at_risk>>

Next ==
    \/ \E r \in Request :
          \/ Reject(r) \/ AnswerFromSemanticCache(r) \/ AnswerFromMemory(r)
          \/ StartCompile(r) \/ Abort(r) \/ FailProvision(r) \/ Schedule(r)
          \/ StartNode(r) \/ Complete(r) \/ Fail(r)
    \/ Tick

Spec == Init /\ [][Next]_vars

-----------------------------------------------------------------------------
(* Properties.                                                             *)

Process == [parent_id : ConvId, state : {"EXECUTING", "TERMINATED"}]
Answers == [by : Request, node : Node]
Replies == Answers \cup UNION {Known[p] : p \in Prompt}
Entries == [response : Replies, created_at : Time]
Turns == [turn_id : Request, user_prompt : Prompt, response : Replies \cup {NoAnswer}]
Line == Node \X {"EXECUTING", "TERMINATED"}

\* Every variable stays in its range.
TypeOK ==
    /\ now \in Time
    /\ rate_limits \in [Session -> SUBSET Request]
    /\ stage \in [Request -> Stage]
    /\ plan \in [Request -> Plan \cup {<<>>}]
    /\ processes \in [Node -> Process \cup {NoProcess}]
    /\ workspaces \subseteq Dir
    /\ turns \in [File -> Seq(Turns)]
    /\ semantic_cache \in [Prompt -> Entries \cup {NoEntry}]
    /\ memory \in [Prompt -> SUBSET Replies]
    /\ conv_obj \in [Request -> Seq(Turns)]
    /\ report \in [Request -> SUBSET Line]
    /\ arrived \in [Request -> Time]
    /\ failures \in 0..MaxFailures
    /\ shared \subseteq Request /\ at_risk \subseteq Request

\* A process in the registry belongs to a workflow one of whose requests still
\* runs it, or failed after registering it: completed requests leave nothing,
\* whichever requests overwrote or removed each other's entries.
EntriesHaveOwners ==
    \A n \in Node : processes[n] # NoProcess =>
        \E r \in Request : /\ Conv(r) = processes[n].parent_id
                           /\ n \in NodesOf(plan[r])
                           /\ stage[r] \in {"scheduling", "failed"}

\* A directory outlives no request: each is named by the conversation of a request
\* being scheduled, even when the end of another, of this conversation or one whose
\* id names the same directory, removed it and a step put it back.
NoWorkspaceLeft ==
    workspaces \subseteq {DirOf(r) : r \in {q \in Request : stage[q] = "scheduling"}}

\* A completed request that met no rival lists each of its steps as TERMINATED;
\* what else it lists was left behind by a failed request of its conversation.
ReportsCoverOwnNodes ==
    \A r \in Request : stage[r] = "completed" /\ r \notin shared =>
        /\ \A n \in NodesOf(plan[r]) : <<n, "TERMINATED">> \in report[r]
        /\ \A e \in report[r] : e[1] \notin NodesOf(plan[r]) =>
              \E q \in Request : /\ stage[q] = "failed" /\ Conv(q) = Conv(r)
                                 /\ e[1] \in NodesOf(plan[q])

\* An answer for a prompt: known when the gateway started, or computed by a completed
\* request for it, by a step that does the work if its plan has one.
AnswerFor(a, p) ==
    \/ a \in Known[p]
    \/ /\ a \in Answers /\ stage[a.by] = "completed" /\ PromptOf[a.by] = p
       /\ a.node \in Verification => NodesOf(plan[a.by]) \subseteq Verification

\* Memory has answers for its own keys; an entry of the semantic cache is for a
\* prompt similar to its own, or for a key of memory close to it. Entries are
\* renewed by each other's requests, and the answers do not drift: no entry's
\* answer goes on to a second one.
CachesHoldAnswers ==
    \A k \in Prompt :
        /\ \A a \in memory[k] : AnswerFor(a, k)
        /\ semantic_cache[k] # NoEntry =>
              \E p \in Prompt : /\ <<p, k>> \in Similar \/ <<k, p>> \in Close
                                /\ AnswerFor(semantic_cache[k].response, p)

\* No window of the limiter's length holds more accepted requests of a session
\* than the limit, wherever it starts.
RateHolds ==
    \A s \in Session, t \in Time :
        Cardinality({r \in Request : /\ SessionOf[r] = s
                                     /\ stage[r] \notin {"new", "limited"}
                                     /\ arrived[r] <= t /\ t < arrived[r] + Window})
            <= max_requests_per_min

\* A turn is lost only to a read or save of its file that failed, when its request
\* returned or later: requests that overlap lose none of each other's. What a file
\* has are turns of requests that returned, each of them once.
TurnsKept ==
    /\ \A r \in Request : Returned(r) /\ r \notin at_risk =>
          \E i \in DOMAIN turns[FileOf(r)] : turns[FileOf(r)][i].turn_id = r
    /\ \A f \in File : \A i \in DOMAIN turns[f] :
          /\ Returned(turns[f][i].turn_id) /\ FileOf(turns[f][i].turn_id) = f
          /\ \A j \in DOMAIN turns[f] : turns[f][i].turn_id = turns[f][j].turn_id => i = j

\* The history a request has read reaches the compiler.
ContextReachesCompiler ==
    [][ \A r \in Request :
          stage[r] = "new" /\ stage'[r] = "compiling" /\ conv_obj'[r] # <<>> =>
              Compress(HistoryOf(conv_obj'[r])) # <<>> ]_vars

=============================================================================
