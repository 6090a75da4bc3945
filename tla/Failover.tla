------------------------------ MODULE Failover ------------------------------
(***************************************************************************)
(* ProviderInterface.execute (models/provider.py): calls of the runtimes   *)
(* walk their lists of provider entries side by side and share one map of  *)
(* providers that are out of balance and rest for a cooldown.              *)
(*                                                                         *)
(* A call suspends in the HTTP request and in the backoff; what it does in *)
(* between, the walk over resting providers included, is one step. The     *)
(* recursive call on a context overflow returns or raises through its      *)
(* caller unchanged, so only the innermost frame is kept, with its depth.  *)
(***************************************************************************)
EXTENDS Naturals, Sequences, FiniteSets

CONSTANTS
    Call,                 \* calls of execute
    Entry,                \* (provider, model) pairs of the routing chains
    Provider,
    ProviderOf,           \* the provider of an entry
    PrimaryOf,            \* the entry a call asks for
    RoutingChainOf,       \* its routing_chain
    TooSmallFor,          \* TooSmallFor[c]: entries whose context window is
                          \* below the call's estimated_tokens
    OverflowChain,        \* CAPABILITY_CATALOGUE's high_context_overflow
    MAX_RETRIES_PER_PROVIDER,
    Cooldown,             \* the 60 seconds a provider rests
    MaxTime, MaxDepth     \* bounds of the model: the clock, the recursion

ASSUME FailoverAssumption ==
    /\ ProviderOf \in [Entry -> Provider]
    /\ PrimaryOf \in [Call -> Entry]
    /\ RoutingChainOf \in [Call -> Seq(Entry)]
    /\ TooSmallFor \in [Call -> SUBSET Entry]
    /\ OverflowChain \in Seq(Entry) /\ OverflowChain # <<>>
    /\ MAX_RETRIES_PER_PROVIDER \in Nat
    /\ Cooldown \in Nat \ {0} /\ MaxTime \in Nat /\ MaxDepth \in Nat

VARIABLES
    now,              \* time.time()
    _dead_providers,  \* when a resting provider's cooldown ends, 0 for no entry
    state,            \* where the call is
    depth,            \* overflow upgrades so far
    at,               \* the place in the attempt list of the entry in use
    retry,            \* retries of this entry
    total_attempts,   \* requests of this frame
    outcome           \* outcome[c][i]: what became of the frame's i-th entry

vars == <<now, _dead_providers, state, depth, at, retry, total_attempts, outcome>>

State   == {"idle", "requesting", "backoff", "answered", "loopback", "cancelled"}
Waiting == {"requesting", "backoff"}
Outcome == {"untried", "skipped", "rate limit", "balance", "error", "overflow"}

-----------------------------------------------------------------------------
(* The attempt list: the primary entry in place 0, then the chain.         *)

Chain(c, up) == IF up = 0 THEN RoutingChainOf[c] ELSE OverflowChain

Primary(c, up) == IF up = 0 THEN PrimaryOf[c] ELSE OverflowChain[1]

EntryAt(c, up, i) == IF i = 0 THEN Primary(c, up) ELSE Chain(c, up)[i]

ProviderAt(c, up, i) == ProviderOf[EntryAt(c, up, i)]

\* _build_attempt_list: the primary always, a chain entry unless it is listed
\* before or too small; an upgraded frame does not look at sizes.
Attempts(c, up) ==
    {0} \cup
    {i \in 1 .. Len(Chain(c, up)) :
        /\ \A j \in 0 .. i - 1 : EntryAt(c, up, j) # EntryAt(c, up, i)
        /\ up # 0 \/ Chain(c, up)[i] \notin TooSmallFor[c]}

Resting(dead, p) == now < dead[p]

\* A test that only the head of the list is put to.
OpenCheckedAtHead(c, up, k, dead) ==
    {i \in Attempts(c, up) :
        i >= k /\ (i = 0 => ~Resting(dead, ProviderAt(c, up, i)))}

\* The entries from place k on that the loop would not skip.
Open(c, up, k, dead) ==
    {i \in Attempts(c, up) : i >= k /\ ~Resting(dead, ProviderAt(c, up, i))}

-----------------------------------------------------------------------------

Init ==
    /\ now = 0
    /\ _dead_providers = [p \in Provider |-> 0]
    /\ state = [c \in Call |-> "idle"]
    /\ depth = [c \in Call |-> 0]
    /\ at = [c \in Call |-> 0]
    /\ retry = [c \in Call |-> 0]
    /\ total_attempts = [c \in Call |-> 0]
    /\ outcome = [c \in Call |-> <<>>]

\* The outcomes after the loop passes the places from k up to q.
SkipTo(c, up, seen, k, q) ==
    [i \in Attempts(c, up) |-> IF i >= k /\ i < q THEN "skipped" ELSE seen[i]]

\* The loop goes on from place k: it skips resting providers, forgets a cooldown
\* that is over and sends the next request; past the last entry it gives the
\* emergency answer.
Walk(c, up, k, attempts, seen, dead) ==
    /\ depth' = [depth EXCEPT ![c] = up]
    /\ retry' = [retry EXCEPT ![c] = 0]
    /\ IF Open(c, up, k, dead) = {}
       THEN /\ state' = [state EXCEPT ![c] = "loopback"]
            /\ outcome' = [outcome EXCEPT
                             ![c] = SkipTo(c, up, seen, k, Len(Chain(c, up)) + 1)]
            /\ total_attempts' = [total_attempts EXCEPT ![c] = attempts]
            /\ _dead_providers' = dead
            /\ at' = [at EXCEPT ![c] = IF k = 0 THEN 0 ELSE @]
       ELSE \E q \in Open(c, up, k, dead) :
            /\ \A i \in Open(c, up, k, dead) : q <= i
            /\ state' = [state EXCEPT ![c] = "requesting"]
            /\ outcome' = [outcome EXCEPT ![c] = SkipTo(c, up, seen, k, q)]
            /\ total_attempts' = [total_attempts EXCEPT ![c] = attempts + 1]
            /\ _dead_providers' = [dead EXCEPT ![ProviderAt(c, up, q)] = 0]
            /\ at' = [at EXCEPT ![c] = q]
    /\ UNCHANGED now

\* A frame starts at the head of its attempt list.
Enter(c, up) ==
    Walk(c, up, 0, 0, [i \in Attempts(c, up) |-> "untried"], _dead_providers)

execute(c) ==
    /\ state[c] = "idle"
    /\ Enter(c, 0)

\* The entry in use is given up for this reason.
Escalate(c, reason, dead) ==
    Walk(c, depth[c], at[c] + 1, total_attempts[c],
         [outcome[c] EXCEPT ![at[c]] = reason], dead)

-----------------------------------------------------------------------------
(* What becomes of a request.                                              *)

Provider_(c) == ProviderAt(c, depth[c], at[c])

\* A success that takes the provider for alive again.
AnswerReviving(c) ==
    /\ state[c] = "requesting"
    /\ state' = [state EXCEPT ![c] = "answered"]
    /\ _dead_providers' = [_dead_providers EXCEPT ![Provider_(c)] = 0]
    /\ UNCHANGED <<now, depth, at, retry, total_attempts, outcome>>

Answer(c) ==
    /\ state[c] = "requesting"
    /\ state' = [state EXCEPT ![c] = "answered"]
    /\ UNCHANGED <<now, _dead_providers, depth, at, retry, total_attempts, outcome>>

\* An off-by-one in the bound of the retries.
RateLimitOnceMore(c) ==
    /\ state[c] = "requesting"
    /\ IF retry[c] <= MAX_RETRIES_PER_PROVIDER
       THEN /\ state' = [state EXCEPT ![c] = "backoff"]
            /\ UNCHANGED <<now, _dead_providers, depth, at, retry, total_attempts, outcome>>
       ELSE Escalate(c, "rate limit", _dead_providers)

\* 429: back off, or go on to the next entry when the retries are used up.
RateLimit(c) ==
    /\ state[c] = "requesting"
    /\ IF retry[c] < MAX_RETRIES_PER_PROVIDER
       THEN /\ state' = [state EXCEPT ![c] = "backoff"]
            /\ UNCHANGED <<now, _dead_providers, depth, at, retry, total_attempts, outcome>>
       ELSE Escalate(c, "rate limit", _dead_providers)

\* A counter that never moves.
RetryUncounted(c) ==
    /\ state[c] = "backoff"
    /\ state' = [state EXCEPT ![c] = "requesting"]
    /\ UNCHANGED <<now, _dead_providers, depth, at, outcome, retry, total_attempts>>

\* After the backoff the same request again, whatever has been learnt of the
\* provider in the meantime.
Retry(c) ==
    /\ state[c] = "backoff"
    /\ state' = [state EXCEPT ![c] = "requesting"]
    /\ retry' = [retry EXCEPT ![c] = @ + 1]
    /\ total_attempts' = [total_attempts EXCEPT ![c] = @ + 1]
    /\ UNCHANGED <<now, _dead_providers, depth, at, outcome>>

\* 402: the provider rests, and the loop goes on.
BalanceExhausted(c) ==
    /\ state[c] = "requesting"
    /\ Escalate(c, "balance",
                [_dead_providers EXCEPT ![Provider_(c)] = now + Cooldown])

\* A handler that leaves the loop over the entries, not only the retries.
ServerErrorFatal(c) ==
    /\ state[c] = "requesting"
    /\ state' = [state EXCEPT ![c] = "loopback"]
    /\ outcome' = [outcome EXCEPT ![c][at[c]] = "error"]
    /\ UNCHANGED <<now, _dead_providers, depth, at, retry, total_attempts>>

\* Any other status, a transport failure or a missing key: the next entry.
ServerError(c) ==
    /\ state[c] = "requesting"
    /\ Escalate(c, "error", _dead_providers)

\* The request does not fit the model's context: execute calls itself with the
\* overflow chain.
ContextOverflow(c) ==
    /\ state[c] = "requesting"
    /\ depth[c] < MaxDepth
    /\ Enter(c, depth[c] + 1)

\* The scheduler's time limit cancels the call where it waits.
Cancel(c) ==
    /\ state[c] \in Waiting
    /\ state' = [state EXCEPT ![c] = "cancelled"]
    /\ UNCHANGED <<now, _dead_providers, depth, at, retry, total_attempts, outcome>>

Tick ==
    /\ now < MaxTime
    /\ now' = now + 1
    /\ UNCHANGED <<_dead_providers, state, depth, at, retry, total_attempts, outcome>>

-----------------------------------------------------------------------------

\* The HTTP client's time limit and asyncio.sleep end every wait.
Settle(c) ==
    \/ Answer(c) \/ RateLimit(c) \/ Retry(c) \/ BalanceExhausted(c)
    \/ ServerError(c) \/ ContextOverflow(c)

Ended == {"answered", "loopback", "cancelled"}

\* No call is under way, and the model's clock has stopped.
Quiet ==
    /\ \A c \in Call : state[c] \in Ended
    /\ now = MaxTime
    /\ UNCHANGED vars

Next ==
    \/ \E c \in Call : execute(c) \/ Settle(c) \/ Cancel(c)
    \/ Tick
    \/ Quiet

Spec == Init /\ [][Next]_vars

FairSpec == Spec /\ \A c \in Call : WF_vars(Settle(c))

-----------------------------------------------------------------------------
(* Properties.                                                             *)

\* Every variable stays in its range.
TypeOK ==
    /\ now \in 0 .. MaxTime
    /\ _dead_providers \in [Provider -> 0 .. MaxTime + Cooldown]
    /\ state \in [Call -> State]
    /\ depth \in [Call -> 0 .. MaxDepth]
    /\ retry \in [Call -> 0 .. MAX_RETRIES_PER_PROVIDER]
    /\ total_attempts \in [Call -> Nat]
    /\ \A c \in Call :
          state[c] # "idle" =>
              /\ at[c] \in Attempts(c, depth[c])
              /\ outcome[c] \in [Attempts(c, depth[c]) -> Outcome]

\* The emergency answer is the last resort of its frame: every entry of the list
\* has been tried and failed or was resting when its turn came, whatever the
\* other calls did to the shared map meanwhile. (An upgraded frame answers for
\* its caller, whose later entries are then never tried.)
LoopbackIsLastResort ==
    \A c \in Call : state[c] = "loopback" =>
        \A i \in Attempts(c, depth[c]) : outcome[c][i] # "untried"

\* A frame makes at most 1 + MAX_RETRIES_PER_PROVIDER requests for each entry it
\* has turned to, so the number of requests is bounded by the list.
AttemptsBounded ==
    \A c \in Call :
        total_attempts[c] <= (1 + MAX_RETRIES_PER_PROVIDER) * (at[c] + 1)

\* A call never turns to an entry whose provider rests, even if another call
\* put it to rest after this one had built its list, or if the call itself has
\* just been told that the provider is out of balance.
NeverTurnsToResting ==
    [][ \A c \in Call :
          /\ state'[c] = "requesting"
          /\ state[c] = "idle" \/ at'[c] # at[c] \/ depth'[c] # depth[c]
          => /\ ~Resting(_dead_providers, ProviderAt(c, depth'[c], at'[c]))
             /\ depth'[c] = depth[c] /\ at'[c] # at[c] /\ outcome'[c][at[c]] = "balance"
                  => ProviderAt(c, depth[c], at'[c]) # ProviderAt(c, depth[c], at[c]) ]_vars

\* A rest once ordered is not cut short: neither a success nor a failure of a
\* request that was under way makes the provider usable before its time.
RestsRunTheirTime ==
    [][ \A p \in Provider :
          _dead_providers'[p] < _dead_providers[p] => now >= _dead_providers[p] ]_vars

\* Each call comes to an end: retries, failover and upgrades are finite as long
\* as a request does not overflow MaxDepth times in a row.
CallsEnd ==
    \A c \in Call : (state[c] \in Waiting) ~> (state[c] \in Ended)

=============================================================================
