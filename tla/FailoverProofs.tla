--------------------------- MODULE FailoverProofs ---------------------------
(***************************************************************************)
(* Failover for any calls, chains and bounds: the walk over an attempt     *)
(* list leaves no entry out, never turns to a resting provider, makes a    *)
(* bounded number of requests, and no rest is cut short. The invariant     *)
(* says of each call what its frame has behind it.                         *)
(***************************************************************************)
EXTENDS Failover, TLAPS

M == MAX_RETRIES_PER_PROVIDER

\* A call in state s of a frame at depth up, at place a, with r retries, t
\* requests and outcomes o: all places before its own are done with, and the
\* requests are accounted for by the places.
CallOK(c, s, up, a, r, t, o) ==
    /\ s = "idle" => a = 0 /\ r = 0 /\ t = 0
    /\ s # "idle" => a \in Attempts(c, up) /\ o \in [Attempts(c, up) -> Outcome]
    /\ s \in Waiting => \A i \in Attempts(c, up) : i < a => o[i] # "untried"
    /\ s \in Waiting => t <= (1 + M) * a + r + 1
    /\ s = "backoff" => r < M
    /\ s = "loopback" => \A i \in Attempts(c, up) : o[i] # "untried"
    /\ t <= (1 + M) * (a + 1)

Ranges ==
    /\ now \in 0 .. MaxTime
    /\ _dead_providers \in [Provider -> 0 .. MaxTime + Cooldown]
    /\ state \in [Call -> State]
    /\ depth \in [Call -> 0 .. MaxDepth]
    /\ at \in [Call -> Nat]
    /\ retry \in [Call -> 0 .. M]
    /\ total_attempts \in [Call -> Nat]
    /\ outcome = [c \in Call |-> outcome[c]]

CallAt(c) ==
    CallOK(c, state[c], depth[c], at[c], retry[c], total_attempts[c], outcome[c])

IInv == Ranges /\ \A c \in Call : CallAt(c)

-----------------------------------------------------------------------------
(* Helpers.                                                                *)

\* Places are numbers up to the length of the chain, and 0 is one.
LEMMA Places ==
    ASSUME NEW c \in Call, NEW up \in Nat
    PROVE  /\ 0 \in Attempts(c, up)
           /\ Len(Chain(c, up)) \in Nat
           /\ \A i \in Attempts(c, up) : i \in Nat /\ i <= Len(Chain(c, up))
           /\ \A i \in Attempts(c, up) : ProviderAt(c, up, i) \in Provider
<1>1. Chain(c, up) \in Seq(Entry) /\ Primary(c, up) \in Entry
  BY FailoverAssumption DEF Chain, Primary
<1>2. \A i \in Attempts(c, up) :
          i \in Nat /\ i <= Len(Chain(c, up)) /\ EntryAt(c, up, i) \in Entry
  BY <1>1 DEF Attempts, EntryAt
<1> QED
  BY <1>1, <1>2, FailoverAssumption DEF Attempts, ProviderAt

\* A later place has room for all the requests of the places before it.
LEMMA Room ==
    ASSUME NEW a \in Nat, NEW q \in Nat, a + 1 <= q
    PROVE  (1 + M) * (a + 1) <= (1 + M) * q
<1>1. M \in Nat
  BY FailoverAssumption DEF M
<1>2. \A x, y, z \in Nat : x <= y => z * x <= z * y
  OBVIOUS
<1> QED
  BY <1>1, <1>2

\* The bound at a place, taken apart.
LEMMA Bound ==
    ASSUME NEW a \in Nat
    PROVE  /\ (1 + M) * (a + 1) = (1 + M) * a + 1 + M
           /\ (1 + M) * a \in Nat
<1>1. M \in Nat
  BY FailoverAssumption DEF M
<1> QED
  BY <1>1

\* A rest ordered now ends within the range of the map, and not now.
LEMMA CooldownAhead ==
    ASSUME IInv
    PROVE  now + Cooldown \in 0 .. MaxTime + Cooldown /\ ~(now >= now + Cooldown)
<1>1. now \in 0 .. MaxTime /\ MaxTime \in Nat /\ Cooldown \in Nat /\ Cooldown # 0
  BY FailoverAssumption DEF IInv, Ranges
<1> QED
  BY <1>1

\* A step that changes one call and leaves that call in order.
LEMMA OneCall ==
    ASSUME IInv, NEW c \in Call,
           now' = now, _dead_providers' \in [Provider -> 0 .. MaxTime + Cooldown],
           NEW s \in State, NEW up \in 0 .. MaxDepth, NEW a \in Nat, NEW r \in 0 .. M,
           NEW t \in Nat, NEW o,
           state' = [state EXCEPT ![c] = s], depth' = [depth EXCEPT ![c] = up],
           at' = [at EXCEPT ![c] = a], retry' = [retry EXCEPT ![c] = r],
           total_attempts' = [total_attempts EXCEPT ![c] = t],
           outcome' = [outcome EXCEPT ![c] = o],
           CallOK(c, s, up, a, r, t, o)
    PROVE  IInv'
<1> USE DEF IInv, Ranges
<1>1. /\ state'[c] = s /\ depth'[c] = up /\ at'[c] = a /\ retry'[c] = r
      /\ total_attempts'[c] = t /\ outcome'[c] = o
  OBVIOUS
<1>2. ASSUME NEW b \in Call \ {c}
      PROVE  /\ state'[b] = state[b] /\ depth'[b] = depth[b] /\ at'[b] = at[b]
             /\ retry'[b] = retry[b] /\ total_attempts'[b] = total_attempts[b]
             /\ outcome'[b] = outcome[b]
  OBVIOUS
<1>3. ASSUME NEW b \in Call \ {c} PROVE CallAt(b)'
  BY <1>2, <1>3 DEF CallAt
<1>4. CallAt(c)'
  BY <1>1 DEF CallAt
<1>5. outcome' = [b \in Call |-> outcome'[b]]
  OBVIOUS
<1> QED
  BY <1>3, <1>4, <1>5

\* Going on from place k leaves the call in order: in a new frame, or after the
\* entry before place k has been given up.
LEMMA WalkStep ==
    ASSUME IInv, NEW c \in Call, NEW up \in 0 .. MaxDepth, NEW k \in Nat,
           NEW t \in Nat, NEW seen \in [Attempts(c, up) -> Outcome],
           NEW dead \in [Provider -> 0 .. MaxTime + Cooldown],
           k = 0 \/ (up = depth[c] /\ state[c] # "idle" /\ k = at[c] + 1),
           k = 0 => t = 0,
           t <= (1 + M) * k,
           \A i \in Attempts(c, up) : i < k => seen[i] # "untried",
           Walk(c, up, k, t, seen, dead)
    PROVE  IInv'
<1> USE DEF IInv, Ranges
<1>1. up \in Nat /\ M \in Nat /\ MaxDepth \in Nat
  BY FailoverAssumption DEF M
<1>2. /\ 0 \in Attempts(c, up)
      /\ Len(Chain(c, up)) \in Nat
      /\ \A i \in Attempts(c, up) : i \in Nat /\ i <= Len(Chain(c, up))
      /\ \A i \in Attempts(c, up) : ProviderAt(c, up, i) \in Provider
  BY <1>1, Places
<1>3. now' = now /\ depth' = [depth EXCEPT ![c] = up] /\ retry' = [retry EXCEPT ![c] = 0]
  BY DEF Walk
<1>4. ASSUME NEW q \in Nat
      PROVE  SkipTo(c, up, seen, k, q) \in [Attempts(c, up) -> Outcome]
  BY DEF SkipTo, Outcome
<1>5. CASE Open(c, up, k, dead) = {}
  <2> DEFINE a == IF k = 0 THEN 0 ELSE at[c]
             o == SkipTo(c, up, seen, k, Len(Chain(c, up)) + 1)
  <2>1. /\ state' = [state EXCEPT ![c] = "loopback"]
        /\ outcome' = [outcome EXCEPT ![c] = o]
        /\ total_attempts' = [total_attempts EXCEPT ![c] = t]
        /\ _dead_providers' = dead
        /\ at' = [at EXCEPT ![c] = IF k = 0 THEN 0 ELSE @]
    BY <1>5 DEF Walk
  <2>2. at' = [at EXCEPT ![c] = a]
    BY <2>1
  <2>3. a \in Attempts(c, up) /\ a \in Nat
    BY <1>2 DEF CallAt, CallOK
  <2>4. o \in [Attempts(c, up) -> Outcome]
    <3>1. Len(Chain(c, up)) + 1 \in Nat
      BY <1>2
    <3> QED
      BY <3>1, <1>4
  <2>5. \A i \in Attempts(c, up) : o[i] # "untried"
    BY <1>2 DEF SkipTo
  <2>6. t <= (1 + M) * (a + 1)
    <3>1. CASE k = 0
      BY <1>1, <3>1, <2>3, Bound
    <3>2. CASE k # 0
      BY <3>2
    <3> QED
      BY <3>1, <3>2
  <2>7. CallOK(c, "loopback", up, a, 0, t, o)
    BY <2>3, <2>4, <2>5, <2>6 DEF CallOK, Waiting
  <2>8. 0 \in 0 .. M /\ "loopback" \in State
    BY <1>1 DEF State
  <2> HIDE DEF a, o
  <2>9. outcome' = [outcome EXCEPT ![c] = o]
    BY <2>1
  <2> QED
    BY <1>3, <2>1, <2>2, <2>3, <2>7, <2>8, <2>9, OneCall
<1>6. CASE Open(c, up, k, dead) # {}
  <2>1. PICK q \in Open(c, up, k, dead) :
            /\ \A i \in Open(c, up, k, dead) : q <= i
            /\ state' = [state EXCEPT ![c] = "requesting"]
            /\ outcome' = [outcome EXCEPT ![c] = SkipTo(c, up, seen, k, q)]
            /\ total_attempts' = [total_attempts EXCEPT ![c] = t + 1]
            /\ _dead_providers' = [dead EXCEPT ![ProviderAt(c, up, q)] = 0]
            /\ at' = [at EXCEPT ![c] = q]
    BY <1>6 DEF Walk
  <2> DEFINE o == SkipTo(c, up, seen, k, q)
  <2>2. q \in Attempts(c, up) /\ q \in Nat /\ k <= q
    BY <1>2 DEF Open
  <2>3. o \in [Attempts(c, up) -> Outcome]
    BY <1>4, <2>2
  <2>4. \A i \in Attempts(c, up) : i < q => o[i] # "untried"
    BY <1>2, <2>2 DEF SkipTo
  <2>5. t <= (1 + M) * q
    <3>1. CASE k = 0
      BY <1>1, <2>2, <3>1, Bound
    <3>2. CASE k # 0
      <4>1. at[c] \in Nat /\ k = at[c] + 1
        BY <3>2
      <4>2. (1 + M) * (at[c] + 1) <= (1 + M) * q
        BY <2>2, <4>1, Room
      <4>3. (1 + M) * (at[c] + 1) \in Nat /\ (1 + M) * q \in Nat
        BY <1>1, <2>2, <4>1
      <4> QED
        BY <4>1, <4>2, <4>3
    <3> QED
      BY <3>1, <3>2
  <2>6. t + 1 <= (1 + M) * q + 0 + 1 /\ t + 1 <= (1 + M) * (q + 1)
    BY <1>1, <2>2, <2>5, Bound
  <2>7. CallOK(c, "requesting", up, q, 0, t + 1, o)
    BY <2>2, <2>3, <2>4, <2>6 DEF CallOK
  <2>8. _dead_providers' \in [Provider -> 0 .. MaxTime + Cooldown]
    <3>1. 0 \in 0 .. MaxTime + Cooldown
      BY FailoverAssumption
    <3> QED
      BY <2>1, <3>1
  <2> HIDE DEF o
  <2>9. t + 1 \in Nat /\ 0 \in 0 .. M /\ "requesting" \in State
    BY <1>1 DEF State
  <2>10. outcome' = [outcome EXCEPT ![c] = o]
    BY <2>1 DEF o
  <2> QED
    BY <1>3, <2>1, <2>2, <2>7, <2>8, <2>9, <2>10, OneCall
<1> QED
  BY <1>5, <1>6

\* So does giving up the entry in use.
LEMMA EscalateStep ==
    ASSUME IInv, NEW c \in Call, state[c] = "requesting",
           NEW reason \in Outcome \ {"untried"},
           NEW dead \in [Provider -> 0 .. MaxTime + Cooldown],
           Escalate(c, reason, dead)
    PROVE  IInv'
<1> DEFINE seen == [outcome[c] EXCEPT ![at[c]] = reason]
<1>1. /\ at[c] \in Nat /\ depth[c] \in 0 .. MaxDepth /\ total_attempts[c] \in Nat
      /\ CallAt(c)
  BY DEF IInv, Ranges
<1>2. /\ at[c] \in Attempts(c, depth[c])
      /\ outcome[c] \in [Attempts(c, depth[c]) -> Outcome]
      /\ \A i \in Attempts(c, depth[c]) : i < at[c] => outcome[c][i] # "untried"
      /\ total_attempts[c] <= (1 + M) * (at[c] + 1)
  BY <1>1 DEF CallAt, CallOK, Waiting
<1>3. seen \in [Attempts(c, depth[c]) -> Outcome]
  BY <1>2
<1>4. \A i \in Attempts(c, depth[c]) : i \in Nat
  BY <1>1, Places, FailoverAssumption
<1>5. \A i \in Attempts(c, depth[c]) : i < at[c] + 1 => seen[i] # "untried"
  BY <1>1, <1>2, <1>4
<1>6. Walk(c, depth[c], at[c] + 1, total_attempts[c], seen, dead)
  BY DEF Escalate
<1>7. at[c] + 1 \in Nat /\ at[c] + 1 # 0
  BY <1>1
<1> HIDE DEF seen
<1> QED
  BY <1>1, <1>2, <1>3, <1>5, <1>6, <1>7, WalkStep

\* And starting a frame.
LEMMA EnterStep ==
    ASSUME IInv, NEW c \in Call, NEW up \in 0 .. MaxDepth, Enter(c, up)
    PROVE  IInv'
<1> DEFINE seen == [i \in Attempts(c, up) |-> "untried"]
<1>1. up \in Nat
  BY FailoverAssumption
<1>2. seen \in [Attempts(c, up) -> Outcome]
  BY DEF Outcome
<1>3. \A i \in Attempts(c, up) : ~(i < 0)
  BY <1>1, Places
<1>4. Walk(c, up, 0, 0, seen, _dead_providers)
  BY DEF Enter
<1>5. _dead_providers \in [Provider -> 0 .. MaxTime + Cooldown]
  BY DEF IInv, Ranges
<1>6. 0 <= (1 + M) * 0
  BY FailoverAssumption DEF M
<1> HIDE DEF seen
<1> QED
  BY <1>2, <1>3, <1>4, <1>5, <1>6, WalkStep

\* The invariant holds before any call.
LEMMA InitIInv == Init => IInv
<1> SUFFICES ASSUME Init PROVE IInv
  OBVIOUS
<1>1. M \in Nat
  BY FailoverAssumption DEF M
<1>2. Ranges
  BY <1>1, FailoverAssumption DEF Init, Ranges, State
<1>3. ASSUME NEW c \in Call PROVE CallAt(c)
  BY <1>1 DEF Init, CallAt, CallOK, Waiting
<1> QED
  BY <1>2, <1>3 DEF IInv

\* Each step keeps the invariant.
LEMMA StepIInv ==
    ASSUME IInv, [Next]_vars
    PROVE  IInv'
<1>0. M \in Nat
  BY FailoverAssumption DEF M
<1>1. ASSUME NEW c \in Call, execute(c) PROVE IInv'
  BY <1>1, EnterStep, FailoverAssumption DEF execute
<1>2. ASSUME NEW c \in Call, Answer(c) \/ Cancel(c) PROVE IInv'
  <2>1. PICK s \in {"answered", "cancelled"} : state' = [state EXCEPT ![c] = s]
    BY <1>2 DEF Answer, Cancel
  <2>2. /\ CallAt(c) /\ state[c] # "idle"
        /\ UNCHANGED <<now, _dead_providers, depth, at, retry, total_attempts, outcome>>
    BY <1>2 DEF IInv, Answer, Cancel, Waiting
  <2>3. CallOK(c, s, depth[c], at[c], retry[c], total_attempts[c], outcome[c])
    BY <2>1, <2>2 DEF CallAt, CallOK, Waiting
  <2>4. IInv' <=> Ranges' /\ \A b \in Call : CallAt(b)'
    BY DEF IInv
  <2>5. Ranges'
    BY <2>1, <2>2 DEF IInv, Ranges, State
  <2>6. ASSUME NEW b \in Call PROVE CallAt(b)'
    BY <2>1, <2>2, <2>3 DEF IInv, Ranges, CallAt
  <2> QED
    BY <2>4, <2>5, <2>6
<1>3. ASSUME NEW c \in Call, RateLimit(c) PROVE IInv'
  <2>1. CASE retry[c] < M
    <3>1. /\ state[c] = "requesting" /\ state' = [state EXCEPT ![c] = "backoff"]
          /\ UNCHANGED <<now, _dead_providers, depth, at, retry, total_attempts, outcome>>
      BY <1>3, <2>1 DEF RateLimit, M
    <3>2. Ranges'
      BY <3>1 DEF IInv, Ranges, State
    <3>3. ASSUME NEW b \in Call PROVE CallAt(b)'
      BY <2>1, <3>1 DEF IInv, Ranges, CallAt, CallOK, Waiting
    <3> QED
      BY <3>2, <3>3 DEF IInv
  <2>2. CASE ~(retry[c] < M)
    BY <1>3, <2>2, EscalateStep DEF RateLimit, M, Outcome, IInv, Ranges
  <2> QED
    BY <2>1, <2>2
<1>4. ASSUME NEW c \in Call, Retry(c) PROVE IInv'
  <2>1. /\ state[c] = "backoff" /\ state' = [state EXCEPT ![c] = "requesting"]
        /\ retry' = [retry EXCEPT ![c] = retry[c] + 1]
        /\ total_attempts' = [total_attempts EXCEPT ![c] = total_attempts[c] + 1]
        /\ UNCHANGED <<now, _dead_providers, depth, at, outcome>>
    BY <1>4 DEF Retry
  <2>2. /\ at[c] \in Nat /\ retry[c] \in Nat /\ total_attempts[c] \in Nat
        /\ depth[c] \in 0 .. MaxDepth
        /\ CallAt(c)
    BY <1>0 DEF IInv, Ranges
  <2>3. /\ retry[c] < M
        /\ total_attempts[c] <= (1 + M) * at[c] + retry[c] + 1
    BY <2>1, <2>2 DEF CallAt, CallOK, Waiting
  <2>4. /\ retry[c] + 1 \in 0 .. M
        /\ total_attempts[c] + 1 \in Nat
        /\ total_attempts[c] + 1 <= (1 + M) * at[c] + (retry[c] + 1) + 1
        /\ total_attempts[c] + 1 <= (1 + M) * (at[c] + 1)
    <3>1. (1 + M) * at[c] \in Nat /\ (1 + M) * (at[c] + 1) = (1 + M) * at[c] + 1 + M
      BY <2>2, Bound
    <3> HIDE DEF M
    <3> QED
      BY <1>0, <2>2, <2>3, <3>1
  <2>5. CallOK(c, "requesting", depth[c], at[c], retry[c] + 1, total_attempts[c] + 1,
               outcome[c])
    BY <2>1, <2>2, <2>4 DEF CallAt, CallOK, Waiting
  <2>6. Ranges'
    BY <2>1, <2>4 DEF IInv, Ranges, State
  <2>7. ASSUME NEW b \in Call PROVE CallAt(b)'
    BY <2>1, <2>5 DEF IInv, Ranges, CallAt
  <2> QED
    BY <2>6, <2>7 DEF IInv
<1>5. ASSUME NEW c \in Call, BalanceExhausted(c) PROVE IInv'
  <2>1. [_dead_providers EXCEPT ![Provider_(c)] = now + Cooldown]
            \in [Provider -> 0 .. MaxTime + Cooldown]
    <3>1. now + Cooldown \in 0 .. MaxTime + Cooldown
      BY CooldownAhead
    <3> QED
      BY <3>1 DEF IInv, Ranges
  <2> QED
    BY <1>5, <2>1, EscalateStep DEF BalanceExhausted, Outcome
<1>6. ASSUME NEW c \in Call, ServerError(c) PROVE IInv'
  BY <1>6, EscalateStep DEF ServerError, Outcome, IInv, Ranges
<1>7. ASSUME NEW c \in Call, ContextOverflow(c) PROVE IInv'
  <2>1. depth[c] + 1 \in 0 .. MaxDepth
    BY <1>7, FailoverAssumption DEF ContextOverflow, IInv, Ranges
  <2> QED
    BY <1>7, <2>1, EnterStep DEF ContextOverflow
<1>8. CASE Tick
  BY <1>8, FailoverAssumption DEF Tick, IInv, Ranges, CallAt
<1>9. CASE UNCHANGED vars
  BY <1>9 DEF vars, IInv, Ranges, CallAt
<1> QED
  BY <1>1, <1>2, <1>3, <1>4, <1>5, <1>6, <1>7, <1>8, <1>9 DEF Next, Settle, Quiet

-----------------------------------------------------------------------------
(* The theorems.                                                           *)

\* The inductive invariant holds in every reachable state.
THEOREM InductiveInvariant == Spec => []IInv
<1> QED
  BY InitIInv, StepIInv, PTL DEF Spec

\* Every variable stays in its range, and a call's place is one of its list.
THEOREM TypeCorrect == Spec => []TypeOK
<1>1. IInv => TypeOK
  BY DEF IInv, Ranges, CallAt, CallOK, TypeOK, M
<1> QED
  BY <1>1, InductiveInvariant, PTL

\* No entry of the list is left out before the emergency answer.
THEOREM LastResort == Spec => []LoopbackIsLastResort
<1>1. IInv => LoopbackIsLastResort
  BY DEF IInv, CallAt, CallOK, LoopbackIsLastResort
<1> QED
  BY <1>1, InductiveInvariant, PTL

\* The requests of a frame are bounded by the entries it has turned to.
THEOREM RequestsBounded == Spec => []AttemptsBounded
<1>1. IInv => AttemptsBounded
  BY DEF IInv, CallAt, CallOK, AttemptsBounded, M
<1> QED
  BY <1>1, InductiveInvariant, PTL

\* Going on from some place leaves each entry of the map as it was given, or drops
\* it when its time is over.
MapKept(dead, p) ==
    \/ _dead_providers'[p] = dead[p]
    \/ _dead_providers'[p] = 0 /\ now >= dead[p]

\* A walk changes the map by dropping rests that are over.
LEMMA WalkMap ==
    ASSUME IInv, NEW c \in Call, NEW up \in 0 .. MaxDepth, NEW k, NEW t, NEW seen,
           NEW dead \in [Provider -> 0 .. MaxTime + Cooldown],
           Walk(c, up, k, t, seen, dead), NEW p \in Provider
    PROVE  MapKept(dead, p)
<1> USE DEF IInv, Ranges, MapKept
<1>1. up \in Nat /\ now \in Nat /\ dead[p] \in Nat
  BY FailoverAssumption
<1>2. \A i \in Attempts(c, up) : ProviderAt(c, up, i) \in Provider
  BY <1>1, Places
<1>3. CASE Open(c, up, k, dead) = {}
  BY <1>3 DEF Walk
<1>4. CASE Open(c, up, k, dead) # {}
  <2>1. PICK q \in Open(c, up, k, dead) :
            _dead_providers' = [dead EXCEPT ![ProviderAt(c, up, q)] = 0]
    BY <1>4 DEF Walk
  <2>2. ProviderAt(c, up, q) \in Provider /\ ~(now < dead[ProviderAt(c, up, q)])
    BY <1>2 DEF Open, Resting
  <2>3. CASE p = ProviderAt(c, up, q)
    BY <1>1, <2>1, <2>2, <2>3
  <2>4. CASE p # ProviderAt(c, up, q)
    BY <2>1, <2>4
  <2> QED
    BY <2>3, <2>4
<1> QED
  BY <1>3, <1>4

\* A rest ends at most a cooldown from now.
Fresh == \A p \in Provider : _dead_providers[p] <= now + Cooldown

\* What a step of one call does to the map: an entry stays as it was, is dropped
\* when its time is over, or is written for a whole cooldown from now.
LEMMA MapStep ==
    ASSUME IInv, [Next]_vars, NEW p \in Provider
    PROVE  \/ _dead_providers'[p] = _dead_providers[p]
           \/ _dead_providers'[p] = 0 /\ now >= _dead_providers[p]
           \/ _dead_providers'[p] = now + Cooldown
<1> USE DEF IInv, Ranges
<1>0. _dead_providers[p] \in Nat /\ now \in Nat
  BY FailoverAssumption
<1>1. CASE UNCHANGED _dead_providers
  BY <1>1
<1>2. ASSUME NEW c \in Call, NEW up \in 0 .. MaxDepth, Enter(c, up)
      PROVE  MapKept(_dead_providers, p)
  <2>1. _dead_providers \in [Provider -> 0 .. MaxTime + Cooldown]
    OBVIOUS
  <2>2. PICK k, t, seen : Walk(c, up, k, t, seen, _dead_providers)
    BY <1>2 DEF Enter
  <2> HIDE DEF IInv, Ranges
  <2> QED
    BY <2>1, <2>2, WalkMap
<1>3. ASSUME NEW c \in Call, NEW reason, NEW dead \in [Provider -> 0 .. MaxTime + Cooldown],
             Escalate(c, reason, dead)
      PROVE  MapKept(dead, p)
  <2>1. depth[c] \in 0 .. MaxDepth
    OBVIOUS
  <2>2. PICK k, t, seen : Walk(c, depth[c], k, t, seen, dead)
    BY <1>3 DEF Escalate
  <2> HIDE DEF IInv, Ranges
  <2> QED
    BY <2>1, <2>2, WalkMap
<1>4. ASSUME NEW c \in Call, BalanceExhausted(c)
      PROVE  \/ _dead_providers'[p] = _dead_providers[p]
             \/ _dead_providers'[p] = 0 /\ now >= _dead_providers[p]
             \/ _dead_providers'[p] = now + Cooldown
  <2> DEFINE dead == [_dead_providers EXCEPT ![Provider_(c)] = now + Cooldown]
  <2>1. now + Cooldown \in 0 .. MaxTime + Cooldown /\ ~(now >= now + Cooldown)
    BY CooldownAhead
  <2>2. dead \in [Provider -> 0 .. MaxTime + Cooldown]
    BY <2>1
  <2>3. dead[p] = _dead_providers[p] \/ dead[p] = now + Cooldown
    OBVIOUS
  <2>4. Escalate(c, "balance", dead)
    BY <1>4 DEF BalanceExhausted
  <2> HIDE DEF dead
  <2>5. MapKept(dead, p)
    BY <1>3, <2>2, <2>4
  <2> QED
    BY <2>1, <2>3, <2>5 DEF MapKept
<1>5. ASSUME NEW c \in Call, execute(c) \/ ContextOverflow(c)
      PROVE  MapKept(_dead_providers, p)
  <2>1. ContextOverflow(c) => depth[c] + 1 \in 0 .. MaxDepth
    BY FailoverAssumption DEF ContextOverflow
  <2>2. 0 \in 0 .. MaxDepth
    BY FailoverAssumption
  <2> QED
    BY <1>2, <1>5, <2>1, <2>2 DEF execute, ContextOverflow
<1>6. ASSUME NEW c \in Call, RateLimit(c) \/ ServerError(c)
      PROVE  MapKept(_dead_providers, p)
  BY <1>3, <1>6 DEF RateLimit, ServerError, MapKept
<1> QED
  BY <1>1, <1>4, <1>5, <1>6 DEF MapKept, Next, Settle, Answer, Retry, Cancel, Tick, Quiet, vars

\* Rests are fresh in every reachable state.
LEMMA AlwaysFresh == Spec => []Fresh
<1>1. Init => Fresh
  BY FailoverAssumption DEF Init, Fresh
<1>2. IInv /\ Fresh /\ [Next]_vars => Fresh'
  <2> SUFFICES ASSUME IInv, Fresh, [Next]_vars, NEW p \in Provider
               PROVE  _dead_providers'[p] <= now' + Cooldown
    BY DEF Fresh
  <2>1. now \in Nat /\ Cooldown \in Nat /\ _dead_providers[p] <= now + Cooldown
    BY FailoverAssumption DEF IInv, Ranges, Fresh
  <2>2. now' = now \/ now' = now + 1
    BY DEF Next, Settle, execute, Enter, Escalate, Walk, Answer, RateLimit, Retry,
       BalanceExhausted, ServerError, ContextOverflow, Cancel, Tick, Quiet, vars
  <2>3. _dead_providers[p] \in Nat
    BY FailoverAssumption DEF IInv, Ranges
  <2> QED
    BY <2>1, <2>2, <2>3, MapStep
<1> QED
  BY <1>1, <1>2, InductiveInvariant, PTL DEF Spec

\* Rests run their time: no step of any call cuts one short.
THEOREM NoRestCutShort == Spec => RestsRunTheirTime
<1> DEFINE Kept ==
      \A p \in Provider :
          _dead_providers'[p] < _dead_providers[p] => now >= _dead_providers[p]
<1>1. IInv /\ Fresh /\ [Next]_vars => Kept
  <2> SUFFICES ASSUME IInv, Fresh, [Next]_vars, NEW p \in Provider,
                      _dead_providers'[p] < _dead_providers[p]
               PROVE  now >= _dead_providers[p]
    OBVIOUS
  <2>1. /\ now \in Nat /\ Cooldown \in Nat /\ _dead_providers[p] \in Nat
        /\ _dead_providers[p] <= now + Cooldown
    BY FailoverAssumption DEF IInv, Ranges, Fresh
  <2> QED
    BY <2>1, MapStep
<1>2. IInv /\ Fresh /\ [Next]_vars => [Kept]_vars
  BY <1>1
<1> HIDE DEF Kept
<1>3. Spec => [][Kept]_vars
  BY <1>2, InductiveInvariant, AlwaysFresh, PTL DEF Spec
<1> QED
  BY <1>3 DEF Kept, RestsRunTheirTime

-----------------------------------------------------------------------------
(* Turning to the next entry.                                              *)

\* Where a walk that ends in a request has got to.
LEMMA WalkTurns ==
    ASSUME IInv, NEW c \in Call, NEW up, NEW k \in Nat, NEW t, NEW seen, NEW dead,
           Walk(c, up, k, t, seen, dead), state'[c] = "requesting"
    PROVE  /\ depth'[c] = up
           /\ at'[c] \in Attempts(c, up) /\ at'[c] >= k
           /\ ~Resting(dead, ProviderAt(c, up, at'[c]))
           /\ outcome'[c] = SkipTo(c, up, seen, k, at'[c])
<1> USE DEF IInv, Ranges
<1>1. depth'[c] = up
  BY DEF Walk
<1>2. Open(c, up, k, dead) # {}
  BY DEF Walk
<1>3. PICK q \in Open(c, up, k, dead) :
          /\ outcome' = [outcome EXCEPT ![c] = SkipTo(c, up, seen, k, q)]
          /\ at' = [at EXCEPT ![c] = q]
  BY <1>2 DEF Walk
<1>4. at'[c] = q /\ outcome'[c] = SkipTo(c, up, seen, k, q)
  BY <1>3
<1> QED
  BY <1>1, <1>4 DEF Open

\* A walk of one call leaves the place of any other alone.
LEMMA WalkOthers ==
    ASSUME IInv, NEW b \in Call, NEW c \in Call, b # c,
           NEW up, NEW k, NEW t, NEW seen, NEW dead, Walk(b, up, k, t, seen, dead)
    PROVE  state'[c] = state[c] /\ at'[c] = at[c] /\ depth'[c] = depth[c]
  BY DEF Walk, IInv, Ranges

\* What one call may turn to in a step.
TurnsWell(c) ==
    /\ state'[c] = "requesting"
    /\ state[c] = "idle" \/ at'[c] # at[c] \/ depth'[c] # depth[c]
    => /\ ~Resting(_dead_providers, ProviderAt(c, depth'[c], at'[c]))
       /\ depth'[c] = depth[c] /\ at'[c] # at[c] /\ outcome'[c][at[c]] = "balance"
            => ProviderAt(c, depth[c], at'[c]) # ProviderAt(c, depth[c], at[c])

\* A frame turns well when it starts: it passes what it skips.
LEMMA EnterTurns ==
    ASSUME IInv, NEW c \in Call, NEW up \in 0 .. MaxDepth, Enter(c, up),
           up # depth[c] \/ state[c] = "idle"
    PROVE  TurnsWell(c)
<1> DEFINE seen == [i \in Attempts(c, up) |-> "untried"]
<1> SUFFICES ASSUME state'[c] = "requesting" PROVE TurnsWell(c)
  BY DEF TurnsWell
<1>1. /\ depth'[c] = up
      /\ at'[c] \in Attempts(c, up)
      /\ ~Resting(_dead_providers, ProviderAt(c, up, at'[c]))
      /\ outcome'[c] = SkipTo(c, up, seen, 0, at'[c])
  BY WalkTurns DEF Enter
<1>2. CASE up # depth[c]
  BY <1>1, <1>2 DEF TurnsWell
<1>3. CASE state[c] = "idle"
  <2>1. at[c] = 0
    BY <1>3 DEF IInv, CallAt, CallOK
  <2>2. 0 \in Attempts(c, up) /\ at'[c] \in Nat
    BY <1>1, Places, FailoverAssumption
  <2>3. at'[c] # 0 => outcome'[c][0] = "skipped"
    BY <1>1, <2>2 DEF SkipTo
  <2> QED
    BY <1>1, <2>1, <2>3 DEF TurnsWell
<1> QED
  BY <1>2, <1>3

\* And when it goes on: only a provider that has no balance rests on its account,
\* and the same provider further down the list with it.
LEMMA EscalateTurns ==
    ASSUME IInv, NEW c \in Call, state[c] = "requesting", NEW reason, NEW dead,
           Escalate(c, reason, dead),
           \/ dead = _dead_providers /\ reason # "balance"
           \/ dead = [_dead_providers EXCEPT ![Provider_(c)] = now + Cooldown]
    PROVE  TurnsWell(c)
<1> DEFINE seen == [outcome[c] EXCEPT ![at[c]] = reason]
<1> SUFFICES ASSUME state'[c] = "requesting" PROVE TurnsWell(c)
  BY DEF TurnsWell
<1>1. /\ at[c] \in Nat /\ depth[c] \in Nat /\ at[c] \in Attempts(c, depth[c])
      /\ outcome[c] \in [Attempts(c, depth[c]) -> Outcome]
      /\ _dead_providers \in [Provider -> 0 .. MaxTime + Cooldown]
  BY FailoverAssumption DEF IInv, Ranges, CallAt, CallOK
<1>2. /\ depth'[c] = depth[c]
      /\ at'[c] \in Attempts(c, depth[c])
      /\ ~Resting(dead, ProviderAt(c, depth[c], at'[c]))
      /\ outcome'[c] = SkipTo(c, depth[c], seen, at[c] + 1, at'[c])
  <2>1. at[c] + 1 \in Nat
    BY <1>1
  <2>2. Walk(c, depth[c], at[c] + 1, total_attempts[c], seen, dead)
    BY DEF Escalate
  <2> HIDE DEF seen
  <2> QED
    BY <2>1, <2>2, WalkTurns
<1>3. outcome'[c][at[c]] = reason
  BY <1>1, <1>2 DEF SkipTo
<1>4. CASE dead = _dead_providers /\ reason # "balance"
  BY <1>2, <1>3, <1>4 DEF TurnsWell
<1>5. CASE dead = [_dead_providers EXCEPT ![Provider_(c)] = now + Cooldown]
  <2>1. ProviderAt(c, depth[c], at'[c]) \in Provider /\ Provider_(c) \in Provider
    BY <1>1, <1>2, Places DEF Provider_
  <2>2. ProviderAt(c, depth[c], at'[c]) # Provider_(c)
    <3>1. now \in Nat /\ Cooldown \in Nat /\ Cooldown # 0
      BY FailoverAssumption DEF IInv, Ranges
    <3>2. now < now + Cooldown
      BY <3>1
    <3>3. dead[Provider_(c)] = now + Cooldown
      BY <1>1, <1>5, <2>1
    <3> QED
      BY <1>2, <3>2, <3>3 DEF Resting
  <2>3. dead[ProviderAt(c, depth[c], at'[c])]
            = _dead_providers[ProviderAt(c, depth[c], at'[c])]
    BY <1>1, <1>5, <2>1, <2>2
  <2> QED
    BY <1>2, <2>2, <2>3 DEF TurnsWell, Resting, Provider_
<1> QED
  BY <1>4, <1>5

\* A call never turns to an entry whose provider rests, nor back to one that has
\* just told it that the balance is used up.
THEOREM TurnsToUsable == Spec => NeverTurnsToResting
<1> DEFINE Turned == \A c \in Call : TurnsWell(c)
<1>1. IInv /\ [Next]_vars => Turned
  <2> SUFFICES ASSUME IInv, [Next]_vars, NEW c \in Call PROVE TurnsWell(c)
    OBVIOUS
  <2>1. CASE \E b \in Call \ {c} : execute(b) \/ Settle(b) \/ Cancel(b)
    <3>1. state'[c] = state[c] /\ at'[c] = at[c] /\ depth'[c] = depth[c]
      BY <2>1, WalkOthers DEF Settle, execute, Enter, Escalate, Answer, RateLimit, Retry,
         BalanceExhausted, ServerError, ContextOverflow, Cancel, IInv, Ranges
    <3> QED
      BY <3>1 DEF TurnsWell
  <2>2. CASE execute(c)
    BY <2>2, EnterTurns, FailoverAssumption DEF execute
  <2>3. CASE ContextOverflow(c)
    <3>1. depth[c] + 1 \in 0 .. MaxDepth /\ depth[c] + 1 # depth[c]
      BY <2>3, FailoverAssumption DEF ContextOverflow, IInv, Ranges
    <3> QED
      BY <2>3, <3>1, EnterTurns DEF ContextOverflow
  <2>4. CASE BalanceExhausted(c)
    BY <2>4, EscalateTurns DEF BalanceExhausted
  <2>5. CASE ServerError(c)
    BY <2>5, EscalateTurns DEF ServerError
  <2>6. CASE RateLimit(c)
    <3>1. CASE Escalate(c, "rate limit", _dead_providers)
      BY <2>6, <3>1, EscalateTurns DEF RateLimit
    <3>2. CASE UNCHANGED <<depth, at>> /\ state[c] = "requesting"
      BY <3>2 DEF TurnsWell
    <3> QED
      BY <2>6, <3>1, <3>2 DEF RateLimit
  <2>7. CASE Answer(c) \/ Retry(c) \/ Cancel(c)
    BY <2>7 DEF Answer, Retry, Cancel, Waiting, TurnsWell
  <2>8. CASE Tick \/ UNCHANGED vars
    BY <2>8 DEF Tick, vars, TurnsWell
  <2> QED
    BY <2>1, <2>2, <2>3, <2>4, <2>5, <2>6, <2>7, <2>8 DEF Next, Settle, Quiet
<1>2. IInv /\ [Next]_vars => [Turned]_vars
  BY <1>1
<1> HIDE DEF Turned
<1>3. Spec => [][Turned]_vars
  BY <1>2, InductiveInvariant, PTL DEF Spec
<1> QED
  BY <1>3 DEF Turned, TurnsWell, NeverTurnsToResting

-----------------------------------------------------------------------------
(* Progress: of CallsEnd, the part that fairness does not give. A request  *)
(* that is answered and a backoff that ends always let the call go on; so  *)
(* it remains that it cannot go on forever.                                *)

\* Nothing happens to the call.
Stays(c) ==
    /\ state'[c] = state[c] /\ depth'[c] = depth[c]
    /\ at'[c] = at[c] /\ retry'[c] = retry[c]

\* The call ends, or is in a later frame, further down its list, at a later retry
\* or in the backoff after the request.
GetsOn(c) ==
    /\ state[c] \in Waiting
    /\ \/ state'[c] \in Ended
       \/ /\ state'[c] \in Waiting
          /\ \/ depth'[c] > depth[c]
             \/ depth'[c] = depth[c] /\ at'[c] > at[c]
             \/ depth'[c] = depth[c] /\ at'[c] = at[c] /\ retry'[c] > retry[c]
             \/ /\ depth'[c] = depth[c] /\ at'[c] = at[c] /\ retry'[c] = retry[c]
                /\ state[c] = "requesting" /\ state'[c] = "backoff"

CallsGetOn ==
    [][ \A c \in Call : state[c] # "idle" =>
            /\ Settle(c) => GetsOn(c)
            /\ Stays(c) \/ GetsOn(c) ]_vars

\* Going on from a place after its own gets a call on.
LEMMA WalkGetsOn ==
    ASSUME IInv, NEW c \in Call, state[c] \in Waiting, NEW up \in Nat, NEW k \in Nat,
           up > depth[c] \/ (up = depth[c] /\ k > at[c]),
           NEW t, NEW seen, NEW dead, Walk(c, up, k, t, seen, dead)
    PROVE  GetsOn(c)
<1> USE DEF IInv, Ranges
<1>1. depth[c] \in Nat /\ at[c] \in Nat
  BY FailoverAssumption
<1>2. state'[c] \in {"loopback", "requesting"}
  BY DEF Walk
<1>3. ASSUME state'[c] = "requesting"
      PROVE  depth'[c] = up /\ at'[c] >= k /\ at'[c] \in Nat
  <2>1. depth'[c] = up /\ at'[c] \in Attempts(c, up) /\ at'[c] >= k
    BY <1>3, WalkTurns
  <2> QED
    BY <2>1, Places
<1> QED
  BY <1>1, <1>2, <1>3 DEF GetsOn, Waiting, Ended

\* A step of a call gets it on, whatever becomes of its request.
LEMMA OwnStepGetsOn ==
    ASSUME IInv, NEW c \in Call, Settle(c) \/ Cancel(c)
    PROVE  GetsOn(c)
<1> USE DEF IInv, Ranges
<1>0. state[c] \in Waiting
  BY DEF Waiting, Settle, Answer, RateLimit, Retry, BalanceExhausted, ServerError,
     ContextOverflow, Cancel
<1>1. depth[c] \in Nat /\ at[c] \in Nat /\ retry[c] \in Nat /\ state[c] \in Waiting
  BY <1>0, FailoverAssumption DEF M
<1>2. ASSUME NEW reason, NEW dead, Escalate(c, reason, dead)
      PROVE  GetsOn(c)
  <2>1. at[c] + 1 \in Nat /\ at[c] + 1 > at[c]
    BY <1>1
  <2>2. PICK t, seen : Walk(c, depth[c], at[c] + 1, t, seen, dead)
    BY <1>2 DEF Escalate
  <2> HIDE DEF IInv, Ranges
  <2> QED
    BY <1>1, <2>1, <2>2, WalkGetsOn
<1>3. CASE ContextOverflow(c)
  <2>1. depth[c] + 1 \in Nat /\ depth[c] + 1 > depth[c]
    BY <1>1
  <2>2. PICK seen : Walk(c, depth[c] + 1, 0, 0, seen, _dead_providers)
    BY <1>3 DEF ContextOverflow, Enter
  <2> HIDE DEF IInv, Ranges
  <2> QED
    BY <1>1, <2>1, <2>2, WalkGetsOn
<1>4. CASE Answer(c) \/ Cancel(c)
  BY <1>1, <1>4 DEF Answer, Cancel, GetsOn, Ended
<1>5. CASE Retry(c)
  BY <1>1, <1>5 DEF Retry, GetsOn, Waiting
<1>6. CASE RateLimit(c)
  <2>1. CASE Escalate(c, "rate limit", _dead_providers)
    BY <1>2, <2>1
  <2>2. CASE ~Escalate(c, "rate limit", _dead_providers)
    BY <1>1, <1>6, <2>2 DEF RateLimit, GetsOn, Waiting
  <2> QED
    BY <2>1, <2>2
<1>7. CASE BalanceExhausted(c) \/ ServerError(c)
  BY <1>2, <1>7 DEF BalanceExhausted, ServerError
<1> QED
  BY <1>3, <1>4, <1>5, <1>6, <1>7 DEF Settle

\* A step of one call leaves any other where it is.
LEMMA OthersStay ==
    ASSUME IInv, NEW b \in Call, NEW c \in Call, b # c,
           execute(b) \/ Settle(b) \/ Cancel(b)
    PROVE  Stays(c)
<1>1. ASSUME NEW up, NEW k, NEW t, NEW seen, NEW dead, Walk(b, up, k, t, seen, dead)
      PROVE  Stays(c)
  BY <1>1 DEF Walk, Stays, IInv, Ranges
<1>2. CASE execute(b) \/ ContextOverflow(b)
  BY <1>1, <1>2 DEF execute, ContextOverflow, Enter
<1>3. ASSUME NEW reason, NEW dead, Escalate(b, reason, dead)
      PROVE  Stays(c)
  BY <1>1, <1>3 DEF Escalate
<1>4. CASE RateLimit(b) /\ ~Escalate(b, "rate limit", _dead_providers)
  BY <1>4 DEF RateLimit, Stays, IInv, Ranges
<1>5. CASE Answer(b) \/ Retry(b) \/ Cancel(b)
  BY <1>5 DEF Answer, Retry, Cancel, Stays, IInv, Ranges
<1> QED
  BY <1>2, <1>3, <1>4, <1>5 DEF Settle, RateLimit, BalanceExhausted, ServerError

\* THEOREM: each step of a call gets it on and no other step sets it back, in a
\* frame, list and retry count that are bounded: retries, failover and upgrades
\* of one call end, however the calls interleave.
THEOREM CallsRunOut ==
    Spec => /\ CallsGetOn
            /\ []( \A c \in Call : state[c] # "idle" =>
                     /\ depth[c] \in 0 .. MaxDepth
                     /\ at[c] \in 0 .. Len(Chain(c, depth[c]))
                     /\ retry[c] \in 0 .. MAX_RETRIES_PER_PROVIDER )
<1> DEFINE GotOn == \A c \in Call : state[c] # "idle" =>
                        /\ Settle(c) => GetsOn(c)
                        /\ Stays(c) \/ GetsOn(c)
           Bounded == \A c \in Call : state[c] # "idle" =>
                        /\ depth[c] \in 0 .. MaxDepth
                        /\ at[c] \in 0 .. Len(Chain(c, depth[c]))
                        /\ retry[c] \in 0 .. MAX_RETRIES_PER_PROVIDER
<1>1. ASSUME IInv, Next, NEW c \in Call, state[c] # "idle"
      PROVE  (Settle(c) => GetsOn(c)) /\ (Stays(c) \/ GetsOn(c))
  <2>1. CASE \E b \in Call \ {c} : execute(b) \/ Settle(b) \/ Cancel(b)
    <3>1. Stays(c)
      BY <1>1, <2>1, OthersStay
    <3> QED
      BY <1>1, <3>1, OwnStepGetsOn
  <2>2. CASE Settle(c) \/ Cancel(c)
    BY <1>1, <2>2, OwnStepGetsOn
  <2>3. CASE Tick \/ UNCHANGED vars
    BY <1>1, <2>3, OwnStepGetsOn DEF Tick, vars, Stays
  <2>4. ~execute(c)
    BY <1>1 DEF execute
  <2> QED
    BY <1>1, <2>1, <2>2, <2>3, <2>4 DEF Next, Quiet
<1>2. IInv /\ [Next]_vars => [GotOn]_vars
  BY <1>1
<1>3. IInv => Bounded
  <2> SUFFICES ASSUME IInv, NEW c \in Call, state[c] # "idle"
               PROVE  /\ depth[c] \in 0 .. MaxDepth
                      /\ at[c] \in 0 .. Len(Chain(c, depth[c]))
                      /\ retry[c] \in 0 .. MAX_RETRIES_PER_PROVIDER
    OBVIOUS
  <2>1. /\ depth[c] \in 0 .. MaxDepth /\ depth[c] \in Nat
        /\ retry[c] \in 0 .. MAX_RETRIES_PER_PROVIDER
        /\ at[c] \in Attempts(c, depth[c])
    BY FailoverAssumption DEF IInv, Ranges, M, CallAt, CallOK
  <2>2. at[c] \in Nat /\ at[c] <= Len(Chain(c, depth[c])) /\ Len(Chain(c, depth[c])) \in Nat
    BY <2>1, Places
  <2> QED
    BY <2>1, <2>2
<1> HIDE DEF GotOn, Bounded
<1>4. Spec => [][GotOn]_vars /\ []Bounded
  BY <1>2, <1>3, InductiveInvariant, PTL DEF Spec
<1> QED
  BY <1>4 DEF GotOn, Bounded, CallsGetOn

=============================================================================
