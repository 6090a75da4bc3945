---------------------------- MODULE RouterProofs ----------------------------
(***************************************************************************)
(* Proofs about Router and Health for any providers, probe list, workflows *)
(* and profiles. Types and CountersMatchStates form the inductive          *)
(* invariant: a success or an expiry leaves the right counters behind only *)
(* because the counters matched the state before.                          *)
(***************************************************************************)
EXTENDS Router, TLAPS

IInv == TypeOK /\ CountersMatchStates

\* The health manager starts in its ranges, with counters that match.
LEMMA HealthStarts == HealthInit => HealthTypeOK /\ CountersMatchStates
<1> SUFFICES ASSUME HealthInit PROVE HealthTypeOK /\ CountersMatchStates
    OBVIOUS
<1>1. Len(Probes) \in Nat
    BY HealthAssumption
<1>2. HealthTypeOK
  <2>1. _states \in [Provider -> ProviderState]
      BY DEF HealthInit, ProviderState
  <2>2. /\ _fail_counters \in [Provider -> 0 .. 3]
        /\ _success_counters \in [Provider -> 0 .. 3]
      BY DEF HealthInit
  <2>3. /\ expired \in [Provider -> BOOLEAN]
        /\ flawless \in [Provider -> BOOLEAN]
      BY Zenon DEF HealthInit
  <2>4. _running \in BOOLEAN /\ alive \in [Provider -> BOOLEAN]
      BY Zenon DEF HealthInit
  <2>5. probing \in 0 .. Len(Probes)
      BY <1>1 DEF HealthInit
  <2> QED
      BY <2>1, <2>2, <2>3, <2>4, <2>5, Zenon DEF HealthTypeOK
<1>3. CountersMatchStates
    BY DEF HealthInit, CountersMatchStates
<1> QED
    BY <1>2, <1>3

\* Whatever get_status makes expire, the counters still match: only DEGRADED and
\* OFFLINE turn HEALTHY, and their failures go with them.
LEMMA ReadsKeepHealth ==
    ASSUME NEW S, HealthTypeOK, CountersMatchStates, get_status(S),
           UNCHANGED <<_success_counters, expired, flawless, alive, _running, probing>>
    PROVE  HealthTypeOK' /\ CountersMatchStates'
<1>1. \A p \in Provider :
        /\ _states'[p] = IF p \in S /\ Expires(p) THEN "HEALTHY" ELSE _states[p]
        /\ _fail_counters'[p] = IF p \in S /\ Expires(p) THEN 0 ELSE _fail_counters[p]
    BY DEF get_status, StatusOf
<1>2. HealthTypeOK'
  <2>1. _states' \in [Provider -> ProviderState]
      BY DEF get_status, StatusOf, HealthTypeOK, ProviderState
  <2>2. _fail_counters' \in [Provider -> 0 .. 3]
      BY DEF get_status, HealthTypeOK
  <2> QED
      BY <2>1, <2>2 DEF HealthTypeOK
<1>3. CountersMatchStates'
    BY <1>1 DEF CountersMatchStates, HealthTypeOK, ProviderState
<1> QED
    BY <1>2, <1>3

\* A probe that succeeds, in each of the four states.
LEMMA SuccessKeepsHealth ==
    ASSUME NEW p \in Provider, HealthTypeOK, CountersMatchStates, record_success(p)
    PROVE  /\ _states' \in [Provider -> ProviderState]
           /\ _fail_counters' \in [Provider -> 0 .. 3]
           /\ _success_counters' \in [Provider -> 0 .. 3]
           /\ CountersMatchStates'
<1> DEFINE n == IF _states[p] = "OFFLINE" THEN 1 ELSE Count(_success_counters[p])
           next == CASE _states[p] = "OFFLINE" -> "RECOVERING"
                     [] _states[p] = "RECOVERING" /\ n >= 3 -> "HEALTHY"
                     [] _states[p] = "DEGRADED" -> "HEALTHY"
                     [] OTHER -> _states[p]
<1>1. /\ _fail_counters' = [_fail_counters EXCEPT ![p] = 0]
      /\ _success_counters' = [_success_counters EXCEPT ![p] = n]
      /\ _states' = [_states EXCEPT ![p] = next]
      /\ flawless' = flawless
    BY DEF record_success, HealthTypeOK
<1>2. _success_counters[p] \in 0 .. 3 /\ _states[p] \in ProviderState
    BY DEF HealthTypeOK
<1>3. n \in 0 .. 3 /\ (_states[p] = "RECOVERING" => n \in {2, 3})
    BY <1>2 DEF Count, CountersMatchStates
<1>4. /\ next \in ProviderState
      /\ next = "RECOVERING" => n \in {1, 2}
      /\ next \in {"HEALTHY", "RECOVERING"}
      /\ _states[p] = "HEALTHY" => next = "HEALTHY"
    BY <1>2, <1>3 DEF ProviderState
<1> HIDE DEF n, next
<1>5. /\ _states' \in [Provider -> ProviderState]
      /\ _fail_counters' \in [Provider -> 0 .. 3]
      /\ _success_counters' \in [Provider -> 0 .. 3]
    BY <1>1, <1>3, <1>4 DEF HealthTypeOK
<1>6. CountersMatchStates'
  <2> SUFFICES ASSUME NEW q \in Provider
               PROVE  /\ _states'[q] = "HEALTHY" => _fail_counters'[q] = 0
                      /\ _states'[q] = "RECOVERING" =>
                           _fail_counters'[q] = 0 /\ _success_counters'[q] \in {1, 2}
                      /\ _states'[q] = "DEGRADED" =>
                           _fail_counters'[q] \in {1, 2} /\ _success_counters'[q] = 0
                      /\ _states'[q] = "OFFLINE" =>
                           _fail_counters'[q] = 3 /\ _success_counters'[q] = 0
                      /\ flawless'[q] => _states'[q] = "HEALTHY"
      BY DEF CountersMatchStates
  <2>1. CASE q = p
    <3>1. _states'[p] = next /\ _fail_counters'[p] = 0 /\ _success_counters'[p] = n
        BY <1>1 DEF HealthTypeOK
    <3>2. flawless'[p] => next = "HEALTHY"
        BY <1>1, <1>4 DEF CountersMatchStates
    <3> QED
        BY <2>1, <3>1, <3>2, <1>4
  <2>2. CASE q # p
      BY <2>2, <1>1 DEF CountersMatchStates, HealthTypeOK
  <2> QED
      BY <2>1, <2>2
<1> QED
    BY <1>5, <1>6

\* A probe that fails, in each of the four states.
LEMMA FailureKeepsHealth ==
    ASSUME NEW p \in Provider, HealthTypeOK, CountersMatchStates, record_failure(p)
    PROVE  /\ _states' \in [Provider -> ProviderState]
           /\ _fail_counters' \in [Provider -> 0 .. 3]
           /\ _success_counters' \in [Provider -> 0 .. 3]
           /\ flawless' \in [Provider -> BOOLEAN]
           /\ expired' \in [Provider -> BOOLEAN]
           /\ CountersMatchStates'
<1> DEFINE n == Count(_fail_counters[p])
           next == IF n >= 3 THEN "OFFLINE"
                   ELSE IF _states[p] \in {"HEALTHY", "RECOVERING"} THEN "DEGRADED"
                   ELSE _states[p]
<1>1. /\ _fail_counters' = [_fail_counters EXCEPT ![p] = n]
      /\ _success_counters' = [_success_counters EXCEPT ![p] = 0]
      /\ _states' = [_states EXCEPT ![p] = next]
      /\ flawless' = [flawless EXCEPT ![p] = FALSE]
      /\ expired' = [expired EXCEPT ![p] = @ /\ next = _states[p]]
    BY DEF record_failure
<1>2. _fail_counters[p] \in 0 .. 3 /\ _states[p] \in ProviderState
    BY DEF HealthTypeOK
<1>3. n \in 1 .. 3
    BY <1>2 DEF Count
<1>4. \/ next = "OFFLINE" /\ n = 3
      \/ next = "DEGRADED" /\ n \in {1, 2}
  <2>1. CASE n = 3
      BY <2>1
  <2>2. CASE n \in {1, 2}
      BY <2>2, <1>2 DEF Count, CountersMatchStates, ProviderState
  <2> QED
      BY <1>3, <2>1, <2>2
<1>5. next \in ProviderState
    BY <1>4 DEF ProviderState
<1> HIDE DEF n, next
<1>6. /\ _states' \in [Provider -> ProviderState]
      /\ _fail_counters' \in [Provider -> 0 .. 3]
      /\ _success_counters' \in [Provider -> 0 .. 3]
      /\ flawless' \in [Provider -> BOOLEAN]
    BY <1>1, <1>3, <1>5 DEF HealthTypeOK
<1>7. expired' \in [Provider -> BOOLEAN]
    BY <1>1, Zenon DEF HealthTypeOK
<1>8. CountersMatchStates'
  <2> SUFFICES ASSUME NEW q \in Provider
               PROVE  /\ _states'[q] = "HEALTHY" => _fail_counters'[q] = 0
                      /\ _states'[q] = "RECOVERING" =>
                           _fail_counters'[q] = 0 /\ _success_counters'[q] \in {1, 2}
                      /\ _states'[q] = "DEGRADED" =>
                           _fail_counters'[q] \in {1, 2} /\ _success_counters'[q] = 0
                      /\ _states'[q] = "OFFLINE" =>
                           _fail_counters'[q] = 3 /\ _success_counters'[q] = 0
                      /\ flawless'[q] => _states'[q] = "HEALTHY"
      BY DEF CountersMatchStates
  <2>1. CASE q = p
    <3>1. /\ _states'[p] = next /\ _fail_counters'[p] = n
          /\ _success_counters'[p] = 0 /\ flawless'[p] = FALSE
        BY <1>1 DEF HealthTypeOK
    <3> QED
        BY <2>1, <3>1, <1>4
  <2>2. CASE q # p
      BY <2>2, <1>1 DEF CountersMatchStates, HealthTypeOK
  <2> QED
      BY <2>1, <2>2
<1> QED
    BY <1>6, <1>7, <1>8

\* A step of the daemon, its start and stop, the clock and the providers.
LEMMA StepsKeepHealth ==
    ASSUME HealthTypeOK, CountersMatchStates, HealthNext
    PROVE  HealthTypeOK' /\ CountersMatchStates'
<1>1. Len(Probes) \in Nat /\ \A k \in 1 .. Len(Probes) : Probes[k] \in Provider
    BY HealthAssumption
<1>2. Len(Probes) >= 1
    BY HealthAssumption
<1>3. CASE Probe
  <2> DEFINE p == Probes[probing]
  <2>1. p \in Provider /\ probing' \in 0 .. Len(Probes) /\ alive' = alive /\ _running' = _running
      BY <1>1, <1>3 DEF Probe, Following, HealthTypeOK
  <2>2. CASE alive[p]
    <3>1. record_success(p)
        BY <1>3, <2>2 DEF Probe
    <3>2. expired' = expired /\ flawless' = flawless
        BY <3>1 DEF record_success
    <3> QED
        BY <2>1, <3>1, <3>2, SuccessKeepsHealth DEF HealthTypeOK
  <2>3. CASE ~alive[p]
    <3>1. record_failure(p)
        BY <1>3, <2>3 DEF Probe
    <3> QED
        BY <2>1, <3>1, FailureKeepsHealth DEF HealthTypeOK
  <2> QED
      BY <2>2, <2>3
<1>4. CASE Wake
    BY <1>1, <1>2, <1>4 DEF Wake, HealthTypeOK, CountersMatchStates
<1>5. CASE start
  <2>1. _running' \in BOOLEAN
      BY <1>5, Zenon DEF start
  <2>2. probing' \in 0 .. Len(Probes)
      BY <1>1, <1>2, <1>5 DEF start
  <2> QED
      BY <1>5, <2>1, <2>2 DEF start, HealthTypeOK, CountersMatchStates
<1>6. CASE stop
  <2>1. _running' \in BOOLEAN
      BY <1>6, Zenon DEF stop
  <2>2. probing' \in 0 .. Len(Probes)
      BY <1>1, <1>6 DEF stop
  <2> QED
      BY <1>6, <2>1, <2>2 DEF stop, HealthTypeOK, CountersMatchStates
<1>7. ASSUME NEW p \in Provider, Elapse(p)
      PROVE  HealthTypeOK' /\ CountersMatchStates'
  <2>1. expired' \in [Provider -> BOOLEAN]
      BY <1>7, Zenon DEF Elapse, HealthTypeOK
  <2> QED
      BY <1>7, <2>1 DEF Elapse, HealthTypeOK, CountersMatchStates
<1>8. ASSUME NEW p \in Provider, Flip(p)
      PROVE  HealthTypeOK' /\ CountersMatchStates'
  <2>1. alive' \in [Provider -> BOOLEAN]
      BY <1>8, Zenon DEF Flip, HealthTypeOK
  <2> QED
      BY <1>8, <2>1 DEF Flip, HealthTypeOK, CountersMatchStates
<1> QED
    BY <1>3, <1>4, <1>5, <1>6, <1>7, <1>8 DEF HealthNext, Daemon

-----------------------------------------------------------------------------
(* The router.                                                             *)

\* resolve_capability selects a provider, and what it records are providers.
LEMMA ChoicesAreProviders ==
    ASSUME NEW c \in ProfileType, NEW st, NEW used \in SUBSET Provider,
           NEW p \in Choices(c, st, used)
    PROVE  p \in Provider /\ Recorded(c, st, used, p) \in SUBSET Provider
<1>1. Candidates(c, st) \subseteq Provider
    BY DEF Candidates, ProfileType
<1> QED
    BY <1>1, RouterAssumption DEF Choices, Recorded

\* Types and CountersMatchStates hold at the start.
LEMMA Starts == Init => IInv
<1> SUFFICES ASSUME Init PROVE IInv
    OBVIOUS
<1>1. HealthTypeOK /\ CountersMatchStates
    BY HealthStarts DEF Init
<1>2. workflow_assignments \in [Workflow -> SUBSET Provider]
    BY DEF Init
<1>3. twins \in [Workflow -> {<<>>} \cup (Provider \X Provider)]
    BY DEF Init
<1> QED
    BY <1>1, <1>2, <1>3 DEF IInv, TypeOK

\* resolve_capability keeps the invariant.
LEMMA ResolveKeeps ==
    ASSUME IInv, NEW w \in Workflow, NEW c \in Profile, resolve_capability(w, c)
    PROVE  IInv'
<1>1. PICK p \in Choices(c, Statuses, workflow_assignments[w]) :
         /\ get_status(c.providers)
         /\ workflow_assignments' = [workflow_assignments EXCEPT ![w] =
              Recorded(c, Statuses, workflow_assignments[w], p)]
         /\ UNCHANGED <<_success_counters, expired, flawless, alive, _running,
                        probing, twins>>
    BY DEF resolve_capability
<1>2. HealthTypeOK' /\ CountersMatchStates'
    BY <1>1, ReadsKeepHealth DEF IInv, TypeOK
<1>3. c \in ProfileType /\ workflow_assignments[w] \in SUBSET Provider
    BY RouterAssumption DEF IInv, TypeOK
<1>4. Recorded(c, Statuses, workflow_assignments[w], p) \in SUBSET Provider
    BY <1>3, ChoicesAreProviders
<1>5. workflow_assignments' \in [Workflow -> SUBSET Provider]
    BY <1>1, <1>4 DEF IInv, TypeOK
<1> QED
    BY <1>1, <1>2, <1>5 DEF IInv, TypeOK

\* LaunchTwins keeps the invariant.
LEMMA LaunchKeeps ==
    ASSUME IInv, NEW w \in Workflow, LaunchTwins(w)
    PROVE  IInv'
<1> DEFINE c == TwinProfile
           used == workflow_assignments[w]
           and_x(x) == Recorded(c, Statuses, used, x)
<1>1. PICK x \in Choices(c, Statuses, used) : \E y \in Choices(c, Statuses, and_x(x)) :
         /\ get_status(c.providers)
         /\ workflow_assignments' = [workflow_assignments EXCEPT ![w] =
              Recorded(c, Statuses, and_x(x), y)]
         /\ twins' = [twins EXCEPT ![w] = <<x, y>>]
         /\ UNCHANGED <<_success_counters, expired, flawless, alive, _running,
                        probing>>
    BY DEF LaunchTwins
<1>2. PICK y \in Choices(c, Statuses, and_x(x)) :
         /\ get_status(c.providers)
         /\ workflow_assignments' = [workflow_assignments EXCEPT ![w] =
              Recorded(c, Statuses, and_x(x), y)]
         /\ twins' = [twins EXCEPT ![w] = <<x, y>>]
         /\ UNCHANGED <<_success_counters, expired, flawless, alive, _running,
                        probing>>
    BY <1>1
<1>3. HealthTypeOK' /\ CountersMatchStates'
    BY <1>2, ReadsKeepHealth DEF IInv, TypeOK
<1>4. c \in ProfileType /\ used \in SUBSET Provider
    BY RouterAssumption DEF IInv, TypeOK
<1>5. x \in Provider /\ and_x(x) \in SUBSET Provider
    BY <1>4, ChoicesAreProviders
<1>6. y \in Provider /\ Recorded(c, Statuses, and_x(x), y) \in SUBSET Provider
    BY <1>4, <1>5, ChoicesAreProviders
<1>7. workflow_assignments' \in [Workflow -> SUBSET Provider]
    BY <1>2, <1>6 DEF IInv, TypeOK
<1>8. twins' \in [Workflow -> {<<>>} \cup (Provider \X Provider)]
    BY <1>2, <1>5, <1>6 DEF IInv, TypeOK
<1> QED
    BY <1>3, <1>7, <1>8 DEF IInv, TypeOK

\* Every step keeps the invariant.
LEMMA StepKeeps == IInv /\ [Next]_vars => IInv'
<1> SUFFICES ASSUME IInv, [Next]_vars PROVE IInv'
    OBVIOUS
<1>1. CASE Monitoring
    BY <1>1, StepsKeepHealth DEF Monitoring, IInv, TypeOK
<1>2. ASSUME NEW w \in Workflow, NEW c \in Profile, resolve_capability(w, c)
      PROVE  IInv'
    BY <1>2, ResolveKeeps
<1>3. ASSUME NEW w \in Workflow, LaunchTwins(w) PROVE IInv'
    BY <1>3, LaunchKeeps
<1>4. ASSUME NEW w \in Workflow, purge_workflow(w) PROVE IInv'
  <2>1. workflow_assignments' \in [Workflow -> SUBSET Provider]
      BY <1>4 DEF purge_workflow, IInv, TypeOK
  <2> QED
      BY <1>4, <2>1 DEF purge_workflow, healthVars, IInv, TypeOK, HealthTypeOK, CountersMatchStates
<1>5. CASE UNCHANGED vars
    BY <1>5 DEF vars, healthVars, IInv, TypeOK, HealthTypeOK, CountersMatchStates
<1> QED
    BY <1>1, <1>2, <1>3, <1>4, <1>5 DEF Next, Routing

\* The invariant holds in every behaviour.
THEOREM Invariance == Spec => []IInv
<1> QED
    BY Starts, StepKeeps, PTL DEF Spec

\* Type correctness.
THEOREM TypeCorrect == Spec => []TypeOK
<1>1. IInv => TypeOK
    BY DEF IInv
<1> QED
    BY <1>1, Invariance, PTL

\* States and counters tell one story, for any number of providers and however
\* probes and the router's reads interleave.
THEOREM CountersAlwaysMatch == Spec => []CountersMatchStates
<1>1. IInv => CountersMatchStates
    BY DEF IInv
<1> QED
    BY <1>1, Invariance, PTL

-----------------------------------------------------------------------------
(* The twins.                                                              *)

\* The statuses of its providers are what resolve_capability leaves behind.
LEMMA StatusesStay ==
    ASSUME IInv, NEW S, get_status(S), NEW p \in Provider, p \in S
    PROVE  _states'[p] = Statuses[p]
BY DEF get_status, Statuses

\* A provider with a flawless record is a candidate: it is HEALTHY.
LEMMA FlawlessIsCandidate ==
    ASSUME IInv, NEW c \in ProfileType, NEW q \in c.providers, flawless[q]
    PROVE  q \in Candidates(c, Statuses) /\ Statuses[q] = "HEALTHY"
<1>1. q \in Provider
    BY DEF ProfileType
<1>2. _states[q] = "HEALTHY"
    BY <1>1 DEF IInv, CountersMatchStates
<1> QED
    BY <1>1, <1>2 DEF Candidates, Statuses, StatusOf

\* The second twin passes over the provider of the first as long as one with a
\* flawless record is as good and not in the records.
LEMMA SecondDiffers ==
    ASSUME IInv, NEW used \in SUBSET Provider,
           NEW p \in Choices(TwinProfile, Statuses, used),
           p \in Choices(TwinProfile, Statuses, Recorded(TwinProfile, Statuses, used, p)),
           NEW q \in TwinProfile.providers, q # p, flawless[q],
           p \in TwinProfile.providers => Statuses[q] = Statuses[p]
    PROVE  q \in used
<1> DEFINE c == TwinProfile
           and_p == Recorded(c, Statuses, used, p)
<1>1. c \in ProfileType /\ c.diverse
    BY RouterAssumption
<1>2. q \in Candidates(c, Statuses)
    BY <1>1, FlawlessIsCandidate
<1>3. and_p = used \cup {p}
    BY <1>2 DEF Recorded
<1>4. p \in Candidates(c, Statuses) /\ ~Precedes(c, Statuses, and_p, q, p)
    BY <1>2 DEF Choices
<1>5. Statuses[q] = Statuses[p]
    BY <1>4 DEF Candidates
<1>6. flawless[p]
    BY <1>4, <1>5 DEF Precedes
<1>7. ~(diversity_penalty(c, and_p, q) < diversity_penalty(c, and_p, p))
    BY <1>4, <1>5, <1>6 DEF Precedes
<1>8. diversity_penalty(c, and_p, p) = 1000
    BY <1>1, <1>3 DEF diversity_penalty
<1>9. q \in and_p
    BY <1>7, <1>8 DEF diversity_penalty
<1> QED
    BY <1>3, <1>9

\* The twins share a provider only if each one as good had been used before.
THEOREM TwinsAlwaysDiffer == Spec => TwinsDiffer
<1> DEFINE Differ == \A w \in Workflow : \A p \in Provider :
             twins'[w] # twins[w] /\ twins'[w] = <<p, p>>
               => Rivals(p) \subseteq workflow_assignments[w]
<1>1. IInv /\ [Next]_vars => [Differ]_vars
  <2> SUFFICES ASSUME IInv, Next,
                      NEW w \in Workflow, NEW p \in Provider,
                      twins'[w] # twins[w], twins'[w] = <<p, p>>,
                      NEW q \in Rivals(p)
               PROVE  q \in workflow_assignments[w]
      BY DEF Differ
  <2>1. PICK v \in Workflow : LaunchTwins(v)
      BY DEF Next, Monitoring, Routing, resolve_capability, purge_workflow
  <2> DEFINE c == TwinProfile
             used == workflow_assignments[v]
             and_x(x) == Recorded(c, Statuses, used, x)
  <2>2. PICK x \in Choices(c, Statuses, used) : \E y \in Choices(c, Statuses, and_x(x)) :
           get_status(c.providers) /\ twins' = [twins EXCEPT ![v] = <<x, y>>]
      BY <2>1 DEF LaunchTwins
  <2>3. PICK y \in Choices(c, Statuses, and_x(x)) :
           get_status(c.providers) /\ twins' = [twins EXCEPT ![v] = <<x, y>>]
      BY <2>2
  <2>4. v = w /\ x = p /\ y = p
      BY <2>3 DEF IInv, TypeOK
  <2>5. /\ q \in c.providers /\ q # p /\ flawless[q]
        /\ _states'[q] = _states'[p]
      BY DEF Rivals
  <2>6. c \in ProfileType /\ c.providers \subseteq Provider
      BY RouterAssumption DEF ProfileType
  <2>7. p \in c.providers => Statuses[q] = Statuses[p]
      BY <2>3, <2>5, <2>6, StatusesStay
  <2>8. used \in SUBSET Provider
      BY DEF IInv, TypeOK
  <2> QED
      BY <2>2, <2>3, <2>4, <2>5, <2>7, <2>8, SecondDiffers
<1> QED
    BY <1>1, Invariance, PTL DEF Spec, TwinsDiffer

-----------------------------------------------------------------------------
(* Progress: what the probes do for the truth, step by step.               *)

\* The answered probes that p still needs to be HEALTHY.
ToHealthy(p) ==
    IF _states[p] = "HEALTHY" THEN 0
    ELSE IF _states[p] = "DEGRADED" THEN 1
    ELSE IF _states[p] = "OFFLINE" THEN 3
    ELSE 3 - _success_counters[p]

\* The daemon's steps before it probes the place k of its list.
TurnsTo(k) ==
    IF probing = 0 THEN k
    ELSE IF probing <= k THEN k - probing
    ELSE Len(Probes) + 1 - probing + k

\* While p is up no step takes it further from HEALTHY and each of its probes
\* brings it nearer; a probe of it while it is down leaves it out of HEALTHY.
ProbesCloseIn ==
    \A p \in Provider :
        /\ alive[p] => ToHealthy(p)' <= ToHealthy(p)
        /\ Probe /\ Probes[probing] = p =>
             IF alive[p]
             THEN _states'[p] = "HEALTHY" \/ ToHealthy(p)' < ToHealthy(p)
             ELSE _states'[p] # "HEALTHY"

\* Each step of the daemon is the probe at place k or brings it nearer, and no
\* other step of a daemon that keeps running puts it off.
TurnsCome ==
    \A k \in 1 .. Len(Probes) :
        /\ Daemon => probing = k \/ TurnsTo(k)' < TurnsTo(k)
        /\ _running /\ _running' => probing = k \/ TurnsTo(k)' <= TurnsTo(k)

\* The measure of a provider is at most 3, and 0 is HEALTHY.
LEMMA NeedIsBounded ==
    ASSUME IInv, NEW p \in Provider
    PROVE  /\ ToHealthy(p) \in 0 .. 3
           /\ ToHealthy(p) = 0 <=> _states[p] = "HEALTHY"
<1>1. _states[p] \in ProviderState
    BY DEF IInv, TypeOK, HealthTypeOK
<1>2. CASE _states[p] = "RECOVERING"
  <2>1. _success_counters[p] \in {1, 2}
      BY <1>2 DEF IInv, CountersMatchStates
  <2> QED
      BY <1>2, <2>1 DEF ToHealthy
<1>3. CASE _states[p] # "RECOVERING"
    BY <1>1, <1>3 DEF ToHealthy, ProviderState
<1> QED
    BY <1>2, <1>3

\* A successful probe makes its provider HEALTHY or counts, and touches no other.
LEMMA SuccessClosesIn ==
    ASSUME IInv, NEW p \in Provider, NEW q \in Provider, record_success(q)
    PROVE  IF p = q THEN \/ _states'[p] = "HEALTHY" /\ ToHealthy(p)' = 0
                         \/ ToHealthy(p)' < ToHealthy(p)
                    ELSE ToHealthy(p)' = ToHealthy(p)
<1> DEFINE n == IF _states[q] = "OFFLINE" THEN 1 ELSE Count(_success_counters[q])
           next == CASE _states[q] = "OFFLINE" -> "RECOVERING"
                     [] _states[q] = "RECOVERING" /\ n >= 3 -> "HEALTHY"
                     [] _states[q] = "DEGRADED" -> "HEALTHY"
                     [] OTHER -> _states[q]
<1>1. /\ _success_counters' = [_success_counters EXCEPT ![q] = n]
      /\ _states' = [_states EXCEPT ![q] = next]
    BY DEF record_success, IInv, TypeOK, HealthTypeOK
<1>2. /\ _states \in [Provider -> ProviderState]
      /\ _success_counters \in [Provider -> 0 .. 3]
    BY DEF IInv, TypeOK, HealthTypeOK
<1>3. CASE p # q
    BY <1>1, <1>2, <1>3 DEF ToHealthy
<1>4. CASE p = q
  <2>1. _states'[p] = next /\ _success_counters'[p] = n
      BY <1>1, <1>2, <1>4
  <2>2. _states[p] \in ProviderState /\ _success_counters[p] \in 0 .. 3
      BY <1>2
  <2>3. CASE _states[p] = "OFFLINE"
      BY <1>4, <2>1, <2>3 DEF ToHealthy
  <2>4. CASE _states[p] = "RECOVERING"
    <3>1. _success_counters[p] \in {1, 2} /\ n = _success_counters[p] + 1
        BY <1>4, <2>4 DEF Count, IInv, CountersMatchStates
    <3>2. next = IF n >= 3 THEN "HEALTHY" ELSE "RECOVERING"
        BY <1>4, <2>4
    <3> HIDE DEF n, next
    <3> QED
        BY <1>4, <2>1, <2>4, <3>1, <3>2 DEF ToHealthy
  <2>5. CASE _states[p] \in {"DEGRADED", "HEALTHY"}
      BY <1>4, <2>1, <2>5 DEF ToHealthy
  <2> QED
      BY <1>4, <2>2, <2>3, <2>4, <2>5 DEF ProviderState
<1> QED
    BY <1>3, <1>4

\* A failed probe puts its provider out of HEALTHY and touches no other.
LEMMA FailureClosesIn ==
    ASSUME IInv, NEW p \in Provider, NEW q \in Provider, record_failure(q)
    PROVE  IF p = q THEN _states'[p] # "HEALTHY" ELSE ToHealthy(p)' = ToHealthy(p)
<1> DEFINE next == IF Count(_fail_counters[q]) >= 3 THEN "OFFLINE"
                   ELSE IF _states[q] \in {"HEALTHY", "RECOVERING"} THEN "DEGRADED"
                   ELSE _states[q]
<1>1. /\ _success_counters' = [_success_counters EXCEPT ![q] = 0]
      /\ _states' = [_states EXCEPT ![q] = next]
    BY DEF record_failure
<1>2. /\ _states \in [Provider -> ProviderState]
      /\ _success_counters \in [Provider -> 0 .. 3]
    BY DEF IInv, TypeOK, HealthTypeOK
<1>3. CASE p # q
    BY <1>1, <1>2, <1>3 DEF ToHealthy
<1>4. CASE p = q
    BY <1>1, <1>2, <1>4
<1> QED
    BY <1>3, <1>4

\* A read of statuses brings a provider to HEALTHY or leaves it where it is.
LEMMA ReadsCloseIn ==
    ASSUME IInv, NEW p \in Provider, NEW S, get_status(S), UNCHANGED _success_counters
    PROVE  ToHealthy(p)' <= ToHealthy(p)
<1>1. _states'[p] = "HEALTHY" \/ _states'[p] = _states[p]
    BY DEF get_status, StatusOf
<1>2. ToHealthy(p)' = 0 \/ ToHealthy(p)' = ToHealthy(p)
    BY <1>1 DEF ToHealthy
<1> QED
    BY <1>2, NeedIsBounded

\* A probe closes in on every provider.
LEMMA ProbeClosesIn == IInv /\ Probe => ProbesCloseIn
<1> SUFFICES ASSUME IInv, Probe, NEW p \in Provider
             PROVE  /\ alive[p] => ToHealthy(p)' <= ToHealthy(p)
                    /\ Probes[probing] = p =>
                         IF alive[p]
                         THEN _states'[p] = "HEALTHY" \/ ToHealthy(p)' < ToHealthy(p)
                         ELSE _states'[p] # "HEALTHY"
    BY DEF ProbesCloseIn
<1> DEFINE q == Probes[probing]
<1>1. q \in Provider
    BY HealthAssumption DEF Probe, IInv, TypeOK, HealthTypeOK
<1>2. ToHealthy(p) \in 0 .. 3 /\ ToHealthy(p)' \in 0 .. 3
  <2>1. HealthTypeOK' /\ CountersMatchStates'
      BY StepsKeepHealth DEF HealthNext, Daemon, IInv, TypeOK
  <2>2. ToHealthy(p)' \in 0 .. 3
      BY <2>1 DEF ToHealthy, HealthTypeOK, CountersMatchStates
  <2> QED
      BY <2>2, NeedIsBounded
<1>3. CASE alive[q]
  <2>1. record_success(q)
      BY <1>3 DEF Probe
  <2> HIDE DEF q
  <2>2. IF p = q THEN \/ _states'[p] = "HEALTHY" /\ ToHealthy(p)' = 0
                      \/ ToHealthy(p)' < ToHealthy(p)
                 ELSE ToHealthy(p)' = ToHealthy(p)
      BY <1>1, <2>1, SuccessClosesIn
  <2>3. ToHealthy(p)' <= ToHealthy(p)
      BY <1>2, <2>2
  <2> QED
      BY <1>3, <2>2, <2>3 DEF q
<1>4. CASE ~alive[q]
  <2>1. record_failure(q)
      BY <1>4 DEF Probe
  <2> HIDE DEF q
  <2>2. IF p = q THEN _states'[p] # "HEALTHY" ELSE ToHealthy(p)' = ToHealthy(p)
      BY <1>1, <2>1, FailureClosesIn
  <2>3. p # q => ToHealthy(p)' <= ToHealthy(p)
      BY <1>2, <2>2
  <2> QED
      BY <1>4, <2>2, <2>3 DEF q
<1> QED
    BY <1>3, <1>4

\* So does every step: besides the probes only the reads change a state.
LEMMA StepClosesIn == IInv /\ [Next]_vars => ProbesCloseIn
<1> SUFFICES ASSUME IInv, [Next]_vars, ~Probe, NEW p \in Provider
             PROVE  ToHealthy(p)' <= ToHealthy(p)
    BY ProbeClosesIn DEF ProbesCloseIn
<1>1. CASE UNCHANGED <<_states, _success_counters>>
  <2>1. ToHealthy(p)' = ToHealthy(p)
      BY <1>1 DEF ToHealthy
  <2> QED
      BY <2>1, NeedIsBounded
<1>2. ASSUME NEW S, get_status(S), UNCHANGED _success_counters
      PROVE  ToHealthy(p)' <= ToHealthy(p)
    BY <1>2, ReadsCloseIn
<1>3. CASE Monitoring
    BY <1>1, <1>3 DEF Monitoring, HealthNext, Daemon, Wake, start, stop, Elapse, Flip
<1>4. ASSUME NEW w \in Workflow, NEW c \in Profile, resolve_capability(w, c)
      PROVE  ToHealthy(p)' <= ToHealthy(p)
    BY <1>2, <1>4 DEF resolve_capability
<1>5. ASSUME NEW w \in Workflow, LaunchTwins(w) PROVE ToHealthy(p)' <= ToHealthy(p)
    BY <1>2, <1>5 DEF LaunchTwins
<1>6. ASSUME NEW w \in Workflow, purge_workflow(w) PROVE ToHealthy(p)' <= ToHealthy(p)
    BY <1>1, <1>6 DEF purge_workflow, healthVars
<1>7. CASE UNCHANGED vars
    BY <1>1, <1>7 DEF vars, healthVars
<1> QED
    BY <1>3, <1>4, <1>5, <1>6, <1>7 DEF Next, Routing

\* The daemon goes around its list, and nothing else moves it while it runs.
LEMMA StepTakesTurns == IInv /\ [Next]_vars => TurnsCome
<1> SUFFICES ASSUME IInv, [Next]_vars, NEW k \in 1 .. Len(Probes), probing # k
             PROVE  /\ Daemon => TurnsTo(k)' < TurnsTo(k)
                    /\ _running /\ _running' => TurnsTo(k)' <= TurnsTo(k)
    BY DEF TurnsCome
<1>1. Len(Probes) \in Nat /\ probing \in 0 .. Len(Probes) /\ k \in Nat
    BY HealthAssumption DEF IInv, TypeOK, HealthTypeOK
<1>2. TurnsTo(k) \in Nat
    BY <1>1 DEF TurnsTo
<1>3. CASE Daemon
  <2>1. \/ probing # 0 /\ probing' = Following(probing)
        \/ probing = 0 /\ probing' = 1
      BY <1>3 DEF Daemon, Probe, Wake
  <2>2. TurnsTo(k)' < TurnsTo(k)
      BY <1>1, <2>1 DEF TurnsTo, Following
  <2>3. TurnsTo(k)' \in Nat
      BY <1>1, <2>1 DEF TurnsTo, Following
  <2> QED
      BY <1>2, <2>2, <2>3
<1>4. CASE ~Daemon /\ _running /\ _running'
  <2>1. probing' = probing
      BY <1>4 DEF Next, Monitoring, HealthNext, start, stop, Elapse, Flip, Routing,
                  resolve_capability, LaunchTwins, purge_workflow, vars, healthVars
  <2>2. TurnsTo(k)' = TurnsTo(k)
      BY <2>1 DEF TurnsTo
  <2> QED
      BY <1>2, <1>4, <2>2
<1> QED
    BY <1>3, <1>4

\* The probes get at the truth step by step, whatever the daemon and the router's
\* reads do in between: what is left of ProbesTellTheTruth is that the daemon
\* goes on.
THEOREM ProbesGetAtTheTruth ==
    Spec => /\ [][ProbesCloseIn /\ TurnsCome]_vars
            /\ [](\A p \in Provider : ToHealthy(p) \in 0 .. 3)
<1> DEFINE Bounded == \A p \in Provider : ToHealthy(p) \in 0 .. 3
<1>1. IInv => Bounded
    BY NeedIsBounded
<1>2. IInv /\ [Next]_vars => [ProbesCloseIn /\ TurnsCome]_vars
    BY StepClosesIn, StepTakesTurns
<1> HIDE DEF Bounded
<1>3. Spec => [][ProbesCloseIn /\ TurnsCome]_vars /\ []Bounded
    BY <1>1, <1>2, Invariance, PTL DEF Spec
<1> QED
    BY <1>3 DEF Bounded
=============================================================================
