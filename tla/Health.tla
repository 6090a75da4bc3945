------------------------------- MODULE Health -------------------------------
(***************************************************************************)
(* ProviderHealthManager (models/health.py): a daemon probes the providers *)
(* in turn and moves each through HEALTHY, DEGRADED, OFFLINE, RECOVERING;  *)
(* a reader of a status makes an old one expire.                           *)
(*                                                                         *)
(* The daemon suspends in the request of a probe and in its sleep; what a  *)
(* probe records is one step. Both counters are compared with 3 at most,   *)
(* so they count "three or more" as 3. Of the success rate the router only *)
(* uses comparisons: the model keeps whether it is still 1.                *)
(***************************************************************************)
EXTENDS Naturals, Sequences

CONSTANTS
    Provider,
    Probes      \* the keys of config.PROVIDER_PROBES, in their order

ASSUME HealthAssumption == Probes \in Seq(Provider) /\ Probes # <<>>

VARIABLES
    _states, _fail_counters, _success_counters,
    expired,    \* expired[p]: the time of its last failure is over 60 s ago
    flawless,   \* flawless[p]: _successful_requests = _total_requests
    alive,      \* alive[p]: the provider's probe endpoint answers 200
    _running,
    probing     \* the place in Probes of the probe under way, 0 for none

healthVars == <<_states, _fail_counters, _success_counters, expired, flawless,
                alive, _running, probing>>

ProviderState == {"HEALTHY", "DEGRADED", "OFFLINE", "RECOVERING"}

HealthInit ==
    /\ _states = [p \in Provider |-> "HEALTHY"]
    /\ _fail_counters = [p \in Provider |-> 0]
    /\ _success_counters = [p \in Provider |-> 0]
    /\ expired = [p \in Provider |-> TRUE]
    /\ flawless = [p \in Provider |-> TRUE]
    /\ alive \in [Provider -> BOOLEAN]
    /\ _running = FALSE
    /\ probing = 0

-----------------------------------------------------------------------------
(* Readers.                                                                *)

Expires(p) == _states[p] \in {"DEGRADED", "OFFLINE"} /\ expired[p]

\* What get_status answers.
StatusOf(p) == IF Expires(p) THEN "HEALTHY" ELSE _states[p]

\* An expiry that leaves the failures on the counter.
get_status_keeping_count(S) ==
    /\ _states' = [p \in Provider |-> IF p \in S THEN StatusOf(p) ELSE _states[p]]
    /\ UNCHANGED _fail_counters

\* get_status of each provider of S: an old status reverts to HEALTHY.
get_status(S) ==
    /\ _states' = [p \in Provider |-> IF p \in S THEN StatusOf(p) ELSE _states[p]]
    /\ _fail_counters' = [p \in Provider |->
                            IF p \in S /\ Expires(p) THEN 0 ELSE _fail_counters[p]]

-----------------------------------------------------------------------------
(* The daemon.                                                             *)

Count(n) == IF n < 3 THEN n + 1 ELSE 3

\* A handler without the branch for DEGRADED.
record_success_partly(p) ==
    LET successes == IF _states[p] = "OFFLINE" THEN 1 ELSE Count(_success_counters[p])
    IN  /\ _fail_counters' = [_fail_counters EXCEPT ![p] = 0]
        /\ _success_counters' = [_success_counters EXCEPT ![p] = successes]
        /\ _states' = [_states EXCEPT ![p] =
             CASE @ = "OFFLINE" -> "RECOVERING"
               [] @ = "RECOVERING" /\ successes >= 3 -> "HEALTHY"
               [] OTHER -> @]
        /\ UNCHANGED <<expired, flawless>>

record_success(p) ==
    LET successes == IF _states[p] = "OFFLINE" THEN 1 ELSE Count(_success_counters[p])
    IN  /\ _fail_counters' = [_fail_counters EXCEPT ![p] = 0]
        /\ _success_counters' = [_success_counters EXCEPT ![p] = successes]
        /\ _states' = [_states EXCEPT ![p] =
             CASE @ = "OFFLINE" -> "RECOVERING"
               [] @ = "RECOVERING" /\ successes >= 3 -> "HEALTHY"
               [] @ = "DEGRADED" -> "HEALTHY"
               [] OTHER -> @]
        /\ UNCHANGED <<expired, flawless>>

\* The time is noted on the way into DEGRADED and into OFFLINE, not while the
\* provider stays there.
record_failure(p) ==
    LET fails == Count(_fail_counters[p])
        next == IF fails >= 3 THEN "OFFLINE"
                ELSE IF _states[p] \in {"HEALTHY", "RECOVERING"} THEN "DEGRADED"
                ELSE _states[p]
    IN  /\ _fail_counters' = [_fail_counters EXCEPT ![p] = fails]
        /\ _success_counters' = [_success_counters EXCEPT ![p] = 0]
        /\ flawless' = [flawless EXCEPT ![p] = FALSE]
        /\ _states' = [_states EXCEPT ![p] = next]
        /\ expired' = [expired EXCEPT ![p] = @ /\ next = _states[p]]

\* The place after k; past the last one the daemon sleeps.
Following(k) == IF k < Len(Probes) THEN k + 1 ELSE 0

\* The answer to the probe under way, or the failure to get one in 3 s.
Probe ==
    /\ probing # 0
    /\ IF alive[Probes[probing]]
       THEN record_success(Probes[probing])
       ELSE record_failure(Probes[probing])
    /\ probing' = Following(probing)
    /\ UNCHANGED <<alive, _running>>

\* The sleep between two rounds is over.
Wake ==
    /\ _running /\ probing = 0
    /\ probing' = 1
    /\ UNCHANGED <<_states, _fail_counters, _success_counters, expired, flawless,
                   alive, _running>>

start ==
    /\ ~_running
    /\ _running' = TRUE
    /\ probing' = 1
    /\ UNCHANGED <<_states, _fail_counters, _success_counters, expired, flawless, alive>>

\* The daemon's task is cancelled where it waits.
stop ==
    /\ _running
    /\ _running' = FALSE
    /\ probing' = 0
    /\ UNCHANGED <<_states, _fail_counters, _success_counters, expired, flawless, alive>>

-----------------------------------------------------------------------------
(* The environment.                                                        *)

\* Sixty seconds have passed since the provider's last noted failure.
Elapse(p) ==
    /\ ~expired[p]
    /\ expired' = [expired EXCEPT ![p] = TRUE]
    /\ UNCHANGED <<_states, _fail_counters, _success_counters, flawless, alive,
                   _running, probing>>

\* The provider goes down or comes back.
Flip(p) ==
    /\ alive' = [alive EXCEPT ![p] = ~@]
    /\ UNCHANGED <<_states, _fail_counters, _success_counters, expired, flawless,
                   _running, probing>>

-----------------------------------------------------------------------------

Daemon == Probe \/ Wake

HealthNext ==
    \/ Daemon \/ start \/ stop
    \/ \E p \in Provider : Elapse(p) \/ Flip(p)

-----------------------------------------------------------------------------
(* Properties.                                                             *)

\* Every variable stays in its range.
HealthTypeOK ==
    /\ _states \in [Provider -> ProviderState]
    /\ _fail_counters \in [Provider -> 0 .. 3]
    /\ _success_counters \in [Provider -> 0 .. 3]
    /\ expired \in [Provider -> BOOLEAN]
    /\ flawless \in [Provider -> BOOLEAN]
    /\ alive \in [Provider -> BOOLEAN]
    /\ _running \in BOOLEAN
    /\ probing \in 0 .. Len(Probes)

\* State and counters never tell two stories, though probes write both and the
\* router's reads expire one of them in between: OFFLINE means three failed
\* probes in a row that nothing interrupted, RECOVERING one or two successes
\* in a row, HEALTHY no failure pending, and only a HEALTHY provider has a
\* success rate of 1.
CountersMatchStates ==
    \A p \in Provider :
        /\ _states[p] = "HEALTHY" => _fail_counters[p] = 0
        /\ _states[p] = "RECOVERING" => _fail_counters[p] = 0 /\ _success_counters[p] \in {1, 2}
        /\ _states[p] = "DEGRADED" => _fail_counters[p] \in {1, 2} /\ _success_counters[p] = 0
        /\ _states[p] = "OFFLINE" => _fail_counters[p] = 3 /\ _success_counters[p] = 0
        /\ flawless[p] => _states[p] = "HEALTHY"

\* The probes get at the truth: while the daemon runs, a provider that stays up
\* is HEALTHY for good in the end, and one that stays down is found out time
\* and again, however often reads revert it to HEALTHY.
ProbesTellTheTruth ==
    \A p \in Provider :
        /\ <>[](_running /\ alive[p]) => <>[](_states[p] = "HEALTHY")
        /\ <>[](_running /\ ~alive[p]) => []<>(_states[p] # "HEALTHY")

=============================================================================
