------------------------------- MODULE Router -------------------------------
(***************************************************************************)
(* ModelRouter (models/router.py) over the health manager: it chooses a    *)
(* provider among those not OFFLINE, remembers the choice for the          *)
(* workflow, and makes the second of two twin workers                      *)
(* (runtimes/competitive.py) avoid the providers it remembers.             *)
(*                                                                         *)
(* resolve_capability does not suspend, nor do the twins between their two *)
(* calls. Quotas, latencies and queue depths keep their initial values in  *)
(* the program, so they decide nothing; nor does the order of the entries, *)
(* as no two providers have the same price.                                *)
(***************************************************************************)
EXTENDS Health

CONSTANTS
    Workflow,
    Profile,       \* the capability profiles of the requests; of each,
                   \*   providers: those with an entry that passes the static
                   \*     filters (tier, vision, context window, cost),
                   \*   price: the least cost of such an entry,
                   \*   diverse: it names a diversity group
    TwinProfile,   \* the profile of the twin workers
    FallbackHead   \* the head of tier_2_standard

ProfileType == [providers : SUBSET Provider, price : [Provider -> Nat], diverse : BOOLEAN]

ASSUME RouterAssumption ==
    /\ Profile \subseteq ProfileType
    /\ TwinProfile \in ProfileType /\ TwinProfile.diverse
    /\ FallbackHead \in Provider

VARIABLES
    workflow_assignments,
    twins   \* twins[w]: the providers of the twin workers launched last

vars == <<healthVars, workflow_assignments, twins>>

-----------------------------------------------------------------------------
(* resolve_capability, given the profile c and the statuses st it reads.    *)

Candidates(c, st) == {p \in c.providers : st[p] # "OFFLINE"}

state_w == [HEALTHY |-> 0, RECOVERING |-> 1, DEGRADED |-> 2, OFFLINE |-> 3]

diversity_penalty(c, used, p) == IF c.diverse /\ p \in used THEN 1000 ELSE 0

\* q's sort key is below p's: its state is better, or its success rate, or with
\* both rates 1 its penalty or its price. Two rates below 1 may compare any way.
Precedes(c, st, used, q, p) ==
    \/ state_w[st[q]] < state_w[st[p]]
    \/ st[q] = st[p] /\ flawless[q] /\ ~flawless[p]
    \/ /\ st[q] = st[p] /\ flawless[q] /\ flawless[p]
       /\ \/ diversity_penalty(c, used, q) < diversity_penalty(c, used, p)
          \/ /\ diversity_penalty(c, used, q) = diversity_penalty(c, used, p)
             /\ c.price[q] < c.price[p]

\* The providers resolve_capability may select.
Choices(c, st, used) ==
    IF Candidates(c, st) = {} THEN {FallbackHead}
    ELSE {p \in Candidates(c, st) :
            \A q \in Candidates(c, st) : ~Precedes(c, st, used, q, p)}

\* A record that is not made.
Unrecorded(c, st, used, p) == used

\* The fallback choice is not remembered.
Recorded(c, st, used, p) == IF Candidates(c, st) = {} THEN used ELSE used \cup {p}

Statuses == [p \in Provider |-> StatusOf(p)]

-----------------------------------------------------------------------------

Init ==
    /\ HealthInit
    /\ workflow_assignments = [w \in Workflow |-> {}]
    /\ twins = [w \in Workflow |-> <<>>]

\* A runtime's worker or judge, or the gateway's table of a plan.
resolve_capability(w, c) ==
    \E p \in Choices(c, Statuses, workflow_assignments[w]) :
        /\ get_status(c.providers)
        /\ workflow_assignments' = [workflow_assignments EXCEPT ![w] =
             Recorded(c, Statuses, @, p)]
        /\ UNCHANGED <<_success_counters, expired, flawless, alive, _running,
                       probing, twins>>

\* The twin runtime resolves its two workers one after the other.
LaunchTwins(w) ==
    LET c == TwinProfile
        used == workflow_assignments[w]
    IN  \E x \in Choices(c, Statuses, used) :
        LET and_x == Recorded(c, Statuses, used, x)
        IN  \E y \in Choices(c, Statuses, and_x) :
              /\ get_status(c.providers)
              /\ workflow_assignments' = [workflow_assignments EXCEPT ![w] =
                   Recorded(c, Statuses, and_x, y)]
              /\ twins' = [twins EXCEPT ![w] = <<x, y>>]
              /\ UNCHANGED <<_success_counters, expired, flawless, alive, _running,
                             probing>>

purge_workflow(w) ==
    /\ workflow_assignments' = [workflow_assignments EXCEPT ![w] = {}]
    /\ UNCHANGED <<healthVars, twins>>

-----------------------------------------------------------------------------

Routing ==
    \E w \in Workflow :
        \/ \E c \in Profile : resolve_capability(w, c)
        \/ LaunchTwins(w)
        \/ purge_workflow(w)

Monitoring == HealthNext /\ UNCHANGED <<workflow_assignments, twins>>

Next == Monitoring \/ Routing

Spec == Init /\ [][Next]_vars

\* The daemon's probes have a time limit and its sleep ends.
FairSpec == Spec /\ WF_vars(Daemon /\ UNCHANGED <<workflow_assignments, twins>>)

-----------------------------------------------------------------------------
(* Properties.                                                             *)

\* Every variable stays in its range.
TypeOK ==
    /\ HealthTypeOK
    /\ workflow_assignments \in [Workflow -> SUBSET Provider]
    /\ twins \in [Workflow -> {<<>>} \cup (Provider \X Provider)]

\* Candidates as good as p when the twins were launched.
Rivals(p) ==
    {q \in TwinProfile.providers \ {p} : _states'[q] = _states'[p] /\ flawless[q]}

\* The twins share a provider only if each candidate as good had been used for
\* their workflow before: the record of the first twin reaches the second, and
\* neither expiry nor the fallback comes between them.
TwinsDiffer ==
    [][ \A w \in Workflow : \A p \in Provider :
          twins'[w] # twins[w] /\ twins'[w] = <<p, p>>
            => Rivals(p) \subseteq workflow_assignments[w] ]_vars

=============================================================================
