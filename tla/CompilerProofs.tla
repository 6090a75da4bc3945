--------------------------- MODULE CompilerProofs ---------------------------
(***************************************************************************)
(* Pass 4 and the planner are right for every draft, of any size: the      *)
(* orders they build, the layers, and their verdict on cycles.             *)
(*                                                                         *)
(* The heart of the invariant is that no stuck set of steps ever loses a   *)
(* member to `resolved`; the rest says what the loops' sets mean.          *)
(***************************************************************************)
EXTENDS Compiler, FiniteSetTheorems, TLAPS

\* The members of the layers before position k.
Before(ls, k) == UNION {ls[j] : j \in 1 .. k - 1}

StuckStaysUnresolved ==
    \A S \in SUBSET Ids : Stuck(S) => S \cap resolved = {}

\* In pass 4, `resolved` is the order built so far, and a sweep without progress
\* has tested every step against the same set.
SortingState ==
    /\ pc \in {"pass_4", "compiled", "rejected"} => layers = <<>>
    /\ pc \in {"pass_4", "compiled", "rejected"} =>
          resolved = {optimized[i] : i \in DOMAIN optimized}
    /\ pc \in {"compiled", "rejected"} => unresolved = {} /\ pending = {}
    /\ pc = "pass_4" /\ ~progress =>
          \A s \in unresolved \ pending : ~AllResolved(s)

\* In the planner, `resolved` is what the layers hold, and a node left over was
\* not ready for the last layer.
LayeringState ==
    pc \in {"layering", "planned"} =>
        /\ pending = {}
        /\ resolved = Before(layers, Len(layers) + 1)
        /\ pc = "planned" => unresolved = {}
        /\ layers # <<>> =>
              \A s \in unresolved : \E d \in deps[s] : d \notin Before(layers, Len(layers))
        /\ optimized # <<>> => \A S \in SUBSET Ids : ~Stuck(S)

IInv ==
    /\ TypeOK
    /\ StuckStaysUnresolved
    /\ SortingState
    /\ LayeringState
    /\ TopologicalOrder
    /\ LayersRespectDependencies
    /\ LayersAreTight
    /\ LoopsDecideRight

-----------------------------------------------------------------------------
(* Helpers.                                                                *)

\* Steps none of which has all its dependencies resolved form a stuck set.
LEMMA NoneReadyIsStuck ==
    ASSUME TypeOK, unresolved # {}, \A s \in unresolved : ~AllResolved(s)
    PROVE  Stuck(unresolved)
  BY DEF TypeOK, Stuck, AllResolved

\* A step with all its dependencies resolved is in no stuck set.
LEMMA ReadyIsNotStuck ==
    ASSUME TypeOK, StuckStaysUnresolved, NEW s \in Ids, AllResolved(s),
           NEW S \in SUBSET Ids, Stuck(S)
    PROVE  s \notin S
<1> SUFFICES ASSUME s \in S PROVE FALSE
  OBVIOUS
<1>1. PICK d \in deps[s] : d \in S \/ d \notin Ids
  BY DEF Stuck
<1>2. d \in resolved /\ d \in Ids
  BY <1>1 DEF AllResolved, TypeOK
<1> QED
  BY <1>1, <1>2 DEF StuckStaysUnresolved

\* When every id is resolved, nothing was stuck.
LEMMA AllResolvedNothingStuck ==
    ASSUME TypeOK, StuckStaysUnresolved, unresolved = {}
    PROVE  \A S \in SUBSET Ids : ~Stuck(S)
  BY DEF TypeOK, StuckStaysUnresolved, Stuck

\* The draft never changes.
LEMMA DraftStays ==
    ASSUME TypeOK, [Next]_vars
    PROVE  DraftOK' /\ deps' = deps /\ Ids' = Ids
<1>1. UNCHANGED draft
  BY DEF Next, Pass4, Layering, Sweep, Consider, LoopInPass4, EndPass4, Accept, Reject,
     AddLayer, LoopInLayers, EndLayers, Done, GoTo, vars, draft
<1>2. Pass3' = Pass3
  BY <1>1 DEF draft, Pass3, Task
<1> QED
  BY <1>1, <1>2 DEF draft, DraftOK, TypeOK, Ids

-----------------------------------------------------------------------------

\* What appending a layer adds.
LEMMA BeforeAppend ==
    ASSUME NEW ls \in Seq(SUBSET Ids), NEW C \in SUBSET Ids, NEW k \in Nat
    PROVE  /\ k <= Len(ls) + 1 => Before(Append(ls, C), k) = Before(ls, k)
           /\ k = Len(ls) + 1 => Before(Append(ls, C), k + 1) = Before(ls, k) \cup C
<1> DEFINE more == Append(ls, C)
<1>1. Len(ls) \in Nat /\ \A j \in 1 .. Len(ls) : more[j] = ls[j]
  OBVIOUS
<1>2. more[Len(ls) + 1] = C
  OBVIOUS
<1> HIDE DEF more
<1>3. k <= Len(ls) + 1 => Before(more, k) = Before(ls, k)
  BY <1>1 DEF Before
<1>4. ASSUME k = Len(ls) + 1 PROVE Before(more, k + 1) = Before(ls, k) \cup C
  <2>1. 1 .. (k + 1) - 1 = (1 .. k - 1) \cup {k}
    BY <1>1, <1>4
  <2>2. \A j \in 1 .. k - 1 : more[j] = ls[j]
    BY <1>1, <1>4
  <2>3. more[k] = C
    BY <1>2, <1>4
  <2> QED
    BY <2>1, <2>2, <2>3 DEF Before
<1> QED
  BY <1>3, <1>4 DEF more

\* The invariant holds of every draft that pass 4 or the planner starts with.
LEMMA InitIInv == Init => IInv
<1> SUFFICES ASSUME Init PROVE IInv
  OBVIOUS
<1> USE DEF Init
<1>1. TypeOK
  BY DEF TypeOK, DraftOK, Phase
<1>2. StuckStaysUnresolved
  BY DEF StuckStaysUnresolved
<1>3. SortingState
  BY DEF SortingState
<1>4. LayeringState
  BY DEF LayeringState, Before
<1>5. TopologicalOrder /\ LayersRespectDependencies /\ LayersAreTight
  BY DEF TopologicalOrder, LayersRespectDependencies, LayersAreTight
<1>6. LoopsDecideRight
  BY DEF LoopsDecideRight
<1> QED
  BY <1>1, <1>2, <1>3, <1>4, <1>5, <1>6 DEF IInv

\* Each step keeps the variables in range and the ids split between the two sets.
LEMMA TypeStep ==
    ASSUME IInv, [Next]_vars
    PROVE  TypeOK'
<1> USE DraftStays DEF IInv, TypeOK
<1>1. CASE Sweep
  BY <1>1 DEF Sweep
<1>2. ASSUME NEW s \in Step, Consider(s) PROVE TypeOK'
  <2>1. s \in Ids /\ s \in unresolved
    BY <1>2 DEF Consider
  <2>2. Append(optimized, s) \in Seq(Ids)
    BY <2>1
  <2>3. CASE AllResolved(s)
    BY <1>2, <2>1, <2>2, <2>3 DEF Consider
  <2>4. CASE ~AllResolved(s)
    BY <1>2, <2>1, <2>4 DEF Consider
  <2> QED
    BY <2>3, <2>4
<1>3. CASE LoopInPass4 \/ EndPass4 \/ Reject \/ LoopInLayers \/ EndLayers
  BY <1>3 DEF LoopInPass4, EndPass4, Reject, LoopInLayers, EndLayers, GoTo, Phase
<1>4. CASE Accept
  BY <1>4 DEF Accept, SortingState, Phase
<1>5. CASE AddLayer
  <2>1. CurrentLayer \in SUBSET Ids
    BY DEF CurrentLayer
  <2>2. Append(layers, CurrentLayer) \in Seq(SUBSET Ids)
    BY <2>1
  <2>3. pc' = pc /\ pending' = pending /\ progress' = progress /\ optimized' = optimized
    BY <1>5 DEF AddLayer
  <2>4. resolved' = resolved \cup CurrentLayer /\ unresolved' = unresolved \ CurrentLayer
    BY <1>5 DEF AddLayer
  <2>5. pending = {}
    BY <1>5 DEF AddLayer, LayeringState
  <2>6. layers' \in Seq(SUBSET Ids)
    BY <1>5, <2>2 DEF AddLayer
  <2> QED
    BY <2>1, <2>3, <2>4, <2>5, <2>6
<1>6. CASE UNCHANGED vars
  BY <1>6 DEF vars
<1> QED
  BY <1>1, <1>2, <1>3, <1>4, <1>5, <1>6 DEF Next, Pass4, Layering, Done

-----------------------------------------------------------------------------
(* The loops' sets.                                                        *)

\* The steps that leave the loop's resolved set alone.
LEMMA OthersKeepResolved ==
    ASSUME [Next]_vars
    PROVE  \/ \E s \in Step : Consider(s)
           \/ Accept
           \/ AddLayer
           \/ resolved' = resolved /\ layers' = layers /\ optimized' = optimized
  BY DEF Next, Pass4, Layering, Done, Sweep, LoopInPass4, EndPass4, Reject,
     LoopInLayers, EndLayers, GoTo, vars

\* A stuck set of steps stays unresolved.
LEMMA StuckStep ==
    ASSUME IInv, [Next]_vars
    PROVE  StuckStaysUnresolved'
<1> SUFFICES ASSUME NEW S \in SUBSET Ids, Stuck(S) PROVE S \cap resolved' = {}
  BY DraftStays DEF IInv, StuckStaysUnresolved, Stuck
<1>1. S \cap resolved = {}
  BY DEF IInv, StuckStaysUnresolved
<1>2. \A s \in unresolved : AllResolved(s) => s \notin S
  BY ReadyIsNotStuck DEF IInv, TypeOK
<1>3. ASSUME NEW s \in Step, Consider(s) PROVE S \cap resolved' = {}
  BY <1>1, <1>2, <1>3 DEF Consider, IInv, TypeOK
<1>4. CASE Accept
  BY <1>4 DEF Accept
<1>5. CASE AddLayer
  BY <1>1, <1>2, <1>5 DEF AddLayer, CurrentLayer
<1> QED
  BY <1>1, <1>3, <1>4, <1>5, OthersKeepResolved

\* Each step keeps the order of pass 4 topological.
LEMMA SortingStep ==
    ASSUME IInv, [Next]_vars
    PROVE  SortingState'
<1> USE DraftStays DEF IInv, TypeOK, SortingState
<1>1. CASE Sweep
  BY <1>1 DEF Sweep, AllResolved
<1>2. ASSUME NEW s \in Step, Consider(s) PROVE SortingState'
  <2>1. CASE AllResolved(s)
    <3>1. optimized' = Append(optimized, s) /\ resolved' = resolved \cup {s}
      BY <1>2, <2>1 DEF Consider
    <3>2. {Append(optimized, s)[i] : i \in DOMAIN Append(optimized, s)}
             = {optimized[i] : i \in DOMAIN optimized} \cup {s}
      <4>1. s \in Ids
        BY <1>2 DEF Consider
      <4>2. /\ DOMAIN optimized = 1 .. Len(optimized)
            /\ DOMAIN Append(optimized, s) = 1 .. Len(optimized) + 1
            /\ Len(optimized) \in Nat
        BY <4>1
      <4>3. /\ \A i \in 1 .. Len(optimized) : Append(optimized, s)[i] = optimized[i]
            /\ Append(optimized, s)[Len(optimized) + 1] = s
        BY <4>1
      <4> QED
        BY <4>2, <4>3
    <3>3. pc' = pc /\ pc = "pass_4" /\ progress' = TRUE /\ layers' = layers
      BY <1>2, <2>1 DEF Consider
    <3> QED
      BY <3>1, <3>2, <3>3
  <2>2. CASE ~AllResolved(s)
    BY <1>2, <2>2 DEF Consider, AllResolved
  <2> QED
    BY <2>1, <2>2
<1>3. CASE EndPass4 \/ Reject \/ LoopInPass4 \/ LoopInLayers \/ EndLayers
  BY <1>3 DEF EndPass4, Reject, LoopInPass4, LoopInLayers, EndLayers, GoTo
<1>4. CASE Accept \/ AddLayer
  BY <1>4 DEF Accept, AddLayer
<1>5. CASE UNCHANGED vars
  BY <1>5 DEF vars, AllResolved
<1> QED
  BY <1>1, <1>2, <1>3, <1>4, <1>5 DEF Next, Pass4, Layering, Done

\* Each step keeps the planner's layers a record of what is resolved.
LEMMA LayeringStep ==
    ASSUME IInv, [Next]_vars
    PROVE  LayeringState'
<1> USE DraftStays DEF IInv, TypeOK
<1>1. CASE Accept
  <2>1. layers = <<>> /\ unresolved = {} /\ pending = {}
    BY <1>1 DEF Accept, SortingState
  <2>2. \A S \in SUBSET Ids : ~Stuck(S)
    BY <2>1, AllResolvedNothingStuck
  <2>3. Before(<<>>, 1) = {}
    BY DEF Before
  <2> QED
    BY <1>1, <2>1, <2>2, <2>3 DEF Accept, LayeringState, Stuck
<1>2. CASE AddLayer
  <2>1. /\ pc = "layering" /\ pc' = pc /\ pending' = pending /\ optimized' = optimized
        /\ layers' = Append(layers, CurrentLayer)
        /\ resolved' = resolved \cup CurrentLayer
        /\ unresolved' = unresolved \ CurrentLayer
    BY <1>2 DEF AddLayer
  <2>2. Len(layers) \in Nat /\ CurrentLayer \in SUBSET Ids
    BY DEF CurrentLayer
  <2>3. Len(layers') = Len(layers) + 1 /\ layers' # <<>>
    BY <2>1, <2>2
  <2>4. resolved = Before(layers, Len(layers) + 1)
    BY <2>1 DEF LayeringState
  <2>5. /\ Before(layers', Len(layers) + 1) = resolved
        /\ Before(layers', (Len(layers) + 1) + 1) = resolved \cup CurrentLayer
    BY <2>1, <2>2, <2>4, BeforeAppend
  <2>6. \A s \in unresolved \ CurrentLayer : \E d \in deps[s] : d \notin resolved
    BY DEF CurrentLayer, AllResolved
  <2>7. optimized # <<>> => \A S \in SUBSET Ids : ~Stuck(S)
    BY <2>1 DEF LayeringState
  <2>8. pending = {}
    BY <2>1 DEF LayeringState
  <2> QED
    BY <2>1, <2>3, <2>5, <2>6, <2>7, <2>8 DEF LayeringState, Stuck
<1>3. CASE EndLayers
  BY <1>3 DEF EndLayers, GoTo, LayeringState, Stuck
<1>4. CASE pc' \notin {"layering", "planned"}
  BY <1>4 DEF LayeringState
<1>5. CASE UNCHANGED vars
  BY <1>5 DEF vars, LayeringState, Stuck
<1>6. CASE Pass4 \/ Reject \/ LoopInLayers
  BY <1>4, <1>6 DEF Pass4, Sweep, Consider, LoopInPass4, EndPass4, Reject, LoopInLayers, GoTo
<1> QED
  BY <1>1, <1>2, <1>3, <1>5, <1>6 DEF Next, Layering, Done

-----------------------------------------------------------------------------
(* What the loops build.                                                   *)

\* Each step lists a step once, and only after all it depends on.
LEMMA OrderStep ==
    ASSUME IInv, [Next]_vars
    PROVE  TopologicalOrder'
<1> USE DraftStays DEF IInv, TypeOK
<1>1. CASE optimized' = optimized
  BY <1>1 DEF TopologicalOrder
<1>2. ASSUME NEW s \in Step, Consider(s), AllResolved(s) PROVE TopologicalOrder'
  <2>1. /\ optimized' = Append(optimized, s)
        /\ resolved = {optimized[i] : i \in DOMAIN optimized}
        /\ s \in Ids /\ s \notin resolved
    BY <1>2 DEF Consider, SortingState
  <2>2. /\ Len(optimized) \in Nat
        /\ DOMAIN optimized = 1 .. Len(optimized)
        /\ DOMAIN optimized' = 1 .. Len(optimized) + 1
        /\ \A i \in 1 .. Len(optimized) : optimized'[i] = optimized[i]
        /\ optimized'[Len(optimized) + 1] = s
    BY <2>1
  <2>3. \A d \in deps[s] : \E j \in 1 .. Len(optimized) : optimized[j] = d
    BY <1>2, <2>1, <2>2 DEF AllResolved
  <2>4. ASSUME NEW i \in DOMAIN optimized'
        PROVE  /\ \A d \in deps[optimized'[i]] :
                      \E j \in 1 .. i - 1 : optimized'[j] = d
               /\ \A j \in 1 .. i - 1 : optimized'[j] # optimized'[i]
    <3>1. CASE i \in DOMAIN optimized
      <4>1. /\ \A j \in 1 .. i - 1 : optimized'[j] = optimized[j]
            /\ optimized'[i] = optimized[i]
        BY <2>2, <3>1
      <4> QED
        BY <3>1, <4>1 DEF TopologicalOrder
    <3>2. CASE i = Len(optimized) + 1
      <4>1. \A j \in 1 .. i - 1 : optimized'[j] = optimized[j]
        BY <2>2, <3>2
      <4> QED
        BY <2>1, <2>2, <2>3, <3>2, <4>1
    <3> QED
      BY <2>2, <3>1, <3>2
  <2> QED
    BY <2>4 DEF TopologicalOrder
<1>3. ASSUME NEW s \in Step, Consider(s), ~AllResolved(s) PROVE TopologicalOrder'
  BY <1>1, <1>3 DEF Consider
<1>4. CASE Accept \/ AddLayer
  BY <1>1, <1>4 DEF Accept, AddLayer
<1> QED
  BY <1>1, <1>2, <1>3, <1>4, OthersKeepResolved

\* Each step keeps the layers in order of dependency, and tight.
LEMMA LayersStep ==
    ASSUME IInv, [Next]_vars
    PROVE  LayersRespectDependencies' /\ LayersAreTight'
<1> USE DraftStays DEF IInv, TypeOK
<1>1. CASE layers' = layers
  BY <1>1 DEF LayersRespectDependencies, LayersAreTight
<1>2. CASE AddLayer
  <2>1. /\ pc = "layering"
        /\ layers' = Append(layers, CurrentLayer)
        /\ CurrentLayer \in SUBSET Ids
    BY <1>2 DEF AddLayer, CurrentLayer
  <2>2. /\ Len(layers) \in Nat
        /\ DOMAIN layers = 1 .. Len(layers)
        /\ DOMAIN layers' = 1 .. Len(layers) + 1
        /\ \A k \in 1 .. Len(layers) : layers'[k] = layers[k]
        /\ layers'[Len(layers) + 1] = CurrentLayer
    BY <2>1
  <2>3. \A x : x \in resolved <=> \E j \in 1 .. Len(layers) : x \in layers[j]
    BY <2>1, <2>2 DEF LayeringState, Before
  <2>4. \A s \in CurrentLayer : s \notin resolved /\ deps[s] \subseteq resolved
    BY DEF CurrentLayer, AllResolved
  <2>5. ASSUME layers # <<>>, NEW s \in CurrentLayer
        PROVE  \E d \in deps[s] : d \in layers[Len(layers)]
    <3>1. PICK d \in deps[s] : d \notin Before(layers, Len(layers))
      BY <2>1, <2>5 DEF LayeringState, CurrentLayer
    <3>2. \A j \in 1 .. Len(layers) - 1 : d \notin layers[j]
      BY <3>1 DEF Before
    <3>3. PICK j \in 1 .. Len(layers) : d \in layers[j]
      BY <2>3, <2>4, <2>5
    <3>4. j = Len(layers)
      <4>1. Len(layers) \in Nat
        BY <2>2
      <4>2. j \notin 1 .. Len(layers) - 1
        BY <3>2, <3>3
      <4>3. j \in 1 .. Len(layers)
        OBVIOUS
      <4> HIDE DEF TypeOK, IInv
      <4> QED
        BY <4>1, <4>2, <4>3
    <3> QED
      BY <3>3, <3>4
  <2>6. ASSUME NEW k \in DOMAIN layers', NEW s \in layers'[k]
        PROVE  /\ \A j \in 1 .. k - 1 : s \notin layers'[j]
               /\ \A d \in deps[s] : \E j \in 1 .. k - 1 : d \in layers'[j]
               /\ k > 1 => \E d \in deps[s] : d \in layers'[k - 1]
    <3>1. CASE k \in DOMAIN layers
      <4>1. \A j \in 1 .. k : layers'[j] = layers[j]
        BY <2>2, <3>1
      <4>2. layers'[k] = layers[k] /\ (k > 1 => layers'[k - 1] = layers[k - 1])
        BY <2>2, <3>1
      <4>3. \A j \in 1 .. k - 1 : layers'[j] = layers[j]
        BY <2>2, <3>1
      <4>4. /\ \A j \in 1 .. k - 1 : s \notin layers[j]
            /\ \A d \in deps[s] : \E j \in 1 .. k - 1 : d \in layers[j]
        BY <2>6, <3>1, <4>2 DEF LayersRespectDependencies
      <4>5. k > 1 => \E d \in deps[s] : d \in layers[k - 1]
        BY <2>6, <3>1, <4>2 DEF LayersAreTight
      <4> QED
        BY <4>2, <4>3, <4>4, <4>5
    <3>2. CASE k = Len(layers) + 1
      <4>1. s \in CurrentLayer /\ k - 1 = Len(layers)
        BY <2>2, <2>6, <3>2
      <4>2. \A j \in 1 .. k - 1 : layers'[j] = layers[j]
        BY <2>2, <3>2
      <4>3. k > 1 => layers # <<>> /\ layers'[k - 1] = layers[Len(layers)]
        BY <2>2, <3>2, <4>1
      <4>4. /\ \A j \in 1 .. Len(layers) : s \notin layers[j]
            /\ \A d \in deps[s] : \E j \in 1 .. Len(layers) : d \in layers[j]
        BY <2>3, <2>4, <4>1
      <4> QED
        BY <2>5, <4>1, <4>2, <4>3, <4>4
    <3> QED
      BY <2>2, <3>1, <3>2
  <2> QED
    BY <2>6 DEF LayersRespectDependencies, LayersAreTight
<1>3. ASSUME NEW s \in Step, Consider(s) PROVE layers' = layers
  BY <1>3 DEF Consider
<1>4. CASE Accept
  BY <1>1, <1>4 DEF Accept
<1> QED
  BY <1>1, <1>2, <1>3, <1>4, OthersKeepResolved

\* Each step keeps the verdicts right.
LEMMA VerdictStep ==
    ASSUME IInv, [Next]_vars
    PROVE  LoopsDecideRight'
<1> USE DraftStays DEF IInv, TypeOK
<1>1. CASE pc' = pc
  BY <1>1 DEF LoopsDecideRight, Stuck
<1>2. CASE LoopInPass4 \/ LoopInLayers
  <2>1. unresolved # {} /\ pc' = "cyclic"
    BY <1>2 DEF LoopInPass4, LoopInLayers, GoTo
  <2>2. \A s \in unresolved : ~AllResolved(s)
    BY <1>2 DEF LoopInPass4, LoopInLayers, SortingState, CurrentLayer
  <2>3. Stuck(unresolved) /\ unresolved \in SUBSET Ids
    BY <2>1, <2>2, NoneReadyIsStuck
  <2> QED
    BY <2>1, <2>3 DEF LoopsDecideRight, Stuck
<1>3. CASE EndPass4 \/ Reject \/ EndLayers
  <2>1. unresolved = {} /\ pc' # "cyclic"
    BY <1>3 DEF EndPass4, Reject, EndLayers, GoTo, SortingState
  <2>2. \A S \in SUBSET Ids : ~Stuck(S)
    BY <2>1, AllResolvedNothingStuck
  <2> QED
    BY <2>1, <2>2 DEF LoopsDecideRight, Stuck
<1>4. CASE Accept
  BY <1>4 DEF Accept, LoopsDecideRight
<1>5. ASSUME NEW s \in Step, Consider(s) PROVE pc' = pc
  BY <1>5 DEF Consider
<1>6. CASE Sweep \/ AddLayer \/ Done
  BY <1>1, <1>6 DEF Sweep, AddLayer, Done, vars
<1>7. CASE UNCHANGED vars
  BY <1>1, <1>7 DEF vars
<1> QED
  BY <1>1, <1>2, <1>3, <1>4, <1>5, <1>6, <1>7 DEF Next, Pass4, Layering

-----------------------------------------------------------------------------
(* The theorems.                                                           *)

\* The inductive invariant holds in every reachable state.
THEOREM InductiveInvariant == Spec => []IInv
<1>1. IInv /\ [Next]_vars => IInv'
  BY TypeStep, StuckStep, SortingStep, LayeringStep, OrderStep, LayersStep, VerdictStep
     DEF IInv
<1> QED
  BY InitIInv, <1>1, PTL DEF Spec

\* Every variable stays in its range, for every draft.
THEOREM TypeCorrect == Spec => []TypeOK
<1>1. IInv => TypeOK
  BY DEF IInv
<1> QED
  BY <1>1, InductiveInvariant, PTL

\* Pass 4 sorts topologically whatever the draft and the order of the set.
THEOREM Pass4Sorts == Spec => []TopologicalOrder
<1>1. IInv => TopologicalOrder
  BY DEF IInv
<1> QED
  BY <1>1, InductiveInvariant, PTL

\* The layers respect the dependencies, which is what SchedulerAssumption asks
\* of a plan.
THEOREM LayersAreRight == Spec => []LayersRespectDependencies
<1>1. IInv => LayersRespectDependencies
  BY DEF IInv
<1> QED
  BY <1>1, InductiveInvariant, PTL

\* No node waits for a layer it does not need.
THEOREM LayersTight == Spec => []LayersAreTight
<1>1. IInv => LayersAreTight
  BY DEF IInv
<1> QED
  BY <1>1, InductiveInvariant, PTL

\* Both loops raise exactly on the drafts with steps that can never run.
THEOREM VerdictsAreRight == Spec => []LoopsDecideRight
<1>1. IInv => LoopsDecideRight
  BY DEF IInv
<1> QED
  BY <1>1, InductiveInvariant, PTL

\* A plan that compiled never fails in the planner, and loses no node there.
THEOREM CompiledPlansAreLayered == Spec => []CompiledPlansHaveLayers
<1>1. IInv => CompiledPlansHaveLayers
  <2> SUFFICES ASSUME IInv, optimized # <<>>, pc \in {"layering", "planned"}
               PROVE  /\ pc = "layering" => unresolved = {} \/ CurrentLayer # {}
                      /\ pc = "planned" =>
                            UNION {layers[k] : k \in DOMAIN layers} = Ids
    BY DEF CompiledPlansHaveLayers
  <2>1. \A S \in SUBSET Ids : ~Stuck(S)
    BY DEF IInv, LayeringState
  <2>2. unresolved # {} => CurrentLayer # {}
    <3> SUFFICES ASSUME unresolved # {}, CurrentLayer = {} PROVE FALSE
      OBVIOUS
    <3>1. \A s \in unresolved : ~AllResolved(s)
      BY DEF CurrentLayer
    <3>2. Stuck(unresolved) /\ unresolved \in SUBSET Ids
      BY <3>1, NoneReadyIsStuck DEF IInv, TypeOK
    <3> QED
      BY <2>1, <3>2
  <2>3. ASSUME pc = "planned" PROVE UNION {layers[k] : k \in DOMAIN layers} = Ids
    <3>1. resolved = Before(layers, Len(layers) + 1) /\ unresolved = {}
      BY <2>3 DEF IInv, LayeringState
    <3>2. DOMAIN layers = 1 .. (Len(layers) + 1) - 1
      BY DEF IInv, TypeOK
    <3>3. resolved = Ids
      BY <3>1 DEF IInv, TypeOK
    <3> QED
      BY <3>1, <3>2, <3>3 DEF Before
  <2> QED
    BY <2>2, <2>3
<1> QED
  BY <1>1, InductiveInvariant, PTL

-----------------------------------------------------------------------------
(* What the scheduler is handed.                                           *)

\* A layer is appended only if it has a node.
NoLayerEmpty == \A k \in DOMAIN layers : layers[k] # {}

\* Each step keeps the layers filled.
LEMMA NoLayerEmptyStep == IInv /\ NoLayerEmpty /\ [Next]_vars => NoLayerEmpty'
<1> SUFFICES ASSUME IInv, NoLayerEmpty, [Next]_vars
             PROVE  NoLayerEmpty'
  OBVIOUS
<1>1. CASE AddLayer
  <2>1. layers \in Seq(SUBSET Ids) /\ CurrentLayer \in SUBSET Ids
    BY DEF IInv, TypeOK, CurrentLayer
  <2>2. layers' = Append(layers, CurrentLayer) /\ CurrentLayer # {}
    BY <1>1 DEF AddLayer
  <2>3. /\ Len(layers) \in Nat /\ DOMAIN layers = 1..Len(layers)
        /\ DOMAIN layers' = 1..Len(layers) + 1
        /\ \A k \in 1..Len(layers) : layers'[k] = layers[k]
        /\ layers'[Len(layers) + 1] = CurrentLayer
    BY <2>1, <2>2
  <2>4. \A k \in 1..Len(layers) + 1 : k \in 1..Len(layers) \/ k = Len(layers) + 1
    BY <2>3
  <2> QED
    BY <2>2, <2>3, <2>4 DEF NoLayerEmpty
<1>2. CASE layers' = layers
  BY <1>2 DEF NoLayerEmpty
<1>3. CASE Pass4 \/ Accept \/ Reject \/ LoopInLayers \/ EndLayers \/ UNCHANGED vars
  BY <1>2, <1>3 DEF Pass4, Sweep, Consider, LoopInPass4, EndPass4, Accept, Reject,
     LoopInLayers, EndLayers, GoTo, vars
<1> QED
  BY <1>1, <1>3 DEF Next, Layering, Done

\* The draft names finitely many steps.
LEMMA IdsFinite ==
    ASSUME TypeOK
    PROVE  IsFiniteSet(Ids)
<1> DEFINE f == [i \in DOMAIN subtasks |-> subtasks[i].step_id]
<1>1. subtasks \in Seq(Subtask)
  BY CompilerAssumption DEF TypeOK, DraftOK, CompilerAssumption
<1>2. DOMAIN subtasks = 1..Len(subtasks) /\ Len(subtasks) \in Nat
  BY <1>1
<1>3. IsFiniteSet(DOMAIN subtasks)
  <2>1. 1 \in Int /\ Len(subtasks) \in Int
    BY <1>2
  <2> QED
    BY <1>2, <2>1, FS_Interval
<1>4. Ids = {subtasks[i].step_id : i \in DOMAIN subtasks}
  BY DEF TypeOK, DraftOK, Ids, Pass3
<1>5. f \in Surjection(DOMAIN subtasks, Ids)
  BY <1>4 DEF Surjection
<1> QED
  BY <1>3, <1>5, FS_Surjection

\* What SchedulerAssumption asks of a plan's nodes, and Gateway of its layers: a
\* finite set of nodes, each in one layer, its dependencies nodes of earlier ones,
\* and no layer without a node.
FitsScheduler ==
    /\ IsFiniteSet(Ids)
    /\ \E LayerOf \in [Ids -> 1..Len(layers)] :
          /\ \A k \in 1..Len(layers) : layers[k] = {s \in Ids : LayerOf[s] = k}
          /\ \A s \in Ids : /\ deps[s] \subseteq Ids
                            /\ \A d \in deps[s] : LayerOf[d] < LayerOf[s]
    /\ \A k \in 1..Len(layers) : layers[k] # {}

\* THEOREM: every plan that comes out of the planner meets what the scheduler
\* takes for granted of the plans it is given, so the theorems of Scheduler hold
\* of compiled plans.
THEOREM PlansFitScheduler == Spec => [](pc = "planned" => FitsScheduler)
<1>1. ASSUME IInv, NoLayerEmpty, pc = "planned" PROVE FitsScheduler
  <2> DEFINE LayerOf == [s \in Ids |-> CHOOSE k \in 1..Len(layers) : s \in layers[k]]
  <2>1. /\ Len(layers) \in Nat /\ DOMAIN layers = 1..Len(layers)
        /\ \A k \in 1..Len(layers) : layers[k] \subseteq Ids
    BY <1>1 DEF IInv, TypeOK
  <2>2. \A s \in Ids : \E k \in 1..Len(layers) : s \in layers[k]
    <3>1. resolved = Before(layers, Len(layers) + 1) /\ unresolved = {}
      BY <1>1 DEF IInv, LayeringState
    <3>2. resolved = Ids
      BY <1>1, <3>1 DEF IInv, TypeOK
    <3>3. 1 .. (Len(layers) + 1) - 1 = 1..Len(layers)
      BY <2>1
    <3> QED
      BY <3>1, <3>2, <3>3 DEF Before
  <2>3. ASSUME NEW s \in Ids
        PROVE  LayerOf[s] \in 1..Len(layers) /\ s \in layers[LayerOf[s]]
    BY <2>2
  <2>4. ASSUME NEW s \in Ids, NEW j \in 1..Len(layers), NEW k \in 1..Len(layers),
               s \in layers[j], s \in layers[k]
        PROVE  j = k
    <3>1. \A l \in 1 .. k - 1 : s \notin layers[l]
      BY <1>1, <2>1, <2>4 DEF IInv, LayersRespectDependencies
    <3>2. \A l \in 1 .. j - 1 : s \notin layers[l]
      BY <1>1, <2>1, <2>4 DEF IInv, LayersRespectDependencies
    <3>3. ~(j < k) /\ ~(k < j)
      BY <2>1, <2>4, <3>1, <3>2
    <3> QED
      BY <2>1, <3>3
  <2>5. ASSUME NEW s \in Ids, NEW d \in deps[s]
        PROVE  d \in Ids /\ LayerOf[d] < LayerOf[s]
    <3>1. LayerOf[s] \in 1..Len(layers) /\ s \in layers[LayerOf[s]]
      BY <2>3
    <3>2. PICK j \in 1 .. LayerOf[s] - 1 : d \in layers[j]
      BY <1>1, <2>1, <3>1 DEF IInv, LayersRespectDependencies
    <3> HIDE DEF LayerOf
    <3>3. j \in 1..Len(layers) /\ d \in Ids /\ j < LayerOf[s]
      BY <2>1, <3>1, <3>2
    <3>4. LayerOf[d] = j
      BY <2>3, <2>4, <3>2, <3>3
    <3> QED
      BY <3>3, <3>4
  <2>6. LayerOf \in [Ids -> 1..Len(layers)]
    BY <2>3
  <2> HIDE DEF LayerOf
  <2>7. \A k \in 1..Len(layers) : layers[k] = {s \in Ids : LayerOf[s] = k}
    BY <2>1, <2>3, <2>4
  <2>8. \A k \in 1..Len(layers) : layers[k] # {}
    BY <1>1, <2>1 DEF NoLayerEmpty
  <2>9. IsFiniteSet(Ids)
    BY <1>1, IdsFinite DEF IInv
  <2> QED
    BY <2>5, <2>6, <2>7, <2>8, <2>9 DEF FitsScheduler
<1>2. Init => NoLayerEmpty
  BY DEF Init, NoLayerEmpty
<1>3. (pc = "planned" => FitsScheduler) \/ ~(IInv /\ NoLayerEmpty)
  BY <1>1
<1>4. IInv /\ NoLayerEmpty /\ [Next]_vars => NoLayerEmpty'
  BY NoLayerEmptyStep
<1> QED
  BY <1>2, <1>3, <1>4, InductiveInvariant, PTL DEF Spec

-----------------------------------------------------------------------------
(* Progress: what EveryDraftIsDecided rests on besides fairness.           *)

\* Where the pipeline is.
Rank == [pass_4 |-> 0, compiled |-> 1, layering |-> 2,
         planned |-> 3, cyclic |-> 3, rejected |-> 3]

\* A turn of a loop brings the pipeline closer to its verdict: a later phase, or
\* fewer steps unresolved, or the same and the flag cleared, or the same and
\* fewer steps left of the sweep.
Closer ==
    \/ Rank[pc'] > Rank[pc]
    \/ /\ pc' = pc
       /\ \/ unresolved' \subseteq unresolved /\ unresolved' # unresolved
          \/ /\ unresolved' = unresolved
             /\ \/ progress /\ ~progress'
                \/ /\ progress' = progress
                   /\ pending' \subseteq pending /\ pending' # pending

\* THEOREM: each step of the pipeline before its verdict brings it closer, and
\* the sets it counts down are finite, so no draft keeps a loop going forever.
THEOREM LoopsRunOut ==
    Spec => /\ [][pc \notin Finished /\ Next => Closer]_vars
            /\ [](IsFiniteSet(unresolved) /\ IsFiniteSet(pending))
<1>1. ASSUME IInv, Next, pc \notin Finished PROVE Closer
  <2> USE <1>1 DEF IInv, TypeOK
  <2>1. CASE Sweep
    BY <2>1 DEF Sweep, Closer
  <2>2. ASSUME NEW s \in Step, Consider(s) PROVE Closer
    BY <2>2 DEF Consider, Closer
  <2>3. CASE AddLayer
    <3>1. CurrentLayer # {} /\ CurrentLayer \subseteq unresolved
      BY <2>3 DEF AddLayer, CurrentLayer
    <3> QED
      BY <2>3, <3>1 DEF AddLayer, Closer
  <2>4. CASE LoopInPass4 \/ EndPass4 \/ Accept \/ Reject \/ LoopInLayers \/ EndLayers
    BY <2>4 DEF LoopInPass4, EndPass4, Accept, Reject, LoopInLayers, EndLayers, GoTo,
       Closer, Rank
  <2> QED
    BY <1>1, <2>1, <2>2, <2>3, <2>4 DEF Next, Pass4, Layering, Done
<1>2. IInv => IsFiniteSet(unresolved) /\ IsFiniteSet(pending)
  <2> SUFFICES ASSUME IInv
               PROVE  IsFiniteSet(unresolved) /\ IsFiniteSet(pending)
    OBVIOUS
  <2>1. IsFiniteSet(Ids) /\ unresolved \subseteq Ids /\ pending \subseteq Ids
    BY IdsFinite DEF IInv, TypeOK
  <2> QED
    BY <2>1, FS_Subset
<1>3. IInv /\ [Next]_vars => [pc \notin Finished /\ Next => Closer]_vars
  BY <1>1
<1> QED
  BY <1>2, <1>3, InductiveInvariant, PTL DEF Spec

=============================================================================
