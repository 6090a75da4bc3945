--------------------------- MODULE RuntimesProofs ---------------------------
(***************************************************************************)
(* Theorems of the event bus and of the runtimes on it. The bus keeps its  *)
(* promises for any callbacks, messages and order of events: at most one   *)
(* call per message, nobody left out, and nothing running after stop. Its  *)
(* invariant ties the loop, the count and stop together, and says where    *)
(* each message can be.                                                    *)
(*                                                                         *)
(* The runs use the bus as its specification lets clients use it, so what  *)
(* is proved of the bus holds for them. RunOK says how far the tasks of a  *)
(* run are where its execute is; Heard where a worker's chunk is while its *)
(* agent is subscribed.                                                    *)
(***************************************************************************)
EXTENDS Runtimes, FiniteSetTheorems, WellFoundedInduction, TLAPS

-----------------------------------------------------------------------------
(* The bus by itself.                                                      *)

Has(s, n) == \E i \in DOMAIN s : s[i] = n

Distinct(s) == \A i, j \in DOMAIN s : s[i] = s[j] => i = j

Logged(c, m) == Has(log[c], m)

\* Only a dispatch is counted, and only in one are there calls.
DispatchState ==
    /\ dispatching_count = IF loop = "dispatch" THEN 1 ELSE 0
    /\ loop = "dispatch" => \E m \in Message : message = {m}
    /\ loop # "dispatch" => message = {} /\ destinations = {}
    /\ \A c \in Callback : call[c] = "idle" <=> c \notin destinations

\* stop leaves no loop that could start another dispatch.
StopState_ ==
    /\ running => stopping = "no"
    /\ ~running => loop # "get"
    /\ stopping = "cancelled" => loop = "ended"
    /\ ~running /\ stopping = "no" => loop \in {"none", "ended"}

\* A message is with the publishers, in the queue, being dispatched or done with.
MessageState ==
    /\ unsent \cap queue = {}
    /\ message \cap (unsent \cup queue) = {}
    /\ \A c \in Callback : \A m \in unsent \cup queue : ~Logged(c, m)
    /\ \A c \in Callback : \A m \in message :
          c \in destinations => (Logged(c, m) <=> call[c] # "created")

IInv ==
    /\ TypeOK
    /\ DispatchState
    /\ StopState_
    /\ MessageState
    /\ AtMostOnce

-----------------------------------------------------------------------------
(* Helpers.                                                                *)

\* What appending to a callback's log does.
LEMMA AppendFacts ==
    ASSUME NEW s \in Seq(Message), NEW m \in Message
    PROVE  /\ Append(s, m) \in Seq(Message)
           /\ \A n : Has(Append(s, m), n) <=> n = m \/ Has(s, n)
           /\ Distinct(s) /\ ~Has(s, m) => Distinct(Append(s, m))
<1> DEFINE t == Append(s, m)
<1>1. /\ t \in Seq(Message) /\ Len(s) \in Nat
      /\ DOMAIN s = 1 .. Len(s) /\ DOMAIN t = 1 .. Len(s) + 1
      /\ \A i \in 1 .. Len(s) : t[i] = s[i]
      /\ t[Len(s) + 1] = m
  OBVIOUS
<1> HIDE DEF t
<1>2. ASSUME NEW n
      PROVE  Has(t, n) <=> n = m \/ Has(s, n)
  BY <1>1 DEF Has
<1>3. ASSUME Distinct(s), ~Has(s, m) PROVE Distinct(t)
  <2> SUFFICES ASSUME NEW i \in DOMAIN t, NEW j \in DOMAIN t, t[i] = t[j]
               PROVE  i = j
    BY DEF Distinct
  <2>1. CASE i \in DOMAIN s /\ j \in DOMAIN s
    BY <1>1, <1>3, <2>1 DEF Distinct
  <2>2. CASE i = Len(s) + 1 \/ j = Len(s) + 1
    BY <1>1, <1>3, <2>2 DEF Has
  <2> QED
    BY <1>1, <2>1, <2>2
<1>4. t \in Seq(Message)
  BY <1>1
<1> QED
  BY <1>2, <1>3, <1>4 DEF t

\* The invariant holds before anything is published.
LEMMA InitIInv == Init => IInv
<1> SUFFICES ASSUME Init PROVE IInv
  OBVIOUS
<1>1. TypeOK
  <2>1. log \in [Callback -> Seq(Message)]
    <3>1. <<>> \in Seq(Message)
      OBVIOUS
    <3> QED
      BY <3>1 DEF Init
  <2>2. call \in [Callback -> CallState]
    BY DEF Init, CallState
  <2> QED
    BY <2>1, <2>2 DEF Init, TypeOK, LoopState, StopState
<1>2. DispatchState /\ StopState_
  BY DEF Init, DispatchState, StopState_
<1>3. MessageState /\ AtMostOnce
  BY DEF Init, MessageState, AtMostOnce, Logged, Has
<1> QED
  BY <1>1, <1>2, <1>3 DEF IInv

-----------------------------------------------------------------------------
(* Every step but Take and BeginCall leaves the logs alone.                *)

\* Taking a message keeps the invariant: it leaves the queue for the dispatch.
LEMMA TakeStep ==
    ASSUME IInv, NEW m \in Message, Take(m)
    PROVE  IInv'
<1> USE DEF IInv, TypeOK
<1>1. /\ loop = "get" /\ m \in queue /\ m \notin unsent /\ queue' = queue \ {m}
      /\ running /\ dispatching_count = 0
      /\ unsent' = unsent /\ subscribers' = subscribers
      /\ running' = running /\ stopping' = stopping
  BY DEF Take, Next_message, DispatchState, StopState_, MessageState
<1>2. Receivers(m) \subseteq Callback
  BY DEF Receivers
<1>3. \A c \in Callback : ~Logged(c, m)
  BY <1>1 DEF MessageState
<1>4. CASE Receivers(m) = {}
  <2>1. UNCHANGED <<loop, message, destinations, call, dispatching_count, log>>
    BY <1>4 DEF Take
  <2> QED
    BY <1>1, <2>1 DEF DispatchState, StopState_, MessageState, AtMostOnce, Logged
<1>5. CASE Receivers(m) # {} /\ Cardinality(Receivers(m)) = 1
  <2>1. /\ loop' = "dispatch" /\ message' = {m} /\ destinations' = Receivers(m)
        /\ call' = [c \in Callback |-> IF c \in Receivers(m) THEN "running" ELSE "idle"]
        /\ log' = [c \in Callback |->
                      IF c \in Receivers(m) THEN Append(log[c], m) ELSE log[c]]
        /\ dispatching_count' = dispatching_count + 1
    BY <1>5 DEF Take
  <2>2. ASSUME NEW c \in Callback
        PROVE  /\ log'[c] \in Seq(Message)
               /\ \A n : Logged(c, n)' <=> (c \in Receivers(m) /\ n = m) \/ Logged(c, n)
               /\ Distinct(log'[c])
    <3>1. log[c] \in Seq(Message)
      OBVIOUS
    <3>2. Distinct(log[c]) /\ ~Has(log[c], m)
      BY <1>3 DEF AtMostOnce, Logged, Distinct
    <3>3. CASE c \in Receivers(m)
      <4>1. log'[c] = Append(log[c], m)
        BY <2>1, <3>3
      <4> HIDE DEF IInv, TypeOK
      <4> QED
        BY <3>1, <3>2, <3>3, <4>1, AppendFacts DEF Logged
    <3>4. CASE c \notin Receivers(m)
      <4>1. log'[c] = log[c]
        BY <2>1, <3>4
      <4> QED
        BY <3>1, <3>2, <3>4, <4>1 DEF Logged
    <3> QED
      BY <3>3, <3>4
  <2>3. TypeOK'
    BY <1>1, <1>2, <2>1, <2>2 DEF LoopState, CallState
  <2>4. DispatchState' /\ StopState_'
    BY <1>1, <1>2, <2>1 DEF DispatchState, StopState_
  <2>5. MessageState'
    BY <1>1, <2>1, <2>2 DEF MessageState
  <2>6. AtMostOnce'
    BY <2>2 DEF AtMostOnce, Distinct
  <2> QED
    BY <2>3, <2>4, <2>5, <2>6
<1>6. CASE Receivers(m) # {} /\ Cardinality(Receivers(m)) # 1
  <2>1. /\ loop' = "dispatch" /\ message' = {m} /\ destinations' = Receivers(m)
        /\ call' = [c \in Callback |-> IF c \in Receivers(m) THEN "created" ELSE "idle"]
        /\ log' = log
        /\ dispatching_count' = dispatching_count + 1
    BY <1>6 DEF Take
  <2>2. TypeOK'
    BY <1>1, <1>2, <2>1 DEF LoopState, CallState
  <2>3. DispatchState' /\ StopState_'
    BY <1>1, <1>2, <2>1 DEF DispatchState, StopState_
  <2>4. MessageState'
    BY <1>1, <1>3, <2>1 DEF MessageState, Logged
  <2>5. AtMostOnce'
    BY <2>1 DEF AtMostOnce
  <2> QED
    BY <2>2, <2>3, <2>4, <2>5
<1> QED
  BY <1>4, <1>5, <1>6

\* A task of gather that starts adds one new message to one log.
LEMMA BeginStep ==
    ASSUME IInv, NEW c \in Callback, BeginCall(c)
    PROVE  IInv'
<1> USE DEF IInv, TypeOK
<1>1. c \in destinations /\ call[c] = "created" /\ loop = "dispatch"
  BY DEF BeginCall, DispatchState
<1>2. PICK m \in message : log' = [log EXCEPT ![c] = Append(@, m)]
  BY DEF BeginCall
<1>3. /\ call' = [call EXCEPT ![c] = "running"]
      /\ UNCHANGED <<unsent, queue, subscribers, running, loop, stopping, message,
                     destinations, dispatching_count>>
  BY DEF BeginCall
<1>4. m \in Message /\ message = {m} /\ ~Logged(c, m)
  BY <1>1, <1>2 DEF DispatchState, MessageState
<1>5. /\ log'[c] \in Seq(Message)
      /\ \A n : Logged(c, n)' <=> n = m \/ Logged(c, n)
      /\ Distinct(log'[c])
  <2>1. log[c] \in Seq(Message) /\ log'[c] = Append(log[c], m)
    BY <1>2
  <2>2. Distinct(log[c]) /\ ~Has(log[c], m)
    BY <1>4 DEF AtMostOnce, Logged, Distinct
  <2> HIDE DEF IInv, TypeOK
  <2> QED
    BY <1>4, <2>1, <2>2, AppendFacts DEF Logged
<1>6. \A b \in Callback \ {c} : log'[b] = log[b] /\ call'[b] = call[b]
  BY <1>2, <1>3
<1>7. \A b \in Callback \ {c} : \A n : Logged(b, n)' <=> Logged(b, n)
  BY <1>6 DEF Logged
<1>8. TypeOK'
  <2>1. log' \in [Callback -> Seq(Message)]
    BY <1>2, <1>5, <1>6
  <2> QED
    BY <1>3, <2>1 DEF CallState
<1>9. DispatchState' /\ StopState_'
  BY <1>1, <1>3 DEF DispatchState, StopState_
<1>10. MessageState'
  BY <1>1, <1>3, <1>4, <1>5, <1>6, <1>7 DEF MessageState
<1>11. AtMostOnce'
  BY <1>5, <1>6 DEF AtMostOnce, Distinct
<1> QED
  BY <1>8, <1>9, <1>10, <1>11

\* Every other step leaves the logs alone and keeps the invariant.
LEMMA QuietStep ==
    ASSUME IInv, [Next]_vars,
           \A m \in Message : ~Take(m), \A c \in Callback : ~BeginCall(c)
    PROVE  IInv'
<1> USE DEF IInv
<1>1. log' = log
  BY DEF Next, Client, Bus, publish, subscribe, unsubscribe, start, stop, StopDrained,
     StopReturn, EndCall, EndDispatch, FailDispatch, EndBackoff, Leave, vars
<1>2. AtMostOnce'
  BY <1>1 DEF AtMostOnce
<1>3. \A c, m : Logged(c, m)' <=> Logged(c, m)
  BY <1>1 DEF Logged
<1> USE DEF TypeOK, DispatchState, StopState_, MessageState
<1>4. ASSUME NEW m \in Message, publish(m) PROVE IInv'
  BY <1>1, <1>2, <1>3, <1>4 DEF publish
<1>5. ASSUME NEW c \in Callback, subscribe(c) \/ unsubscribe(c) PROVE IInv'
  BY <1>1, <1>2, <1>3, <1>5 DEF subscribe, unsubscribe
<1>6. CASE start
  BY <1>1, <1>2, <1>3, <1>6 DEF start, LoopState
<1>7. CASE stop
  <2>1. CASE dispatching_count = 0
    <3>1. /\ running /\ ~running' /\ loop # "dispatch" /\ loop' = "ended"
          /\ stopping' = "cancelled"
          /\ UNCHANGED <<unsent, queue, subscribers, message, destinations, call,
                         dispatching_count>>
      BY <1>7, <2>1 DEF stop, CancelLoop
    <3>2. DispatchState' /\ StopState_' /\ MessageState'
      BY <1>1, <1>3, <3>1
    <3>3. TypeOK'
      BY <1>1, <1>7, <3>1 DEF stop, LoopState, StopState
    <3> QED
      BY <1>2, <3>2, <3>3
  <2>2. CASE dispatching_count # 0
    <3>1. /\ running /\ ~running' /\ loop = "dispatch" /\ stopping' = "draining"
          /\ UNCHANGED <<unsent, queue, subscribers, loop, message, destinations, call,
                         dispatching_count>>
      BY <1>7, <2>2 DEF stop
    <3>2. DispatchState' /\ StopState_' /\ MessageState'
      BY <1>1, <1>3, <3>1
    <3>3. TypeOK'
      BY <1>1, <1>7, <3>1 DEF stop, LoopState, StopState
    <3> QED
      BY <1>2, <3>2, <3>3
  <2> QED
    BY <2>1, <2>2
<1>11. CASE StopDrained
  BY <1>1, <1>2, <1>3, <1>11 DEF StopDrained, CancelLoop, LoopState, StopState
<1>12. CASE StopReturn
  BY <1>1, <1>2, <1>3, <1>12 DEF StopReturn, StopState
<1>8. ASSUME NEW c \in Callback, EndCall(c) PROVE IInv'
  BY <1>1, <1>2, <1>3, <1>8 DEF EndCall, CallState
<1>9. ASSUME loop = "dispatch", NEW next \in LoopState \ {"dispatch"}, Leave(next),
             next = "get" => running
      PROVE  IInv'
  BY <1>1, <1>2, <1>3, <1>9 DEF Leave, LoopState, CallState
<1>13. CASE EndDispatch
  BY <1>9, <1>13 DEF EndDispatch, LoopState
<1>14. CASE FailDispatch
  BY <1>9, <1>14 DEF FailDispatch, LoopState
<1>15. CASE EndBackoff
  BY <1>1, <1>2, <1>3, <1>15 DEF EndBackoff, LoopState
<1>10. CASE UNCHANGED vars
  BY <1>1, <1>2, <1>3, <1>10 DEF vars
<1> QED
  BY <1>4, <1>5, <1>6, <1>7, <1>8, <1>10, <1>11,
     <1>12, <1>13, <1>14, <1>15 DEF Next, Client, Bus

-----------------------------------------------------------------------------
(* Theorems of the bus.                                                    *)

\* The inductive invariant holds in every reachable state.
THEOREM InductiveInvariant == Spec => []IInv
<1>1. IInv /\ [Next]_vars => IInv'
  BY TakeStep, BeginStep, QuietStep
<1> QED
  BY InitIInv, <1>1, PTL DEF Spec

\* Every variable stays in its range, and at most one dispatch is counted.
THEOREM TypeCorrect == Spec => []TypeOK
<1>1. IInv => TypeOK
  BY DEF IInv
<1> QED
  BY <1>1, InductiveInvariant, PTL

\* No callback is ever called twice with one message.
THEOREM NoDuplicates == Spec => []AtMostOnce
<1>1. IInv => AtMostOnce
  BY DEF IInv
<1> QED
  BY <1>1, InductiveInvariant, PTL

\* After stop has returned nothing of the bus runs.
THEOREM StopIsQuiet == Spec => []StopQuiesces
<1>1. IInv => StopQuiesces
  BY DEF IInv, StopQuiesces, StopState_, DispatchState, InFlight
<1> QED
  BY <1>1, InductiveInvariant, PTL

\* Every callback of a dispatch has had the message and ended when it is over.
THEOREM EverySubscriberServed == Spec => NobodyLeftOut
<1> DEFINE Served ==
      loop = "dispatch" /\ loop' # "dispatch" =>
          \A c \in destinations :
              /\ ~InFlight(c)
              /\ \E i \in DOMAIN log[c] : log[c][i] \in message
<1>1. IInv /\ [Next]_vars => Served
  <2> SUFFICES ASSUME IInv, [Next]_vars, loop = "dispatch", loop' # "dispatch",
                      NEW c \in destinations
               PROVE  /\ ~InFlight(c)
                      /\ \E i \in DOMAIN log[c] : log[c][i] \in message
    OBVIOUS
  <2>0. ~start
    BY DEF start, IInv, StopState_
  <2>1. EndDispatch \/ FailDispatch \/ StopDrained \/ stop
    BY <2>0 DEF Next, Client, Bus, publish, subscribe, unsubscribe, StopReturn,
       Take, BeginCall, EndCall, EndBackoff, vars
  <2>2. EndDispatch \/ FailDispatch
    BY <2>1 DEF stop, StopDrained, IInv, DispatchState
  <2>3. call[c] \in {"done", "failed"} /\ c \in Callback
    BY <2>2 DEF EndDispatch, FailDispatch, CallsEnded, IInv, TypeOK
  <2>4. PICK m \in Message : message = {m}
    BY DEF IInv, DispatchState
  <2>5. Logged(c, m)
    BY <2>3, <2>4 DEF IInv, MessageState
  <2> QED
    BY <2>3, <2>4, <2>5 DEF InFlight, Logged, Has
<1>2. IInv /\ [Next]_vars => [Served]_vars
  BY <1>1
<1> HIDE DEF Served
<1>3. Spec => [][Served]_vars
  BY <1>2, InductiveInvariant, PTL DEF Spec
<1> QED
  BY <1>3 DEF Served, NobodyLeftOut

-----------------------------------------------------------------------------
(* Progress of the bus: of MessagesAreTaken and StopReturns, the parts     *)
(* that fairness does not give. The loop is alive, some step is possible   *)
(* as long as there is work, and the steps get through it.                 *)

\* The guards of the loop's, the callbacks' and stop's steps.
CanTake == loop = "get" /\ \E m \in Message : Next_message(m)
CanCall == \E c \in Callback : call[c] = "running" \/ (call[c] = "created" /\ message # {})
CanFinish == loop = "dispatch" /\ CallsEnded
CanWake == loop = "backoff"
CanStop == stopping = "cancelled" \/ (stopping = "draining" /\ dispatching_count = 0)

\* No callback ends the loop of a running bus.
LoopSurvives == running => loop \in {"get", "dispatch", "backoff"}

\* With a message queued, or a stop under way, something can happen.
BusNeverStuck ==
    (running /\ queue # {}) \/ stopping # "no" =>
        CanTake \/ CanCall \/ CanFinish \/ CanWake \/ CanStop

LessThan == {ss \in Nat \X Nat : ss[1] < ss[2]}

\* A set of naturals has a least member.
LEMMA Least ==
    ASSUME NEW S \in SUBSET Nat, S # {}
    PROVE  \E k \in S : \A n \in S : k <= n
<1>1. IsWellFoundedOn(LessThan, Nat)
  BY NatLessThanWellFounded DEF OpToRel, LessThan
<1>2. PICK k \in S : \A n \in S : <<n, k>> \notin LessThan
  BY <1>1, WFMin, Zenon
<1>3. ASSUME NEW n \in S
      PROVE  k <= n
  <2>1. n \in Nat /\ k \in Nat
    OBVIOUS
  <2>2. ~(n < k)
    BY <1>2, <2>1 DEF LessThan
  <2> QED
    BY <2>1, <2>2
<1> QED
  BY <1>3

\* A queue with messages has a head.
LEMMA HeadExists ==
    ASSUME TypeOK, queue # {}
    PROVE  \E m \in Message : Next_message(m)
<1> DEFINE Ranks == {RankOf[m] : m \in queue}
<1>1. queue \subseteq Message /\ RankOf \in [Message -> Nat]
  BY EventBusAssumption DEF EventBusAssumption, TypeOK
<1>2. Ranks \in SUBSET Nat /\ Ranks # {}
  BY <1>1
<1>3. PICK k \in Ranks : \A n \in Ranks : k <= n
  <2> HIDE DEF Ranks
  <2> QED
    BY <1>2, Least
<1>4. PICK m \in queue : RankOf[m] = k
  OBVIOUS
<1>5. \A n \in queue : RankOf[m] <= RankOf[n]
  BY <1>3, <1>4
<1> QED
  BY <1>1, <1>5 DEF Next_message

\* Every step keeps the loop alive.
LEMMA LoopStep == IInv /\ LoopSurvives /\ [Next]_vars => LoopSurvives'
<1> SUFFICES ASSUME IInv, LoopSurvives, [Next]_vars, running'
             PROVE  loop' \in {"get", "dispatch", "backoff"}
  BY DEF LoopSurvives
<1> USE DEF LoopSurvives
<1>1. ASSUME NEW m \in Message, Take(m) \/ publish(m)
      PROVE  loop' \in {"get", "dispatch", "backoff"}
  BY <1>1 DEF Take, publish
<1>2. ASSUME NEW c \in Callback, subscribe(c) \/ unsubscribe(c) \/ BeginCall(c) \/ EndCall(c)
      PROVE  loop' \in {"get", "dispatch", "backoff"}
  BY <1>2 DEF subscribe, unsubscribe, BeginCall, EndCall
<1>3. CASE start \/ stop \/ EndDispatch \/ FailDispatch \/ EndBackoff \/ UNCHANGED vars
  BY <1>3 DEF start, stop, EndDispatch, FailDispatch, EndBackoff, Leave, vars
<1>4. CASE StopDrained \/ StopReturn
  BY <1>4 DEF StopDrained, StopReturn, IInv, StopState_
<1> QED
  BY <1>1, <1>2, <1>3, <1>4 DEF Next, Client, Bus

\* THEOREM: whatever callbacks raise, the loop of a running bus is alive, and as
\* long as it has a message, or stop has not returned, some step is possible.
THEOREM BusGoesOn == Spec => [](LoopSurvives /\ BusNeverStuck)
<1>1. Init => LoopSurvives
  BY DEF Init, LoopSurvives
<1>2. IInv /\ LoopSurvives => BusNeverStuck
  <2> SUFFICES ASSUME IInv, LoopSurvives,
                      (running /\ queue # {}) \/ stopping # "no"
               PROVE  CanTake \/ CanCall \/ CanFinish \/ CanWake \/ CanStop
    BY DEF BusNeverStuck
  <2>1. CASE loop = "get"
    <3>1. running /\ stopping = "no"
      BY <2>1 DEF IInv, StopState_
    <3>2. TypeOK /\ queue # {}
      BY <3>1 DEF IInv
    <3> QED
      BY <2>1, <3>2, HeadExists DEF CanTake
  <2>2. CASE loop = "dispatch"
    <3>1. CASE CallsEnded
      BY <2>2, <3>1 DEF CanFinish
    <3>2. CASE ~CallsEnded
      <4>1. PICK c \in destinations : call[c] \notin {"done", "failed"}
        BY <3>2 DEF CallsEnded
      <4>2. c \in Callback /\ call[c] \in CallState
        BY DEF IInv, TypeOK
      <4>3. call[c] # "idle" /\ message # {}
        BY <2>2, <4>2 DEF IInv, DispatchState
      <4> QED
        BY <4>1, <4>2, <4>3 DEF CanCall, CallState
    <3> QED
      BY <3>1, <3>2
  <2>3. CASE loop = "backoff"
    BY <2>3 DEF CanWake
  <2>4. CASE loop \in {"none", "ended"}
    <3>1. ~running /\ stopping # "no" /\ dispatching_count = 0
      BY <2>4 DEF IInv, DispatchState, LoopSurvives
    <3>2. stopping \in StopState
      BY DEF IInv, TypeOK
    <3> QED
      BY <3>1, <3>2 DEF CanStop, StopState
  <2> QED
    BY <2>1, <2>2, <2>3, <2>4 DEF IInv, TypeOK, LoopState
<1> QED
  BY <1>1, <1>2, LoopStep, InductiveInvariant, PTL DEF Spec

\* What the bus has still to do, the most important first: queued messages, the
\* rest of the dispatch, its calls' steps, and what stop waits for.
LoopRank == CASE loop = "dispatch" -> 2 [] loop = "backoff" -> 1 [] OTHER -> 0
CallsLeft == {c \in Callback : call[c] = "created"} \X {"begin", "end"}
                 \cup {c \in Callback : call[c] = "running"} \X {"end"}
StopRank == CASE stopping = "draining" -> 2 [] stopping = "cancelled" -> 1 [] OTHER -> 0

\* A step gets something of it done and adds only to what comes after.
BusGetsOn ==
    \/ queue' \subseteq queue /\ queue' # queue
    \/ /\ queue' = queue
       /\ \/ LoopRank' < LoopRank
          \/ /\ LoopRank' = LoopRank
             /\ \/ CallsLeft' \subseteq CallsLeft /\ CallsLeft' # CallsLeft
                \/ CallsLeft' = CallsLeft /\ StopRank' < StopRank

\* A step of a callback is one less of them.
LEMMA CallShrinks ==
    ASSUME TypeOK, NEW c \in Callback, NEW s \in CallState,
           call' = [call EXCEPT ![c] = s],
           \/ call[c] = "created" /\ s = "running"
           \/ call[c] = "running" /\ s \in {"done", "failed"}
    PROVE  CallsLeft' \subseteq CallsLeft /\ CallsLeft' # CallsLeft
<1>1. /\ call'[c] = s
      /\ \A b \in Callback \ {c} : call'[b] = call[b]
  BY DEF TypeOK
<1>2. CallsLeft' \subseteq CallsLeft
  BY <1>1 DEF CallsLeft
<1>3. CASE call[c] = "created"
  <2>1. <<c, "begin">> \in CallsLeft /\ <<c, "begin">> \notin CallsLeft'
    BY <1>1, <1>3 DEF CallsLeft
  <2> QED
    BY <1>2, <2>1
<1>4. CASE call[c] = "running"
  <2>1. <<c, "end">> \in CallsLeft /\ <<c, "end">> \notin CallsLeft'
    BY <1>1, <1>4 DEF CallsLeft
  <2> QED
    BY <1>2, <2>1
<1> QED
  BY <1>3, <1>4

\* THEOREM: each step of the bus, its callbacks and stop gets on with the work,
\* and there is never more than finitely much of it: unless clients add to it,
\* no failing callback and no backoff keeps the bus busy forever.
THEOREM BusRunsOut ==
    Spec => /\ [][Bus => BusGetsOn]_vars
            /\ [](/\ IsFiniteSet(queue) /\ IsFiniteSet(CallsLeft)
                  /\ LoopRank \in 0..2 /\ StopRank \in 0..2)
<1>1. ASSUME IInv, Bus PROVE BusGetsOn
  <2> USE <1>1
  <2>1. ASSUME NEW m \in Message, Take(m) PROVE BusGetsOn
    BY <2>1 DEF Take, Next_message, BusGetsOn
  <2>2. ASSUME NEW c \in Callback, BeginCall(c) PROVE BusGetsOn
    <3>1. TypeOK /\ call[c] = "created" /\ "running" \in CallState
          /\ call' = [call EXCEPT ![c] = "running"]
      BY <2>2 DEF IInv, BeginCall, CallState
    <3>2. CallsLeft' \subseteq CallsLeft /\ CallsLeft' # CallsLeft
      BY <3>1, CallShrinks
    <3>3. queue' = queue /\ LoopRank' = LoopRank
      BY <2>2 DEF BeginCall, LoopRank
    <3> QED
      BY <3>2, <3>3 DEF BusGetsOn
  <2>3. ASSUME NEW c \in Callback, EndCall(c) PROVE BusGetsOn
    <3>1. TypeOK /\ call[c] = "running"
          /\ \E s \in {"done", "failed"} : s \in CallState /\ call' = [call EXCEPT ![c] = s]
      BY <2>3 DEF IInv, EndCall, CallState
    <3>2. CallsLeft' \subseteq CallsLeft /\ CallsLeft' # CallsLeft
      BY <3>1, CallShrinks
    <3>3. queue' = queue /\ LoopRank' = LoopRank
      BY <2>3 DEF EndCall, LoopRank
    <3> QED
      BY <3>2, <3>3 DEF BusGetsOn
  <2>4. CASE EndDispatch \/ FailDispatch \/ EndBackoff
    <3>1. queue' = queue /\ LoopRank' < LoopRank
      BY <2>4 DEF EndDispatch, FailDispatch, EndBackoff, Leave, LoopRank
    <3> QED
      BY <3>1 DEF BusGetsOn
  <2>5. CASE StopDrained
    <3>1. /\ queue' = queue /\ CallsLeft' = CallsLeft /\ StopRank' < StopRank
          /\ loop # "dispatch" /\ loop' = "ended"
      BY <2>5 DEF StopDrained, CancelLoop, CallsLeft, StopRank, IInv, DispatchState
    <3>2. LoopRank' < LoopRank \/ LoopRank' = LoopRank
      BY <3>1 DEF LoopRank
    <3> QED
      BY <3>1, <3>2 DEF BusGetsOn
  <2>6. CASE StopReturn
    <3>1. /\ queue' = queue /\ LoopRank' = LoopRank /\ CallsLeft' = CallsLeft
          /\ StopRank' < StopRank
      BY <2>6 DEF StopReturn, LoopRank, CallsLeft, StopRank
    <3> QED
      BY <3>1 DEF BusGetsOn
  <2> QED
    BY <1>1, <2>1, <2>2, <2>3, <2>4, <2>5, <2>6 DEF Bus
<1>2. ASSUME IInv
      PROVE  /\ IsFiniteSet(queue) /\ IsFiniteSet(CallsLeft)
             /\ LoopRank \in 0..2 /\ StopRank \in 0..2
  <2>1. IsFiniteSet(Message) /\ IsFiniteSet(Callback) /\ queue \subseteq Message
    BY <1>2, EventBusAssumption DEF EventBusAssumption, IInv, TypeOK
  <2>2. IsFiniteSet({"begin", "end"})
    <3>1. IsFiniteSet({"begin"}) /\ IsFiniteSet({"end"})
      BY FS_Singleton
    <3>2. {"begin", "end"} = {"begin"} \cup {"end"}
      OBVIOUS
    <3> QED
      BY <3>1, <3>2, FS_Union
  <2>3. IsFiniteSet(Callback \X {"begin", "end"})
    BY <2>1, <2>2, FS_Product
  <2>4. CallsLeft \subseteq Callback \X {"begin", "end"}
    BY DEF CallsLeft
  <2>5. IsFiniteSet(queue) /\ IsFiniteSet(CallsLeft)
    BY <2>1, <2>3, <2>4, FS_Subset
  <2>6. LoopRank \in 0..2 /\ StopRank \in 0..2
    BY DEF LoopRank, StopRank
  <2> QED
    BY <2>5, <2>6
<1>3. IInv /\ [Next]_vars => [Bus => BusGetsOn]_vars
  BY <1>1
<1> QED
  BY <1>2, <1>3, InductiveInvariant, PTL DEF Spec

-----------------------------------------------------------------------------
(* The bus as the runs use it.                                             *)

RunAct(r) == execute(r) \/ Step(r)

\* A run's id is its agent's callback and its worker's chunk.
LEMMA RunIsCallback == \A r \in Run : r \in Callback /\ r \in Message
  BY RuntimesAssumption DEF RuntimesAssumption

\* A step of a run leaves the bus alone, publishes, subscribes or unsubscribes.
LEMMA BusUse ==
    ASSUME NEW r \in Run, RunAct(r)
    PROVE  \/ UNCHANGED vars
           \/ publish(r) /\ Answer(r, "worker")
           \/ subscribe(r) /\ Watch(r)
           \/ unsubscribe(r) /\ cleanup(r)
<1>1. ASSUME NEW t \in Task, Answer(r, t)
      PROVE  UNCHANGED vars \/ (publish(r) /\ Answer(r, "worker"))
  <2>1. CASE t = "worker"
    <3>1. Answer(r, "worker")
      BY <1>1, <2>1
    <3> QED
      BY <3>1 DEF Answer
  <2>2. CASE t # "worker"
    BY <1>1, <2>2 DEF Answer
  <2> QED
    BY <2>1, <2>2
<1>2. CASE Watch(r)
  BY <1>2 DEF Watch
<1>3. CASE cleanup(r)
  BY <1>3 DEF cleanup
<1>4. ASSUME \/ execute(r) \/ EndWatch(r) \/ Critique(r)
             \/ \E t \in Task : Exhaust(r, t)
             \/ \E s \in Slice : Attempt(r, s)
             \/ Resume(r) \/ Return(r) \/ Timeout(r)
      PROVE  UNCHANGED vars
  BY <1>4 DEF execute, EndWatch, Critique, Exhaust, Attempt, Resume, Return, Timeout
<1> QED
  BY <1>1, <1>2, <1>3, <1>4 DEF RunAct, Step

\* Each step is one the bus may take.
LEMMA BusStep == [RuntimesNext]_allvars => [Next]_vars
<1> SUFFICES ASSUME [RuntimesNext]_allvars
             PROVE  [Next]_vars
  OBVIOUS
<1>1. ASSUME NEW r \in Run, RunAct(r)
      PROVE  [Next]_vars
  BY <1>1, BusUse, RunIsCallback DEF Next, Client
<1>2. CASE Elsewhere
  BY <1>2 DEF Elsewhere, Next, Client
<1>3. CASE UNCHANGED allvars
  BY <1>3 DEF allvars
<1> QED
  BY <1>1, <1>2, <1>3 DEF RuntimesNext, RunAct

\* THEOREM: the runs on the bus are one of the clients the bus is specified for:
\* what holds of the bus holds of it here.
THEOREM RunsUseTheBus == RuntimesSpec => Spec
<1>1. RuntimesInit => Init
  BY DEF RuntimesInit
<1> QED
  BY <1>1, BusStep, PTL DEF RuntimesSpec, Spec

-----------------------------------------------------------------------------
(* The tasks of a run.                                                     *)

RunOK(r) ==
    /\ \A t \in Task : at[r] = "new" \/ t \notin TasksOf(kind[r]) => task[r][t] = "none"
    /\ \A t \in TasksOf(kind[r]) : at[r] # "new" => task[r][t] # "none"
    /\ \A s \in Slice : task[r][s] # "raised"
    /\ task[r]["agent"] = "created" => at[r] = "waiting" /\ task[r]["worker"] = "calling"
    /\ at[r] = "waiting" =>
          \/ task[r]["agent"] \in {"none", "created", "watching"}
          \/ task[r]["agent"] = task[r]["worker"] /\ Ended(r, "worker")
    /\ at[r] = "watching" =>
          /\ kind[r] \in {"STANDARD", "COMPETITIVE"} /\ AllReturned(r)
          /\ kind[r] = "STANDARD" => task[r]["agent"] \in {"watching", "returned"}
    /\ at[r] \in {"ended", "over"} =>
          /\ AnyRaised(r) \/ \A t \in Awaited(r) : Ended(r, t)
          /\ Ended(r, "agent") \/ task[r]["worker"] \in {"raised", "cancelled"}

\* The agent is on the bus from its first step to the cleanup.
Subscribed ==
    \A r \in Run :
        /\ r \in subscribers => at[r] \notin {"new", "over"}
        /\ task[r]["agent"] \notin {"none", "created"} /\ at[r] \in {"waiting", "watching"}
              => r \in subscribers

RInv == RuntimesTypeOK /\ (\A r \in Run : RunOK(r)) /\ Subscribed

\* A run's step leaves the other runs alone.
Others(r) == \A q \in Run \ {r} : at'[q] = at[q] /\ task'[q] = task[q]

\* A run that a step leaves alone stays in order.
LEMMA Unaffected ==
    ASSUME NEW q \in Run, RunOK(q), kind' = kind, at'[q] = at[q], task'[q] = task[q]
    PROVE  RunOK(q)'
<1>1. Awaited(q)' = Awaited(q) /\ TasksOf(kind[q])' = TasksOf(kind[q])
  BY DEF Awaited, TasksOf
<1>2. AllReturned(q)' <=> AllReturned(q)
  BY <1>1 DEF AllReturned
<1>3. AnyRaised(q)' <=> AnyRaised(q)
  BY <1>1 DEF AnyRaised
<1>4. \A t \in Task : Ended(q, t)' <=> Ended(q, t)
  BY DEF Ended
<1> QED
  BY <1>1, <1>2, <1>3, <1>4 DEF RunOK, Ended

\* The tasks of each kind of run are tasks, and no slice has a task's name.
LEMMA TaskFacts ==
    /\ {"worker", "agent", "x", "y", "call"} \subseteq Task /\ Slice \subseteq Task
    /\ \A s \in Slice : s \notin {"worker", "agent", "x", "y", "call"}
    /\ \A k \in Kind : TasksOf(k) \subseteq Task
<1> DEFINE Fixed == {"worker", "agent", "x", "y", "call"}
<1>1. Fixed \subseteq Task /\ Slice \subseteq Task /\ \A s \in Slice : s \notin Fixed
  <2>1. Slice \cap Fixed = {} /\ Task = Fixed \cup Slice
    BY RuntimesAssumption DEF RuntimesAssumption, Task
  <2> HIDE DEF Fixed
  <2> QED
    BY <2>1
<1>2. ASSUME NEW k \in Kind
      PROVE  TasksOf(k) \subseteq Task
  BY <1>1 DEF TasksOf, Kind
<1> QED
  BY <1>1, <1>2

\* One task of a run becomes something, the run's execute stays where it is.
LEMMA TaskMoves ==
    ASSUME RuntimesTypeOK, NEW r \in Run, NEW t \in Task,
           NEW s \in {"none", "created", "calling", "watching", "critique",
                      "returned", "raised", "cancelled"},
           Becomes(r, t, s)
    PROVE  /\ \A q \in Run \ {r} : task'[q] = task[q]
           /\ task'[r][t] = s
           /\ \A u \in Task \ {t} : task'[r][u] = task[r][u]
           /\ task' \in [Run -> [Task -> {"none", "created", "calling", "watching",
                                          "critique", "returned", "raised", "cancelled"}]]
  BY DEF RuntimesTypeOK, Becomes

\* Which tasks a run of each kind has.
LEMMA KindFacts ==
    ASSUME RuntimesTypeOK, NEW r \in Run
    PROVE  /\ kind[r] \in Kind /\ TasksOf(kind[r]) \subseteq Task
           /\ Awaited(r) = TasksOf(kind[r]) \ {"agent"}
           /\ kind[r] = "STANDARD" => TasksOf(kind[r]) = {"worker", "agent"}
           /\ kind[r] # "STANDARD" => /\ "agent" \notin TasksOf(kind[r])
                                      /\ "worker" \notin TasksOf(kind[r])
           /\ kind[r] \notin {"STANDARD", "COMPETITIVE"} => {"x", "y"} \cap TasksOf(kind[r]) = {}
           /\ kind[r] = "COMPETITIVE" => TasksOf(kind[r]) = {"x", "y"}
           /\ kind[r] = "MICRO" => TasksOf(kind[r]) = Slice
           /\ kind[r] = "DIRECT" => TasksOf(kind[r]) = {"call"}
  BY TaskFacts DEF RuntimesTypeOK, TasksOf, Kind, Awaited

\* A task of those that are awaited goes on, and does not end otherwise than by
\* returning or raising.
LEMMA AwaitedMoves ==
    ASSUME RuntimesTypeOK, NEW r \in Run, RunOK(r), NEW t \in Task, t # "agent",
           task[r][t] \in {"calling", "critique"},
           NEW s \in {"calling", "critique", "returned", "raised"},
           s = "raised" => t \notin Slice,
           t = "worker" => task[r]["agent"] # "created",
           Becomes(r, t, s), at' = at, kind' = kind
    PROVE  RunOK(r)'
<1>1. /\ task'[r][t] = s
      /\ \A u \in Task \ {t} : task'[r][u] = task[r][u]
  BY TaskMoves
<1>2. t \in TasksOf(kind[r]) /\ t \in Awaited(r) /\ at[r] # "new"
  BY KindFacts DEF RunOK
<1>3. at[r] # "watching"
  BY <1>2 DEF RunOK, AllReturned
<1>4. Awaited(r)' = Awaited(r) /\ TasksOf(kind[r])' = TasksOf(kind[r])
  BY DEF Awaited, TasksOf
<1>5. AnyRaised(r) => AnyRaised(r)'
  BY <1>1, <1>4, KindFacts DEF AnyRaised
<1>6. at[r] \in {"ended", "over"} => AnyRaised(r)
  BY <1>2 DEF RunOK, Ended
<1>7. task'[r]["agent"] = task[r]["agent"]
  BY <1>1, TaskFacts
<1>8. \A u \in Slice : task'[r][u] # "raised"
  BY <1>1, TaskFacts DEF RunOK
<1>9. \A u \in Task : at[r] = "new" \/ u \notin TasksOf(kind[r]) => task'[r][u] = "none"
  BY <1>1, <1>2 DEF RunOK
<1>10. \A u \in TasksOf(kind[r]) : task'[r][u] # "none"
  BY <1>1, <1>2, KindFacts DEF RunOK
<1>11. CASE t = "worker"
  <2>1. kind[r] = "STANDARD"
    BY <1>2, <1>11, KindFacts
  <2>2. ~AnyRaised(r)
    BY <1>11, <2>1, KindFacts DEF AnyRaised
  <2>3. at[r] = "waiting"
    BY <1>2, <1>3, <1>6, <2>2 DEF RuntimesTypeOK
  <2>4. task[r]["agent"] \in {"none", "watching"}
    BY <1>11, <2>3 DEF RunOK, Ended
  <2> QED
    BY <1>4, <1>7, <1>8, <1>9, <1>10, <2>3, <2>4 DEF RunOK
<1>12. CASE t # "worker"
  <2>1. task'[r]["worker"] = task[r]["worker"]
    BY <1>1, <1>12, TaskFacts
  <2>2. Ended(r, "worker")' = Ended(r, "worker") /\ Ended(r, "agent")' = Ended(r, "agent")
    BY <1>7, <2>1 DEF Ended
  <2> QED
    BY <1>3, <1>4, <1>5, <1>6, <1>7, <1>8, <1>9, <1>10, <2>1, <2>2 DEF RunOK
<1> QED
  BY <1>11, <1>12

-----------------------------------------------------------------------------
(* Steps of a run.                                                         *)

AtState == {"new", "waiting", "watching", "ended", "over"}
TaskStatus == {"none", "created", "calling", "watching", "critique", "returned", "raised",
              "cancelled"}

\* Nothing is counted past its limit.
LEMMA CountMoves ==
    ASSUME RuntimesTypeOK, NEW r \in Run, NEW t \in Task,
           \/ count' = count
           \/ /\ count[r][t] < MAX_LOOP_ITERATIONS
              /\ count' = [count EXCEPT ![r][t] = count[r][t] + 1]
    PROVE  count' \in [Run -> [Task -> 0..MAX_LOOP_ITERATIONS]]
<1>1. count \in [Run -> [Task -> 0..MAX_LOOP_ITERATIONS]] /\ count[r][t] \in 0..MAX_LOOP_ITERATIONS
  BY DEF RuntimesTypeOK
<1>2. CASE count' = count
  BY <1>1, <1>2
<1>3. CASE /\ count[r][t] < MAX_LOOP_ITERATIONS
           /\ count' = [count EXCEPT ![r][t] = count[r][t] + 1]
  <2>1. count[r][t] + 1 \in 0..MAX_LOOP_ITERATIONS
    BY <1>1, <1>3 DEF MAX_LOOP_ITERATIONS
  <2> DEFINE n == count[r][t] + 1
  <2> HIDE DEF n
  <2>2. count' = [count EXCEPT ![r][t] = n] /\ n \in 0..MAX_LOOP_ITERATIONS
    BY <1>3, <2>1 DEF n
  <2> QED
    BY <1>1, <2>2
<1> QED
  BY <1>2, <1>3

\* A step of r changes its own tasks at most; so do the others not matter to it.
LEMMA RunTypes ==
    ASSUME RuntimesTypeOK, NEW r \in Run, RunAct(r)
    PROVE  RuntimesTypeOK' /\ Others(r) /\ kind' = kind
<1> USE DEF RuntimesTypeOK, Others
<1>1. CASE execute(r)
  BY <1>1 DEF execute
<1>2. CASE Watch(r)
  BY <1>2, TaskFacts, TaskMoves DEF Watch
<1>3. CASE EndWatch(r)
  <2>1. task[r]["worker"] \in TaskStatus
    BY TaskFacts DEF TaskStatus
  <2> QED
    BY <1>3, <2>1, TaskFacts, TaskMoves DEF EndWatch, TaskStatus
<1>4. CASE Critique(r)
  <2>1. count' \in [Run -> [Task -> 0..MAX_LOOP_ITERATIONS]]
    BY <1>4, TaskFacts, CountMoves DEF Critique, MAX_LOOP_ITERATIONS
  <2>2. task' = task \/ Becomes(r, "y", "returned")
    BY <1>4 DEF Critique
  <2> QED
    BY <1>4, <2>1, <2>2, TaskFacts, TaskMoves DEF Critique
<1>5. ASSUME NEW t \in Task, Answer(r, t)
      PROVE  RuntimesTypeOK' /\ Others(r) /\ kind' = kind
  BY <1>5, TaskMoves DEF Answer
<1>6. ASSUME NEW t \in Task, Exhaust(r, t)
      PROVE  RuntimesTypeOK' /\ Others(r) /\ kind' = kind
  BY <1>6, TaskMoves DEF Exhaust
<1>7. ASSUME NEW s \in Slice, Attempt(r, s)
      PROVE  RuntimesTypeOK' /\ Others(r) /\ kind' = kind
  <2>1. count' \in [Run -> [Task -> 0..MAX_LOOP_ITERATIONS]]
    <3>1. s \in Task /\ count[r][s] \in Nat
      BY TaskFacts DEF MAX_LOOP_ITERATIONS
    <3>2. \/ count' = count
          \/ /\ count[r][s] + 1 < max_attempts
             /\ count' = [count EXCEPT ![r][s] = count[r][s] + 1]
      BY <1>7 DEF Attempt
    <3>3. count[r][s] + 1 < max_attempts => count[r][s] < MAX_LOOP_ITERATIONS
      BY <3>1 DEF MAX_LOOP_ITERATIONS, max_attempts
    <3> QED
      BY <3>1, <3>2, <3>3, CountMoves
  <2>2. task' = task \/ Becomes(r, s, "returned")
    BY <1>7 DEF Attempt
  <2> QED
    BY <1>7, <2>1, <2>2, TaskFacts, TaskMoves DEF Attempt
<1>8. CASE Resume(r)
  BY <1>8 DEF Resume
<1>9. CASE Return(r)
  <2>1. {AlertsOf(r)} \in SUBSET SUBSET {PhraseOf[q] : q \in Run}
    BY DEF AlertsOf
  <2> QED
    BY <1>9, <2>1 DEF Return
<1>10. CASE Timeout(r)
  <2>1. CASE task' = [task EXCEPT ![r] = [t \in Task |->
                         IF t \in Awaited(r) /\ ~Ended(r, t) THEN "cancelled"
                         ELSE task[r][t]]]
    <3>1. [t \in Task |-> IF t \in Awaited(r) /\ ~Ended(r, t) THEN "cancelled"
                         ELSE task[r][t]] \in [Task -> TaskStatus]
      BY DEF TaskStatus
    <3> QED
      BY <1>10, <2>1, <3>1 DEF Timeout, TaskStatus
  <2>2. CASE task' = task \/ Becomes(r, "agent", "cancelled")
    BY <1>10, <2>2, TaskFacts, TaskMoves DEF Timeout
  <2> QED
    BY <1>10, <2>1, <2>2 DEF Timeout
<1>11. CASE cleanup(r)
  BY <1>11 DEF cleanup
<1> QED
  BY <1>1, <1>2, <1>3, <1>4, <1>5, <1>6, <1>7, <1>8, <1>9, <1>10, <1>11 DEF RunAct, Step

\* A run's own step leaves it in order.
LEMMA RunStep ==
    ASSUME RuntimesTypeOK, NEW r \in Run, RunOK(r), RunAct(r)
    PROVE  RunOK(r)'
<1>1. kind' = kind /\ RuntimesTypeOK'
  BY RunTypes
<1>2. Awaited(r)' = Awaited(r) /\ TasksOf(kind[r])' = TasksOf(kind[r])
  BY <1>1 DEF Awaited, TasksOf
<1>3. CASE execute(r)
  <2>1. /\ at[r] = "new" /\ at'[r] = "waiting"
        /\ task'[r] = [t \in Task |->
                   IF t \notin TasksOf(kind[r]) THEN "none"
                   ELSE IF t = "agent" THEN "created" ELSE "calling"]
    BY <1>3 DEF execute, RuntimesTypeOK
  <2>2. task'[r]["agent"] = "created" => task'[r]["worker"] = "calling"
    BY <2>1, KindFacts, TaskFacts
  <2>3. task'[r]["agent"] \in {"none", "created"}
    BY <2>1, TaskFacts
  <2> QED
    BY <1>2, <2>1, <2>2, <2>3, KindFacts, TaskFacts DEF RunOK
<1>4. CASE Watch(r)
  <2>1. /\ task[r]["agent"] = "created" /\ at' = at /\ task'[r]["agent"] = "watching"
        /\ \A u \in Task \ {"agent"} : task'[r][u] = task[r][u]
    BY <1>4, TaskFacts, TaskMoves DEF Watch
  <2>2. at[r] = "waiting"
    BY <2>1 DEF RunOK
  <2>3. "agent" \in TasksOf(kind[r])
    BY <2>1, TaskFacts DEF RunOK
  <2> QED
    BY <1>2, <2>1, <2>2, <2>3, KindFacts, TaskFacts DEF RunOK
<1>5. CASE EndWatch(r)
  <2>1. task[r]["worker"] \in TaskStatus
    BY TaskFacts DEF RuntimesTypeOK, TaskStatus
  <2>2. /\ task[r]["agent"] = "watching" /\ Ended(r, "worker") /\ at' = at
        /\ task'[r]["agent"] = task[r]["worker"]
        /\ \A u \in Task \ {"agent"} : task'[r][u] = task[r][u]
    BY <1>5, <2>1, TaskFacts, TaskMoves DEF EndWatch, TaskStatus
  <2>3. kind[r] = "STANDARD" /\ at[r] # "new"
    BY <2>2, KindFacts, TaskFacts DEF RunOK
  <2>4. task[r]["worker"] \in {"returned", "raised", "cancelled"}
    BY <2>2, <2>3, KindFacts DEF RunOK, Ended
  <2>5. AnyRaised(r)' = AnyRaised(r) /\ AllReturned(r)' = AllReturned(r)
    BY <1>2, <2>2, KindFacts DEF AnyRaised, AllReturned
  <2>6. \A t \in Awaited(r) : Ended(r, t)' = Ended(r, t)
    BY <2>2, KindFacts DEF Ended
  <2>7. Ended(r, "agent")' /\ Ended(r, "worker")'
    BY <2>2, <2>4, TaskFacts DEF Ended
  <2>8. at[r] = "watching" => task[r]["worker"] = "returned"
    BY <2>3, KindFacts DEF RunOK, AllReturned
  <2>9. task'[r]["worker"] = task[r]["worker"]
    BY <2>2, TaskFacts
  <2>10. \A t \in TasksOf(kind[r]) : task'[r][t] # "none"
    BY <2>2, <2>3, <2>4, KindFacts, TaskFacts DEF RunOK
  <2>11. \A t \in Task \ TasksOf(kind[r]) : task'[r][t] = "none"
    BY <2>2, <2>3, KindFacts DEF RunOK
  <2>12. \A s \in Slice : task'[r][s] # "raised"
    BY <2>2, TaskFacts DEF RunOK
  <2> QED
    BY <1>1, <1>2, <2>2, <2>3, <2>4, <2>5, <2>6, <2>7, <2>8, <2>9, <2>10, <2>11, <2>12
       DEF RunOK
<1>6. CASE Critique(r)
  <2>1. CASE Becomes(r, "y", "returned")
    BY <1>1, <1>6, <2>1, TaskFacts, AwaitedMoves DEF Critique
  <2>2. CASE task' = task
    BY <1>1, <1>6, <2>2, Unaffected DEF Critique
  <2> QED
    BY <1>6, <2>1, <2>2 DEF Critique
<1>7. ASSUME NEW t \in Task, Answer(r, t)
      PROVE  RunOK(r)'
  <2>1. /\ t # "agent" /\ task[r][t] = "calling" /\ at' = at
        /\ t = "worker" => task[r]["agent"] # "created"
    BY <1>7 DEF Answer, Called
  <2>2. Becomes(r, t, "critique") \/ Becomes(r, t, "returned")
    BY <1>7 DEF Answer
  <2> QED
    BY <1>1, <2>1, <2>2, AwaitedMoves
<1>8. ASSUME NEW t \in Task, Exhaust(r, t)
      PROVE  RunOK(r)'
  <2>1. /\ t # "agent" /\ task[r][t] = "calling" /\ at' = at /\ t \notin Slice
        /\ t = "worker" => task[r]["agent"] # "created"
    BY <1>8, TaskFacts DEF Exhaust, Called
  <2> QED
    BY <1>1, <1>8, <2>1, AwaitedMoves DEF Exhaust
<1>9. ASSUME NEW s \in Slice, Attempt(r, s)
      PROVE  RunOK(r)'
  <2>1. CASE Becomes(r, s, "returned")
    BY <1>1, <1>9, <2>1, TaskFacts, AwaitedMoves DEF Attempt
  <2>2. CASE task' = task
    BY <1>1, <1>9, <2>2, Unaffected DEF Attempt
  <2> QED
    BY <1>9, <2>1, <2>2 DEF Attempt
<1>10. ASSUME Resume(r) \/ Return(r) \/ cleanup(r)
       PROVE  RunOK(r)'
  <2>1. task' = task
    BY <1>10 DEF Resume, Return, cleanup
  <2>2. /\ AnyRaised(r)' = AnyRaised(r) /\ AllReturned(r)' = AllReturned(r)
        /\ \A t \in Task : Ended(r, t)' = Ended(r, t)
    BY <1>2, <2>1 DEF AnyRaised, AllReturned, Ended
  <2>3. AllReturned(r) => /\ \A t \in Awaited(r) : Ended(r, t)
                          /\ kind[r] = "STANDARD" => task[r]["worker"] = "returned"
    BY KindFacts DEF AllReturned, Ended
  <2>4. AnyRaised(r) /\ kind[r] = "STANDARD" => task[r]["worker"] = "raised"
    BY KindFacts DEF AnyRaised
  <2>5. kind[r] # "STANDARD" => task[r]["agent"] = "none"
    BY KindFacts, TaskFacts DEF RunOK
  <2>6. "agent" \in Task /\ Awaited(r) \subseteq Task
    BY KindFacts, TaskFacts
  <2>7. CASE Resume(r)
    <3>1. /\ at[r] = "waiting" /\ (AllReturned(r) \/ AnyRaised(r))
          /\ at'[r] = IF ~AnyRaised(r) /\ kind[r] \in {"STANDARD", "COMPETITIVE"}
                      THEN "watching" ELSE "ended"
      BY <2>7 DEF Resume, RuntimesTypeOK
    <3>2. kind[r] = "STANDARD" => task[r]["agent"] # "none"
      BY <3>1, KindFacts DEF RunOK
    <3> QED
      BY <1>1, <1>2, <2>1, <2>2, <2>3, <2>4, <2>5, <2>6, <3>1, <3>2 DEF RunOK, Ended
  <2>8. CASE Return(r)
    <3>1. /\ at[r] = "watching" /\ at'[r] = "ended"
          /\ kind[r] = "STANDARD" => task[r]["agent"] = "returned"
      BY <2>8 DEF Return, RuntimesTypeOK
    <3> QED
      BY <1>1, <1>2, <2>1, <2>2, <2>3, <2>5, <2>6, <3>1 DEF RunOK, Ended
  <2>9. CASE cleanup(r)
    <3>1. at[r] = "ended" /\ at'[r] = "over"
      BY <2>9 DEF cleanup, RuntimesTypeOK
    <3> QED
      BY <1>1, <1>2, <2>1, <2>2, <2>6, <3>1 DEF RunOK
  <2> QED
    BY <1>10, <2>7, <2>8, <2>9
<1>11. CASE Timeout(r)
  <2>1. CASE /\ at[r] = "waiting" /\ ~AllReturned(r) /\ ~AnyRaised(r)
             /\ \A t \in Awaited(r) : Called(r, t) \/ task[r][t] # "calling"
             /\ task' = [task EXCEPT ![r] = [t \in Task |->
                         IF t \in Awaited(r) /\ ~Ended(r, t) THEN "cancelled"
                         ELSE task[r][t]]]
    <3>1. at'[r] = "ended"
      BY <1>11 DEF Timeout, RuntimesTypeOK
    <3>2. \A t \in Task : task'[r][t] = IF t \in Awaited(r) /\ ~Ended(r, t) THEN "cancelled"
                                        ELSE task[r][t]
      BY <2>1 DEF RuntimesTypeOK
    <3>3. \A t \in Awaited(r) : Ended(r, t)'
      BY <3>2, KindFacts DEF Ended
    <3>4. task'[r]["agent"] = task[r]["agent"]
      BY <3>2, KindFacts, TaskFacts
    <3>5. task[r]["agent"] # "created"
      <4>1. ASSUME task[r]["agent"] = "created"
            PROVE  FALSE
        <5>1. task[r]["worker"] = "calling" /\ "worker" \in Awaited(r)
          BY <4>1, KindFacts, TaskFacts DEF RunOK
        <5> QED
          BY <2>1, <4>1, <5>1 DEF Called
      <4> QED
        BY <4>1
    <3>6. Ended(r, "agent")' \/ task'[r]["worker"] \in {"raised", "cancelled"}
      <4>1. CASE task[r]["agent"] = "watching"
        <5>1. kind[r] = "STANDARD" /\ Awaited(r) = {"worker"}
          BY <2>1, <4>1, KindFacts, TaskFacts DEF RunOK
        <5>2. task[r]["worker"] \notin {"none", "returned", "raised"}
          BY <2>1, <5>1, KindFacts DEF RunOK, AllReturned, AnyRaised
        <5> QED
          BY <3>2, <5>1, <5>2, TaskFacts DEF Ended
      <4>2. CASE task[r]["agent"] # "watching"
        BY <2>1, <3>4, <3>5, <4>2 DEF RunOK, Ended
      <4> QED
        BY <4>1, <4>2
    <3>7. \A t \in TasksOf(kind[r]) : task'[r][t] # "none"
      BY <2>1, <3>2, KindFacts DEF RunOK
    <3>8. \A t \in Task \ TasksOf(kind[r]) : task'[r][t] = "none"
      BY <3>2, KindFacts DEF RunOK
    <3>9. \A s \in Slice : task'[r][s] # "raised"
      BY <3>2, TaskFacts DEF RunOK
    <3> QED
      BY <1>1, <1>2, <3>1, <3>3, <3>4, <3>5, <3>6, <3>7, <3>8, <3>9 DEF RunOK
  <2>2. CASE /\ at[r] = "watching"
             /\ kind[r] = "STANDARD" => task[r]["agent"] = "watching"
             /\ IF kind[r] = "STANDARD" THEN Becomes(r, "agent", "cancelled")
                ELSE UNCHANGED task
    <3>1. at'[r] = "ended"
      BY <1>11 DEF Timeout, RuntimesTypeOK
    <3>2. \A t \in Task \ {"agent"} : task'[r][t] = task[r][t]
      BY <2>2, TaskFacts, TaskMoves
    <3>3. \A t \in Awaited(r) : Ended(r, t)'
      BY <2>2, <3>2, KindFacts DEF RunOK, AllReturned, Ended
    <3>4. task'[r]["agent"] = IF kind[r] = "STANDARD" THEN "cancelled" ELSE "none"
      <4>1. kind[r] # "STANDARD" => task[r]["agent"] = "none"
        BY KindFacts, TaskFacts DEF RunOK
      <4> QED
        BY <2>2, <4>1, TaskFacts, TaskMoves
    <3>5. Ended(r, "agent")'
      BY <3>4 DEF Ended
    <3>6. \A t \in TasksOf(kind[r]) : task'[r][t] # "none"
      BY <2>2, <3>2, <3>4, KindFacts DEF RunOK
    <3>7. \A t \in Task \ TasksOf(kind[r]) : task'[r][t] = "none"
      BY <3>2, <3>4, KindFacts DEF RunOK
    <3>8. \A s \in Slice : task'[r][s] # "raised"
      BY <3>2, TaskFacts DEF RunOK
    <3> QED
      BY <1>1, <1>2, <3>1, <3>3, <3>4, <3>5, <3>6, <3>7, <3>8 DEF RunOK
  <2> QED
    BY <1>11, <2>1, <2>2 DEF Timeout
<1> QED
  BY <1>3, <1>4, <1>5, <1>6, <1>7, <1>8, <1>9, <1>10, <1>11 DEF RunAct, Step

-----------------------------------------------------------------------------
(* The runs' subscriptions.                                                *)

\* Nobody but a run touches its subscription: the bus is not stopped.
NeverStopped == stopping = "no"

\* Steps of the bus leave the runs and their subscriptions alone, and do not stop it.
LEMMA ElsewhereFacts ==
    ASSUME NeverStopped, Elsewhere
    PROVE  /\ UNCHANGED runs /\ NeverStopped'
           /\ \A r \in Run : r \in subscribers' <=> r \in subscribers
<1>1. ASSUME \/ start \/ EndDispatch \/ FailDispatch \/ EndBackoff
             \/ \E m \in Message : Take(m)
             \/ \E c \in Callback : BeginCall(c) \/ EndCall(c)
      PROVE  subscribers' = subscribers /\ stopping' = stopping
  BY <1>1 DEF start, EndDispatch, FailDispatch, EndBackoff, Leave, Take, BeginCall, EndCall
<1>2. ASSUME NEW c \in Callback \ Run, subscribe(c)
      PROVE  subscribers' = subscribers \cup {c} /\ stopping' = stopping
  BY <1>2 DEF subscribe
<1>3. ~StopDrained /\ ~StopReturn
  BY DEF StopDrained, StopReturn, NeverStopped
<1> QED
  BY <1>1, <1>2, <1>3 DEF Elsewhere, Bus, NeverStopped

\* Each step keeps the agents' subscriptions and their runs in agreement.
LEMMA SubscribedStep ==
    ASSUME RInv, NEW r \in Run, RunAct(r)
    PROVE  Subscribed'
<1> USE DEF RInv
<1>1. Others(r) /\ RuntimesTypeOK' /\ RunOK(r)'
  BY RunTypes, RunStep
<1>2. \A q \in Run \ {r} : q \in subscribers' <=> q \in subscribers
  BY BusUse DEF vars, publish, subscribe, unsubscribe
<1>3. CASE Watch(r)
  <2>1. at' = at /\ r \in subscribers' /\ at[r] = "waiting"
    BY <1>3 DEF Watch, subscribe, RunOK
  <2> QED
    BY <1>1, <1>2, <2>1 DEF Subscribed, Others
<1>4. CASE cleanup(r)
  <2>1. at'[r] = "over" /\ r \notin subscribers'
    BY <1>4 DEF cleanup, unsubscribe, vars, RuntimesTypeOK
  <2> QED
    BY <1>1, <1>2, <2>1 DEF Subscribed, Others
<1>5. CASE UNCHANGED vars \/ publish(r)
  <2>1. subscribers' = subscribers
    BY <1>5 DEF vars, publish
  <2>2. CASE execute(r)
    <3>1. at[r] = "new" /\ at'[r] = "waiting" /\ task'[r]["agent"] \in {"none", "created"}
      BY <2>2, TaskFacts DEF execute, RuntimesTypeOK
    <3> QED
      BY <1>1, <2>1, <3>1 DEF Subscribed, Others
  <2>3. CASE Watch(r) \/ cleanup(r)
    BY <1>3, <1>4, <2>3
  <2>4. CASE ~execute(r) /\ ~Watch(r) /\ ~cleanup(r)
    <3>1. /\ at'[r] \in {"waiting", "watching"} => at[r] \in {"waiting", "watching"}
          /\ at[r] \notin {"new", "over"} => at'[r] \notin {"new", "over"}
      BY <2>4 DEF RunAct, Step, EndWatch, Critique, Answer, Exhaust, Attempt, Resume, Return,
                  Timeout, RuntimesTypeOK
    <3>2. ASSUME at'[r] \in {"waiting", "watching"},
                 task'[r]["agent"] \notin {"none", "created"}
          PROVE  task[r]["agent"] \notin {"none", "created"}
      <4>1. CASE EndWatch(r)
        BY <4>1 DEF EndWatch
      <4>2. CASE Timeout(r)
        BY <3>2, <4>2 DEF Timeout, RuntimesTypeOK
      <4>3. CASE task' = task
        BY <3>2, <4>3
      <4>4. ASSUME NEW t \in Task \ {"agent"}, NEW s \in TaskStatus, Becomes(r, t, s)
            PROVE  task'[r]["agent"] = task[r]["agent"]
        BY <4>4, TaskFacts, TaskMoves DEF TaskStatus
      <4>5. ASSUME NEW t \in Task, Answer(r, t) \/ Exhaust(r, t)
            PROVE  task'[r]["agent"] = task[r]["agent"]
        <5>1. /\ t # "agent"
              /\ Becomes(r, t, "critique") \/ Becomes(r, t, "returned") \/ Becomes(r, t, "raised")
          BY <4>5 DEF Answer, Exhaust
        <5> QED
          BY <4>4, <5>1 DEF TaskStatus
      <4>6. ASSUME Critique(r) \/ \E s \in Slice : Attempt(r, s)
            PROVE  task' = task \/ task'[r]["agent"] = task[r]["agent"]
        BY <4>4, <4>6, TaskFacts DEF Critique, Attempt, TaskStatus
      <4>7. CASE Resume(r) \/ Return(r)
        BY <4>3, <4>7 DEF Resume, Return
      <4> QED
        BY <2>4, <3>2, <4>1, <4>2, <4>3, <4>5, <4>6, <4>7 DEF RunAct, Step
    <3> QED
      BY <1>1, <2>1, <3>1, <3>2 DEF Subscribed, Others
  <2> QED
    BY <2>2, <2>3, <2>4
<1> QED
  BY <1>3, <1>4, <1>5, BusUse

\* Each step keeps the invariant of the runs.
LEMMA RInvStep == NeverStopped /\ RInv /\ [RuntimesNext]_allvars => NeverStopped' /\ RInv'
<1> SUFFICES ASSUME NeverStopped, RInv, [RuntimesNext]_allvars
             PROVE  NeverStopped' /\ RInv'
  OBVIOUS
<1>1. ASSUME NEW r \in Run, RunAct(r)
      PROVE  NeverStopped' /\ RInv'
  <2>1. stopping' = stopping
    BY <1>1, BusUse DEF vars, publish, subscribe, unsubscribe
  <2>2. RuntimesTypeOK' /\ Others(r) /\ kind' = kind /\ RunOK(r)' /\ Subscribed'
    BY <1>1, RunTypes, RunStep, SubscribedStep DEF RInv
  <2>3. ASSUME NEW q \in Run, q # r
        PROVE  RunOK(q)'
    BY <2>2, <2>3, Unaffected DEF Others, RInv
  <2> QED
    BY <2>1, <2>2, <2>3 DEF NeverStopped, RInv
<1>2. CASE UNCHANGED runs /\ NeverStopped'
           /\ \A r \in Run : r \in subscribers' <=> r \in subscribers
  <2>1. \A q \in Run : RunOK(q)'
    BY <1>2, Unaffected DEF runs, RInv
  <2> QED
    BY <1>2, <2>1 DEF runs, RInv, RuntimesTypeOK, Subscribed
<1>3. CASE UNCHANGED allvars
  BY <1>2, <1>3 DEF allvars, vars, NeverStopped
<1> QED
  BY <1>1, <1>2, <1>3, ElsewhereFacts DEF RuntimesNext, RunAct

\* The invariant of the runs holds initially.
LEMMA RInvInit == RuntimesInit => NeverStopped /\ RInv
<1> SUFFICES ASSUME RuntimesInit
             PROVE  NeverStopped /\ RInv
  OBVIOUS
<1>1. RuntimesTypeOK
  BY DEF RuntimesInit, RuntimesTypeOK, MAX_LOOP_ITERATIONS
<1>2. \A r \in Run : at[r] = "new" /\ \A t \in Task : task[r][t] = "none"
  BY DEF RuntimesInit
<1>3. \A r \in Run : RunOK(r)
  BY <1>2, TaskFacts DEF RunOK
<1> QED
  BY <1>1, <1>2, <1>3, TaskFacts DEF RuntimesInit, Init, NeverStopped, RInv, Subscribed

\* It holds in every reachable state.
LEMMA RInvCorrect == RuntimesSpec => [](NeverStopped /\ RInv)
  BY RInvInit, RInvStep, PTL DEF RuntimesSpec

\* THEOREM: every variable of the runs stays in its range.
THEOREM RuntimesTypeCorrect == RuntimesSpec => []RuntimesTypeOK
<1>1. RInv => RuntimesTypeOK
  BY DEF RInv
<1> QED
  BY <1>1, RInvCorrect, PTL

\* THEOREM: a run that is over has no callback on the bus, and no task but a twin
\* whose sibling raised or an agent about to hear of its worker's end.
THEOREM NothingLeftBehind == RuntimesSpec => []NothingOutlivesRun
<1>1. RInv => NothingOutlivesRun
  <2> SUFFICES ASSUME RInv, NEW r \in Run, at[r] = "over"
               PROVE  /\ r \notin subscribers
                      /\ \A t \in Task : ~Ended(r, t) =>
                            \/ t \in {"x", "y"} /\ AnyRaised(r)
                            \/ t = "agent" /\ task[r]["worker"] \in {"raised", "cancelled"}
    BY DEF NothingOutlivesRun
  <2>1. r \notin subscribers
    BY DEF RInv, Subscribed
  <2>2. ASSUME NEW t \in Task, ~Ended(r, t), t # "agent"
        PROVE  t \in {"x", "y"} /\ AnyRaised(r)
    <3>1. t \in Awaited(r)
      BY <2>2, KindFacts DEF RInv, RunOK, Ended
    <3>2. AnyRaised(r)
      BY <2>2, <3>1 DEF RInv, RunOK
    <3>3. PICK u \in Awaited(r) : task[r][u] = "raised"
      BY <3>2 DEF AnyRaised
    <3>4. u # t
      BY <2>2, <3>3 DEF Ended
    <3>5. kind[r] = "COMPETITIVE"
      <4>1. kind[r] # "MICRO"
        BY <3>3, KindFacts DEF RInv, RunOK
      <4> QED
        BY <3>1, <3>3, <3>4, <4>1, KindFacts DEF RInv, Kind
    <3> QED
      BY <3>1, <3>2, <3>5, KindFacts DEF RInv
  <2>3. Ended(r, "agent") \/ task[r]["worker"] \in {"raised", "cancelled"}
    BY DEF RInv, RunOK
  <2> QED
    BY <2>1, <2>2, <2>3
<1> QED
  BY <1>1, RInvCorrect, PTL

-----------------------------------------------------------------------------
(* Progress of the runs: of RunsEnd, the parts that fairness does not      *)
(* give. Until a run is over and its tasks have ended some step of its own *)
(* is possible, and each step leaves it less to do.                        *)

\* What a task can be in, and the agent not on the bus before its first step.
TasksInOrder(r) ==
    /\ task[r]["agent"] \notin {"calling", "critique"}
    /\ \A t \in Task \ {"agent"} :
          /\ task[r][t] \notin {"created", "watching"}
          /\ task[r][t] = "critique" => t = "y"
    /\ task[r]["agent"] = "created" => r \notin subscribers

InOrder == \A r \in Run : TasksInOrder(r)

Unfinished(r) ==
    \/ at[r] \in {"waiting", "watching", "ended"}
    \/ at[r] = "over" /\ \E t \in Task : ~Ended(r, t)

\* The guards of a run's steps.
CanTaskStep(r) ==
    \/ task[r]["agent"] = "created" /\ r \notin subscribers
    \/ task[r]["agent"] = "watching" /\ Ended(r, "worker")
    \/ task[r]["y"] = "critique"
    \/ \E t \in Task \ {"agent"} : Called(r, t)
CanExecuteStep(r) ==
    \/ at[r] = "waiting" /\ (AllReturned(r) \/ AnyRaised(r))
    \/ /\ at[r] = "waiting" /\ ~AllReturned(r) /\ ~AnyRaised(r)
       /\ \A t \in Awaited(r) : Called(r, t) \/ task[r][t] # "calling"
    \/ /\ at[r] = "watching"
       /\ kind[r] = "STANDARD" => task[r]["agent"] \in {"watching", "returned"}
    \/ at[r] = "ended"

RunNeverStuck == \A r \in Run : Unfinished(r) => CanTaskStep(r) \/ CanExecuteStep(r)

\* A run's step keeps its tasks in order.
LEMMA OrderOwnStep ==
    ASSUME RInv, NEW r \in Run, TasksInOrder(r), RunAct(r)
    PROVE  TasksInOrder(r)'
<1> USE DEF RInv
<1>1. "agent" \in Task /\ "worker" \in Task /\ "y" \in Task
  BY TaskFacts
<1>2. CASE execute(r)
  <2>1. at[r] = "new" /\ subscribers' = subscribers
        /\ \A t \in Task : task'[r][t] = IF t \notin TasksOf(kind[r]) THEN "none"
                                         ELSE IF t = "agent" THEN "created" ELSE "calling"
    BY <1>2 DEF execute, vars, RuntimesTypeOK
  <2>2. r \notin subscribers
    BY <2>1 DEF Subscribed
  <2> QED
    BY <1>1, <2>1, <2>2 DEF TasksInOrder
<1>3. ASSUME NEW s \in TaskStatus \ {"created", "calling", "critique"},
             Becomes(r, "agent", s)
      PROVE  TasksInOrder(r)'
  <2>1. task'[r]["agent"] = s /\ \A u \in Task \ {"agent"} : task'[r][u] = task[r][u]
    BY <1>1, <1>3, TaskMoves DEF TaskStatus
  <2> QED
    BY <2>1 DEF TasksInOrder
<1>4. ASSUME NEW t \in Task \ {"agent"}, Becomes(r, t, "returned") \/ Becomes(r, t, "raised")
                \/ (t = "y" /\ Becomes(r, t, "critique")),
             r \in subscribers' <=> r \in subscribers
      PROVE  TasksInOrder(r)'
  <2>1. /\ task'[r][t] \in {"returned", "raised", "critique"}
        /\ task'[r][t] = "critique" => t = "y"
        /\ \A u \in Task \ {t} : task'[r][u] = task[r][u]
    BY <1>4, TaskMoves
  <2> QED
    BY <1>1, <1>4, <2>1 DEF TasksInOrder
<1>5. ASSUME task' = task, r \in subscribers' => r \in subscribers
      PROVE  TasksInOrder(r)'
  BY <1>5 DEF TasksInOrder
<1>6. CASE Watch(r)
  BY <1>3, <1>6 DEF Watch, TaskStatus
<1>7. CASE EndWatch(r)
  <2>1. task[r]["worker"] \in TaskStatus \ {"created", "calling", "critique"}
    BY <1>1, <1>7 DEF EndWatch, Ended, TaskStatus
  <2> QED
    BY <1>3, <1>7, <2>1 DEF EndWatch
<1>8. CASE Critique(r)
  <2>1. subscribers' = subscribers
    BY <1>8 DEF Critique, vars
  <2> QED
    BY <1>1, <1>4, <1>5, <1>8, <2>1 DEF Critique
<1>9. ASSUME NEW t \in Task, Answer(r, t) \/ Exhaust(r, t)
      PROVE  TasksInOrder(r)'
  <2>1. t # "agent" /\ subscribers' = subscribers
    BY <1>9 DEF Answer, Exhaust, publish, vars
  <2>2. \/ Becomes(r, t, "returned") \/ Becomes(r, t, "raised")
        \/ (t = "y" /\ Becomes(r, t, "critique"))
    BY <1>9 DEF Answer, Exhaust
  <2> QED
    BY <1>4, <2>1, <2>2
<1>10. ASSUME NEW s \in Slice, Attempt(r, s)
       PROVE  TasksInOrder(r)'
  <2>1. s \in Task \ {"agent"} /\ subscribers' = subscribers
    BY <1>10, TaskFacts DEF Attempt, vars
  <2> QED
    BY <1>4, <1>5, <1>10, <2>1 DEF Attempt
<1>11. CASE Resume(r) \/ Return(r) \/ cleanup(r)
  BY <1>5, <1>11 DEF Resume, Return, cleanup, vars, unsubscribe
<1>12. CASE Timeout(r)
  <2>1. subscribers' = subscribers
    BY <1>12 DEF Timeout, vars
  <2>2. CASE \A t \in Task : task'[r][t] \in {task[r][t], "cancelled"}
    BY <1>1, <2>1, <2>2 DEF TasksInOrder
  <2>3. CASE task' = [task EXCEPT ![r] = [t \in Task |->
                         IF t \in Awaited(r) /\ ~Ended(r, t) THEN "cancelled"
                         ELSE task[r][t]]]
    BY <2>2, <2>3 DEF RuntimesTypeOK
  <2> QED
    BY <1>3, <1>5, <1>12, <2>1, <2>3 DEF Timeout, TaskStatus
<1> QED
  BY <1>2, <1>6, <1>7, <1>8, <1>9, <1>10, <1>11, <1>12 DEF RunAct, Step

\* Every step keeps the tasks of all runs in order.
LEMMA OrderStep ==
    NeverStopped /\ RInv /\ InOrder /\ [RuntimesNext]_allvars => InOrder'
<1> SUFFICES ASSUME NeverStopped, RInv, InOrder, [RuntimesNext]_allvars, NEW r \in Run
             PROVE  TasksInOrder(r)'
  BY DEF InOrder
<1> USE DEF InOrder
<1>1. ASSUME task'[r] = task[r], r \in subscribers' => r \in subscribers
      PROVE  TasksInOrder(r)'
  BY <1>1 DEF TasksInOrder
<1>2. ASSUME NEW q \in Run, RunAct(q)
      PROVE  TasksInOrder(r)'
  <2>1. CASE q = r
    BY <1>2, <2>1, OrderOwnStep
  <2>2. CASE q # r
    <3>1. task'[r] = task[r]
      BY <1>2, <2>2, RunTypes DEF RInv, Others
    <3>2. r \in subscribers' => r \in subscribers
      BY <1>2, <2>2, BusUse DEF vars, publish, subscribe, unsubscribe
    <3> QED
      BY <1>1, <3>1, <3>2
  <2> QED
    BY <2>1, <2>2
<1>3. CASE Elsewhere
  BY <1>1, <1>3, ElsewhereFacts DEF runs
<1>4. CASE UNCHANGED allvars
  BY <1>1, <1>4 DEF allvars, runs, vars
<1> QED
  BY <1>2, <1>3, <1>4 DEF RuntimesNext, RunAct

\* A task that has not ended is about to start, called, criticising or watching.
LEMMA TaskAtWork ==
    ASSUME RInv, NEW r \in Run, TasksInOrder(r), NEW t \in Task, ~Ended(r, t)
    PROVE  \/ t = "agent" /\ task[r][t] \in {"created", "watching"}
           \/ t # "agent" /\ task[r][t] = "calling"
           \/ t = "y" /\ task[r][t] = "critique"
<1>1. task[r][t] \in TaskStatus
  BY DEF RInv, RuntimesTypeOK, TaskStatus
<1> QED
  BY <1>1 DEF TasksInOrder, Ended, TaskStatus

\* THEOREM: until a run is over and its tasks have ended, one of its own steps is
\* possible; no worker waits for an agent that cannot subscribe, no execute for a
\* task that was cancelled.
THEOREM RunsGoOn == RuntimesSpec => []RunNeverStuck
<1>1. ASSUME RInv, NEW r \in Run, TasksInOrder(r), Unfinished(r)
      PROVE  CanTaskStep(r) \/ CanExecuteStep(r)
  <2> USE <1>1
  <2>1. "agent" \in Task /\ "worker" \in Task /\ "y" \in Task
    BY TaskFacts
  <2>2. CASE at[r] = "waiting"
    <3>1. ASSUME NEW t \in Awaited(r), ~Called(r, t), task[r][t] = "calling"
          PROVE  CanTaskStep(r)
      <4>1. task[r]["agent"] = "created"
        BY <3>1 DEF Called
      <4> QED
        BY <4>1 DEF TasksInOrder, CanTaskStep
    <3> QED
      BY <2>2, <3>1 DEF CanExecuteStep
  <2>3. CASE at[r] = "watching"
    BY <2>3 DEF CanExecuteStep, RInv, RunOK
  <2>4. CASE at[r] = "ended"
    BY <2>4 DEF CanExecuteStep
  <2>5. CASE at[r] = "over"
    <3>1. PICK t \in Task : ~Ended(r, t)
      BY <2>5 DEF Unfinished
    <3>2. CASE t = "agent" /\ task[r][t] \in {"created", "watching"}
      <4>1. Ended(r, "worker")
        BY <2>5, <3>1, <3>2 DEF RInv, RunOK, Ended
      <4>2. task[r]["agent"] = "watching"
        BY <2>5, <3>2 DEF RInv, RunOK
      <4> QED
        BY <4>1, <4>2 DEF CanTaskStep
    <3>3. CASE t # "agent" /\ task[r][t] = "calling"
      <4>1. Called(r, t)
        BY <2>5, <3>3 DEF RInv, RunOK, Called
      <4> QED
        BY <3>3, <4>1 DEF CanTaskStep
    <3>4. CASE t = "y" /\ task[r][t] = "critique"
      BY <3>4 DEF CanTaskStep
    <3> QED
      BY <3>1, <3>2, <3>3, <3>4, TaskAtWork
  <2> QED
    BY <2>2, <2>3, <2>4, <2>5 DEF Unfinished
<1>2. RInv /\ InOrder => RunNeverStuck
  BY <1>1 DEF InOrder, RunNeverStuck
<1>3. RuntimesInit => InOrder
  BY TaskFacts DEF RuntimesInit, InOrder, TasksInOrder
<1> QED
  BY <1>2, <1>3, OrderStep, RInvCorrect, PTL DEF RuntimesSpec

\* What a run has still to do: the stations of its execute, and each task's steps.
StationsLeft(r) == CASE at[r] = "waiting" -> 3 [] at[r] = "watching" -> 2
                     [] at[r] = "ended" -> 1 [] OTHER -> 0
StepsOf(s, n) == CASE s = "calling" -> 8 - n [] s = "critique" -> 5 - n
                   [] s = "created" -> 2 [] s = "watching" -> 1 [] OTHER -> 0
StepsLeft(r, t) == StepsOf(task[r][t], count[r][t])

NoMoreToDo(r) ==
    /\ StationsLeft(r)' <= StationsLeft(r)
    /\ \A t \in Task : StepsLeft(r, t)' <= StepsLeft(r, t)

LessToDo(r) ==
    /\ NoMoreToDo(r)
    /\ \/ StationsLeft(r)' < StationsLeft(r)
       \/ \E t \in Task : StepsLeft(r, t)' < StepsLeft(r, t)

RunsGetOn ==
    [][ \A r \in Run : /\ Step(r) => LessToDo(r)
                       /\ at[r] # "new" => NoMoreToDo(r) ]_allvars

\* What is left is a small number for each task.
LEMMA StepsBounded ==
    ASSUME RuntimesTypeOK, NEW r \in Run
    PROVE  StationsLeft(r) \in 0..3 /\ \A t \in Task : StepsLeft(r, t) \in 0..8
<1>1. StationsLeft(r) \in 0..3
  BY DEF StationsLeft
<1>2. ASSUME NEW t \in Task
      PROVE  StepsLeft(r, t) \in 0..8
  <2>1. count[r][t] \in 0..3
    BY DEF RuntimesTypeOK, MAX_LOOP_ITERATIONS
  <2> QED
    BY <2>1 DEF StepsLeft, StepsOf
<1> QED
  BY <1>1, <1>2

\* A task that goes on, and nothing else does, leaves less to do.
LEMMA TaskGetsOn ==
    ASSUME RuntimesTypeOK, NEW r \in Run, NEW t \in Task, at' = at,
           \A u \in Task \ {t} : StepsLeft(r, u)' = StepsLeft(r, u),
           StepsLeft(r, t)' \in Int, StepsLeft(r, t)' < StepsLeft(r, t)
    PROVE  LessToDo(r)
<1>1. StationsLeft(r)' = StationsLeft(r)
  BY DEF StationsLeft
<1>2. StationsLeft(r) \in 0..3 /\ \A u \in Task : StepsLeft(r, u) \in 0..8
  BY StepsBounded
<1>3. StationsLeft(r)' <= StationsLeft(r)
  BY <1>1, <1>2
<1>4. ASSUME NEW u \in Task \ {t}
      PROVE  StepsLeft(r, u)' <= StepsLeft(r, u)
  BY <1>2, <1>4
<1>5. StepsLeft(r, t)' <= StepsLeft(r, t)
  BY <1>2
<1> QED
  BY <1>3, <1>4, <1>5 DEF LessToDo, NoMoreToDo

\* One that becomes something nearer its end does.
LEMMA BecomesNearer ==
    ASSUME RuntimesTypeOK, NEW r \in Run, NEW t \in Task, NEW s \in TaskStatus,
           Becomes(r, t, s), at' = at, count' = count,
           StepsOf(s, count[r][t]) < StepsLeft(r, t)
    PROVE  LessToDo(r)
<1>1. task'[r][t] = s /\ \A u \in Task \ {t} : task'[r][u] = task[r][u]
  BY TaskMoves DEF TaskStatus
<1>2. StepsLeft(r, t)' \in Int /\ StepsLeft(r, t)' < StepsLeft(r, t)
  <2>1. StepsLeft(r, t)' = StepsOf(s, count[r][t])
    BY <1>1 DEF StepsLeft
  <2>2. count[r][t] \in 0..3
    BY DEF RuntimesTypeOK, MAX_LOOP_ITERATIONS
  <2>3. StepsOf(s, count[r][t]) \in Int
    BY <2>2 DEF StepsOf
  <2> QED
    BY <2>1, <2>3
<1>3. \A u \in Task \ {t} : StepsLeft(r, u)' = StepsLeft(r, u)
  BY <1>1 DEF StepsLeft
<1> QED
  BY <1>2, <1>3, TaskGetsOn

\* One whose attempt or critique is counted does.
LEMMA CountNearer ==
    ASSUME RuntimesTypeOK, NEW r \in Run, NEW t \in Task,
           task[r][t] \in {"calling", "critique"}, count[r][t] < MAX_LOOP_ITERATIONS,
           count' = [count EXCEPT ![r][t] = @ + 1], task' = task, at' = at
    PROVE  LessToDo(r)
<1>1. count[r][t] \in 0..3 /\ count[r][t] < 3
  BY DEF RuntimesTypeOK, MAX_LOOP_ITERATIONS
<1>2. /\ count'[r][t] = count[r][t] + 1
      /\ \A u \in Task \ {t} : count'[r][u] = count[r][u]
  BY DEF RuntimesTypeOK
<1>3. StepsLeft(r, t)' \in Int /\ StepsLeft(r, t)' < StepsLeft(r, t)
  BY <1>1, <1>2 DEF StepsLeft, StepsOf
<1>4. \A u \in Task \ {t} : StepsLeft(r, u)' = StepsLeft(r, u)
  BY <1>2 DEF StepsLeft
<1> QED
  BY <1>3, <1>4, TaskGetsOn

\* execute that goes on, cancelling tasks or not, does.
LEMMA StationNearer ==
    ASSUME RuntimesTypeOK, NEW r \in Run, StationsLeft(r)' < StationsLeft(r), count' = count,
           \A t \in Task : task'[r][t] \in {task[r][t], "cancelled"}
    PROVE  LessToDo(r)
<1>1. StationsLeft(r) \in 0..3 /\ \A t \in Task : StepsLeft(r, t) \in 0..8
  BY StepsBounded
<1>2. StationsLeft(r)' \in 0..3
  BY DEF StationsLeft
<1>3. StationsLeft(r)' <= StationsLeft(r)
  BY <1>1, <1>2
<1>4. ASSUME NEW t \in Task
      PROVE  StepsLeft(r, t)' <= StepsLeft(r, t)
  <2>1. StepsLeft(r, t) \in 0..8
    BY <1>1
  <2>2. CASE task'[r][t] = task[r][t]
    BY <2>1, <2>2 DEF StepsLeft
  <2>3. CASE task'[r][t] = "cancelled"
    BY <2>1, <2>3 DEF StepsLeft, StepsOf
  <2> QED
    BY <2>2, <2>3
<1> QED
  BY <1>3, <1>4 DEF LessToDo, NoMoreToDo

\* A step of a run leaves it less to do.
LEMMA OwnStepGetsOn ==
    ASSUME RuntimesTypeOK, NEW r \in Run, Step(r)
    PROVE  LessToDo(r)
<1>1. "agent" \in Task /\ "worker" \in Task /\ "y" \in Task /\ Slice \subseteq Task
  BY TaskFacts
<1>2. \A t \in Task : count[r][t] \in 0..3
  BY DEF RuntimesTypeOK, MAX_LOOP_ITERATIONS
<1>3. CASE Watch(r)
  <2>1. StepsOf("watching", count[r]["agent"]) < StepsLeft(r, "agent")
    BY <1>3 DEF Watch, StepsOf, StepsLeft
  <2> QED
    BY <1>1, <1>3, <2>1, BecomesNearer DEF Watch, TaskStatus
<1>4. CASE EndWatch(r)
  <2>1. task[r]["worker"] \in TaskStatus
    BY <1>1 DEF RuntimesTypeOK, TaskStatus
  <2>2. StepsOf(task[r]["worker"], count[r]["agent"]) < StepsLeft(r, "agent")
    BY <1>4 DEF EndWatch, Ended, StepsOf, StepsLeft
  <2> QED
    BY <1>1, <1>4, <2>1, <2>2, BecomesNearer DEF EndWatch
<1>5. CASE Critique(r)
  <2>1. StepsOf("returned", count[r]["y"]) < StepsLeft(r, "y")
    BY <1>1, <1>2, <1>5 DEF Critique, StepsOf, StepsLeft
  <2>2. CASE count[r]["y"] < MAX_LOOP_ITERATIONS
    BY <1>1, <1>5, <2>2, CountNearer DEF Critique
  <2>3. CASE ~(count[r]["y"] < MAX_LOOP_ITERATIONS)
    BY <1>1, <1>5, <2>1, <2>3, BecomesNearer DEF Critique, TaskStatus
  <2> QED
    BY <2>2, <2>3
<1>6. ASSUME NEW t \in Task, Answer(r, t) \/ Exhaust(r, t)
      PROVE  LessToDo(r)
  <2>1. task[r][t] = "calling" /\ at' = at /\ count' = count
    BY <1>6 DEF Answer, Exhaust, Called
  <2>2. \A s \in {"critique", "returned", "raised"} :
            s \in TaskStatus /\ StepsOf(s, count[r][t]) < StepsLeft(r, t)
    BY <1>2, <2>1 DEF StepsOf, StepsLeft, TaskStatus
  <2>3. \E s \in {"critique", "returned", "raised"} : Becomes(r, t, s)
    BY <1>6 DEF Answer, Exhaust
  <2> QED
    BY <2>1, <2>2, <2>3, BecomesNearer
<1>7. ASSUME NEW s \in Slice, Attempt(r, s)
      PROVE  LessToDo(r)
  <2>1. s \in Task /\ task[r][s] = "calling" /\ at' = at /\ count[r][s] \in 0..3
    BY <1>1, <1>2, <1>7 DEF Attempt
  <2>2. StepsOf("returned", count[r][s]) < StepsLeft(r, s) /\ "returned" \in TaskStatus
    BY <2>1 DEF StepsOf, StepsLeft, TaskStatus
  <2>3. CASE s \in Failing /\ count[r][s] + 1 < max_attempts
    <3>1. count[r][s] < MAX_LOOP_ITERATIONS
      BY <2>1, <2>3 DEF max_attempts, MAX_LOOP_ITERATIONS
    <3>2. task' = task /\ count' = [count EXCEPT ![r][s] = @ + 1]
      BY <1>7, <2>3 DEF Attempt
    <3> QED
      BY <2>1, <3>1, <3>2, CountNearer
  <2>4. CASE ~(s \in Failing /\ count[r][s] + 1 < max_attempts)
    <3>1. Becomes(r, s, "returned") /\ count' = count
      BY <1>7, <2>4 DEF Attempt
    <3> QED
      BY <2>1, <2>2, <3>1, BecomesNearer
  <2> QED
    BY <2>3, <2>4
<1>8. CASE Resume(r) \/ Return(r) \/ cleanup(r)
  <2>1. task' = task /\ count' = count
    BY <1>8 DEF Resume, Return, cleanup
  <2>2. StationsLeft(r)' < StationsLeft(r)
    BY <1>8 DEF Resume, Return, cleanup, StationsLeft, RuntimesTypeOK
  <2> QED
    BY <2>1, <2>2, StationNearer
<1>9. CASE Timeout(r)
  <2>1. count' = count /\ StationsLeft(r)' < StationsLeft(r)
    BY <1>9 DEF Timeout, StationsLeft, RuntimesTypeOK
  <2>2. CASE task' = [task EXCEPT ![r] = [t \in Task |->
                         IF t \in Awaited(r) /\ ~Ended(r, t) THEN "cancelled"
                         ELSE task[r][t]]]
    <3>1. \A t \in Task : task'[r][t] \in {task[r][t], "cancelled"}
      BY <2>2 DEF RuntimesTypeOK
    <3> QED
      BY <2>1, <3>1, StationNearer
  <2>3. CASE task' = task
    BY <2>1, <2>3, StationNearer
  <2>4. CASE Becomes(r, "agent", "cancelled")
    <3>1. \A t \in Task : task'[r][t] \in {task[r][t], "cancelled"}
      BY <1>1, <2>4, TaskMoves
    <3> QED
      BY <2>1, <3>1, StationNearer
  <2> QED
    BY <1>9, <2>2, <2>3, <2>4 DEF Timeout
<1> QED
  BY <1>3, <1>4, <1>5, <1>6, <1>7, <1>8, <1>9 DEF Step

\* THEOREM: each step of a run leaves it less to do, and no step of another run or
\* of the bus gives it more; as what it has to do is finite, no run retries,
\* criticises or watches forever.
THEOREM RunsRunOut ==
    RuntimesSpec =>
        /\ RunsGetOn
        /\ [](/\ IsFiniteSet(Task)
              /\ \A r \in Run : /\ StationsLeft(r) \in 0..3
                                /\ \A t \in Task : StepsLeft(r, t) \in 0..8)
<1> DEFINE GetOn == \A r \in Run : /\ Step(r) => LessToDo(r)
                                   /\ at[r] # "new" => NoMoreToDo(r)
           Bounded == /\ IsFiniteSet(Task)
                      /\ \A r \in Run : /\ StationsLeft(r) \in 0..3
                                        /\ \A t \in Task : StepsLeft(r, t) \in 0..8
<1>1. ASSUME NeverStopped, RInv, RuntimesNext, NEW r \in Run
      PROVE  (Step(r) => LessToDo(r)) /\ (at[r] # "new" => NoMoreToDo(r))
  <2>1. Step(r) => LessToDo(r)
    BY <1>1, OwnStepGetsOn DEF RInv
  <2>2. ASSUME at'[r] = at[r], task'[r] = task[r], count'[r] = count[r]
        PROVE  NoMoreToDo(r)
    <3>1. StationsLeft(r)' = StationsLeft(r) /\ \A t \in Task : StepsLeft(r, t)' = StepsLeft(r, t)
      BY <2>2 DEF StationsLeft, StepsLeft
    <3>2. StationsLeft(r) \in 0..3 /\ \A t \in Task : StepsLeft(r, t) \in 0..8
      BY <1>1, StepsBounded DEF RInv
    <3> QED
      BY <3>1, <3>2 DEF NoMoreToDo
  <2>3. ASSUME NEW q \in Run \ {r}, RunAct(q)
        PROVE  NoMoreToDo(r)
    <3>1. at'[r] = at[r] /\ task'[r] = task[r]
      BY <1>1, <2>3, RunTypes DEF RInv, Others
    <3>2. count'[r] = count[r]
      BY <1>1, <2>3 DEF RunAct, Step, execute, Watch, EndWatch, Critique, Answer, Exhaust,
         Attempt, Resume, Return, Timeout, cleanup, RInv, RuntimesTypeOK
    <3> QED
      BY <2>2, <3>1, <3>2
  <2>4. CASE Elsewhere
    BY <1>1, <2>1, <2>2, <2>4, ElsewhereFacts DEF runs
  <2>5. CASE execute(r)
    BY <2>1, <2>5 DEF execute
  <2>6. CASE Step(r)
    BY <2>1, <2>6 DEF LessToDo
  <2> QED
    BY <1>1, <2>1, <2>3, <2>4, <2>5, <2>6 DEF RuntimesNext, RunAct
<1>2. NeverStopped /\ RInv /\ [RuntimesNext]_allvars => [GetOn]_allvars
  BY <1>1
<1>3. RInv => Bounded
  <2>1. IsFiniteSet(Task)
    <3>1. IsFiniteSet(Slice)
      BY RuntimesAssumption DEF RuntimesAssumption
    <3>2. IsFiniteSet({"worker", "agent", "x", "y", "call"})
      <4>1. IsFiniteSet({"worker"})
        BY FS_Singleton
      <4>2. IsFiniteSet({"worker"} \cup {"agent"})
        BY <4>1, FS_AddElement
      <4>3. IsFiniteSet(({"worker"} \cup {"agent"}) \cup {"x"})
        BY <4>2, FS_AddElement
      <4>4. IsFiniteSet((({"worker"} \cup {"agent"}) \cup {"x"}) \cup {"y"})
        BY <4>3, FS_AddElement
      <4>5. IsFiniteSet(((({"worker"} \cup {"agent"}) \cup {"x"}) \cup {"y"}) \cup {"call"})
        BY <4>4, FS_AddElement
      <4>6. {"worker", "agent", "x", "y", "call"} =
                ((({"worker"} \cup {"agent"}) \cup {"x"}) \cup {"y"}) \cup {"call"}
        OBVIOUS
      <4> QED
        BY <4>5, <4>6
    <3> QED
      BY <3>1, <3>2, FS_Union DEF Task
  <2> QED
    BY <2>1, StepsBounded DEF RInv
<1> HIDE DEF GetOn, Bounded
<1>4. RuntimesSpec => [][GetOn]_allvars /\ []Bounded
  BY <1>2, <1>3, RInvCorrect, PTL DEF RuntimesSpec
<1> QED
  BY <1>4 DEF GetOn, Bounded, RunsGetOn

-----------------------------------------------------------------------------
(* The worker's chunk.                                                     *)

\* While its agent is subscribed, a worker's chunk is on its way or with the agent.
Heard ==
    \A r \in Run : task[r]["worker"] = "returned" /\ r \in subscribers =>
        \/ r \in queue
        \/ r \in message /\ r \in destinations
        \/ Logged(r, r)

\* Logs only grow.
LEMMA LogsGrow ==
    ASSUME IInv, NEW c \in Callback, NEW m, Logged(c, m),
           \/ log' = log
           \/ \E n \in Message : Take(n)
           \/ \E d \in Callback : BeginCall(d)
    PROVE  Logged(c, m)'
<1>1. \/ log'[c] = log[c]
      \/ \E n \in Message : log'[c] = Append(log[c], n)
  <2>1. ASSUME NEW n \in Message, Take(n)
        PROVE  log'[c] = log[c] \/ log'[c] = Append(log[c], n)
    BY <2>1 DEF Take
  <2>2. ASSUME NEW d \in Callback, BeginCall(d)
        PROVE  \/ log'[c] = log[c]
               \/ \E n \in Message : log'[c] = Append(log[c], n)
    BY <2>2 DEF BeginCall, IInv, TypeOK
  <2> QED
    BY <2>1, <2>2
<1>2. log[c] \in Seq(Message)
  BY DEF IInv, TypeOK
<1> QED
  BY <1>1, <1>2, AppendFacts DEF Logged

\* The bus takes a subscribed agent its chunk.
LEMMA HeardOnBus ==
    ASSUME IInv, NeverStopped, Heard, Elsewhere
    PROVE  Heard'
<1> SUFFICES ASSUME NEW r \in Run, task'[r]["worker"] = "returned", r \in subscribers'
             PROVE  r \in queue' \/ (r \in message' /\ r \in destinations') \/ Logged(r, r)'
  BY DEF Heard, Logged, Has
<1>1. task[r]["worker"] = "returned" /\ r \in subscribers
  BY ElsewhereFacts DEF runs
<1>2. r \in Callback /\ r \in Message
  BY RunIsCallback
<1>3. r \in queue \/ (r \in message /\ r \in destinations) \/ Logged(r, r)
  BY <1>1 DEF Heard
<1>4. ASSUME NEW m \in Message, Take(m)
      PROVE  r \in queue' \/ (r \in message' /\ r \in destinations') \/ Logged(r, r)'
  <2>1. loop = "get" /\ message = {} /\ queue' = queue \ {m}
    BY <1>4 DEF Take, IInv, DispatchState
  <2>2. CASE r \in queue /\ m = r
    <3>1. r \in Receivers(r)
      BY <1>1, <1>2, RuntimesAssumption DEF Receivers, RuntimesAssumption
    <3> QED
      BY <1>4, <2>2, <3>1 DEF Take
  <2>3. CASE r \in queue /\ m # r
    BY <2>1, <2>3
  <2>4. CASE Logged(r, r)
    BY <1>2, <1>4, <2>4, LogsGrow
  <2> QED
    BY <1>3, <2>1, <2>2, <2>3, <2>4
<1>5. ASSUME NEW c \in Callback, BeginCall(c)
      PROVE  r \in queue' \/ (r \in message' /\ r \in destinations') \/ Logged(r, r)'
  BY <1>2, <1>3, <1>5, LogsGrow DEF BeginCall
<1>6. CASE EndDispatch \/ FailDispatch
  <2>1. CallsEnded /\ queue' = queue /\ log' = log
    BY <1>6 DEF EndDispatch, FailDispatch, Leave
  <2>2. ASSUME r \in message, r \in destinations
        PROVE  Logged(r, r)
    <3>1. call[r] # "created"
      BY <2>1, <2>2 DEF CallsEnded
    <3> QED
      BY <1>2, <2>2, <3>1 DEF IInv, MessageState
  <2> QED
    BY <1>2, <1>3, <2>1, <2>2, LogsGrow
<1>7. ASSUME \/ start \/ EndBackoff \/ \E c \in Callback : subscribe(c) \/ EndCall(c)
      PROVE  UNCHANGED <<queue, message, destinations, log>>
  BY <1>7 DEF start, EndBackoff, subscribe, EndCall
<1>8. CASE UNCHANGED <<queue, message, destinations, log>>
  BY <1>3, <1>8 DEF Logged, Has
<1>9. ~StopDrained /\ ~StopReturn
  BY DEF StopDrained, StopReturn, NeverStopped
<1> QED
  BY <1>4, <1>5, <1>6, <1>7, <1>8, <1>9 DEF Elsewhere, Bus

\* A run's step keeps what is published on its way to the agents.
LEMMA HeardOnRun ==
    ASSUME IInv, RInv, Heard, NEW r \in Run, RunAct(r)
    PROVE  Heard'
<1>1. Others(r) /\ RuntimesTypeOK
  BY RunTypes DEF RInv
<1>2. UNCHANGED <<message, destinations, log>> /\ queue \subseteq queue'
  BY BusUse DEF vars, publish, subscribe, unsubscribe
<1>3. \A q \in Run \ {r} : q \in subscribers' => q \in subscribers
  BY BusUse DEF vars, publish, subscribe, unsubscribe
<1>4. ASSUME NEW q \in Run \ {r}, task'[q]["worker"] = "returned", q \in subscribers'
      PROVE  q \in queue' \/ (q \in message' /\ q \in destinations') \/ Logged(q, q)'
  BY <1>1, <1>2, <1>3, <1>4 DEF Heard, Others, Logged, Has
<1>5. ASSUME task[r]["worker"] = "returned", r \in subscribers
      PROVE  r \in queue' \/ (r \in message' /\ r \in destinations') \/ Logged(r, r)'
  BY <1>2, <1>5 DEF Heard, Logged, Has
<1>6. ASSUME task'[r]["worker"] = "returned", r \in subscribers'
      PROVE  \/ task[r]["worker"] = "returned" /\ r \in subscribers
             \/ r \in queue'
  <2>1. CASE publish(r)
    BY <2>1 DEF publish
  <2>2. CASE subscribe(r) /\ Watch(r)
    <3>1. task[r]["worker"] = "calling"
      BY <2>2 DEF Watch, RInv, RunOK
    <3>2. task'[r]["worker"] = task[r]["worker"]
      BY <1>1, <2>2, TaskFacts, TaskMoves DEF Watch
    <3> QED
      BY <1>6, <3>1, <3>2
  <2>3. CASE unsubscribe(r)
    BY <1>6, <2>3 DEF unsubscribe
  <2>4. CASE UNCHANGED vars
    <3>1. subscribers' = subscribers
      BY <2>4 DEF vars
    <3>2. CASE execute(r)
      BY <1>1, <1>6, <3>2, TaskFacts DEF execute, RuntimesTypeOK
    <3>3. CASE task' = task
      BY <1>6, <3>1, <3>3
    <3>4. ASSUME NEW t \in Task \ {"worker"}, NEW s \in TaskStatus, Becomes(r, t, s)
          PROVE  task'[r]["worker"] = task[r]["worker"]
      BY <1>1, <3>4, TaskFacts, TaskMoves DEF TaskStatus
    <3>5. ASSUME NEW t \in Task, Answer(r, t)
          PROVE  task[r]["worker"] = "returned" \/ r \in queue'
      <4>1. CASE t = "worker"
        BY <3>5, <4>1 DEF Answer, publish
      <4>2. CASE t # "worker"
        <5>1. Becomes(r, t, "critique") \/ Becomes(r, t, "returned")
          BY <3>5 DEF Answer
        <5> QED
          BY <1>6, <3>4, <4>2, <5>1 DEF TaskStatus
      <4> QED
        BY <4>1, <4>2
    <3>6. ASSUME NEW t \in Task, Exhaust(r, t)
          PROVE  task[r]["worker"] = "returned"
      <4>1. Becomes(r, t, "raised")
        BY <3>6 DEF Exhaust
      <4> QED
        BY <1>1, <1>6, <3>4, <4>1, TaskMoves DEF TaskStatus
    <3>7. ASSUME Critique(r) \/ \E s \in Slice : Attempt(r, s)
          PROVE  task[r]["worker"] = "returned"
      BY <1>6, <3>4, <3>7, TaskFacts DEF Critique, Attempt, TaskStatus
    <3>8. CASE EndWatch(r)
      <4>1. task[r]["worker"] \in TaskStatus
        BY <1>1, TaskFacts DEF RuntimesTypeOK, TaskStatus
      <4> QED
        BY <1>6, <3>1, <3>4, <3>8, <4>1, TaskFacts DEF EndWatch
    <3>9. CASE Timeout(r)
      <4>1. task'[r]["worker"] = "returned" => task[r]["worker"] = "returned"
        <5>1. CASE task' = task
          BY <5>1
        <5>2. CASE Becomes(r, "agent", "cancelled")
          BY <3>4, <5>2, TaskFacts DEF TaskStatus
        <5>3. CASE task' = [task EXCEPT ![r] = [t \in Task |->
                         IF t \in Awaited(r) /\ ~Ended(r, t) THEN "cancelled"
                         ELSE task[r][t]]]
          BY <1>1, <5>3, TaskFacts DEF RuntimesTypeOK
        <5> QED
          BY <3>9, <5>1, <5>2, <5>3 DEF Timeout
      <4> QED
        BY <1>6, <3>1, <4>1
    <3>10. ASSUME Resume(r) \/ Return(r) \/ cleanup(r)
           PROVE  task' = task
      BY <3>10 DEF Resume, Return, cleanup
    <3>11. ~Watch(r) \/ r \notin subscribers'
      <4>1. ASSUME Watch(r)
            PROVE  FALSE
        BY <2>4, <4>1 DEF Watch, subscribe, vars
      <4> QED
        BY <4>1
    <3> QED
      BY <1>6, <3>1, <3>2, <3>3, <3>5, <3>6, <3>7, <3>8, <3>9, <3>10, <3>11 DEF RunAct, Step
  <2> QED
    BY <2>1, <2>2, <2>3, <2>4, BusUse
<1> QED
  BY <1>4, <1>5, <1>6 DEF Heard, Logged, Has

\* So does any step.
LEMMA HeardStep ==
    IInv /\ NeverStopped /\ RInv /\ Heard /\ [RuntimesNext]_allvars => Heard'
<1> SUFFICES ASSUME IInv, NeverStopped, RInv, Heard, [RuntimesNext]_allvars
             PROVE  Heard'
  OBVIOUS
<1>1. CASE UNCHANGED allvars
  BY <1>1 DEF allvars, vars, runs, Heard, Logged, Has
<1> QED
  BY <1>1, HeardOnBus, HeardOnRun DEF RuntimesNext, RunAct

\* What is published is on its way or heard, in every reachable state.
LEMMA HeardCorrect == RuntimesSpec => [](IInv /\ NeverStopped /\ RInv /\ Heard)
<1>1. RuntimesInit => Heard
  BY DEF RuntimesInit, Init, Heard
<1>2. RuntimesSpec => []IInv
  BY RunsUseTheBus, InductiveInvariant, PTL
<1> QED
  BY <1>1, <1>2, HeardStep, RInvCorrect, PTL DEF RuntimesSpec

\* THEOREM: a result whose chunk the bus is through with reports the refusal in it.
THEOREM AlertsComplete == RuntimesSpec => AlertsCoverOwnChunks
<1> DEFINE Complete ==
      \A r \in Run :
          reported'[r] # reported[r] /\ r \notin queue \cup message /\ PhraseOf[r] # NoPhrase
              => \A alerts \in reported'[r] : PhraseOf[r] \in alerts
<1>1. IInv /\ NeverStopped /\ RInv /\ Heard /\ [RuntimesNext]_allvars => Complete
  <2> SUFFICES ASSUME IInv, RInv, Heard, [RuntimesNext]_allvars, NEW r \in Run,
                      reported'[r] # reported[r], r \notin queue \cup message,
                      PhraseOf[r] # NoPhrase, NEW alerts \in reported'[r]
               PROVE  PhraseOf[r] \in alerts
    OBVIOUS
  <2>1. ASSUME NEW q \in Run, RunAct(q)
        PROVE  Return(q) \/ reported' = reported
    BY <2>1 DEF RunAct, Step, execute, Watch, EndWatch, Critique, Answer, Exhaust,
                Attempt, Resume, Timeout, cleanup
  <2>2. ASSUME Elsewhere \/ UNCHANGED allvars
        PROVE  reported' = reported
    BY <2>2 DEF Elsewhere, runs, allvars
  <2>3. Return(r)
    <3>1. PICK q \in Run : RunAct(q)
      BY <2>2 DEF RuntimesNext, RunAct
    <3>2. Return(q)
      BY <2>1, <3>1
    <3> QED
      BY <3>2 DEF Return, RInv, RuntimesTypeOK
  <2>4. /\ kind[r] = "STANDARD" /\ alerts = AlertsOf(r) /\ at[r] = "watching"
        /\ task[r]["agent"] = "returned"
    BY <2>3 DEF Return, RInv, RuntimesTypeOK
  <2>5. task[r]["worker"] = "returned" /\ r \in subscribers
    BY <2>4, KindFacts DEF RInv, RunOK, AllReturned, Subscribed
  <2>6. Logged(r, r)
    BY <2>5 DEF Heard
  <2> QED
    BY <2>4, <2>6 DEF AlertsOf, Logged, Has
<1>2. IInv /\ NeverStopped /\ RInv /\ Heard /\ [RuntimesNext]_allvars => [Complete]_allvars
  BY <1>1
<1> HIDE DEF Complete
<1>3. RuntimesSpec => [][Complete]_allvars
  BY <1>2, HeardCorrect, PTL DEF RuntimesSpec
<1> QED
  BY <1>3 DEF Complete, AlertsCoverOwnChunks

=============================================================================
