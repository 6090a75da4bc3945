---------------------------- MODULE GatewayProofs ---------------------------
(***************************************************************************)
(* Theorems of Gateway, for every set of requests, conversations, prompts  *)
(* and plans. Registry and workspaces need no strengthening beyond their   *)
(* types: each entry keeps an owner, whoever overwrites or removes others. *)
(* The reports do: a request that met no rival still holds its entries     *)
(* (Undisturbed). The caches rest on where the output is taken from, and   *)
(* on the semantic cache being asked and filled in one step; the turns, on *)
(* a file being read, added to and written in one.                         *)
(***************************************************************************)
EXTENDS Gateway, FiniteSetTheorems, WellFoundedInduction, TLAPS

-----------------------------------------------------------------------------
(* Minima and maxima.                                                      *)

LessThan == {ss \in Nat \X Nat : ss[1] < ss[2]}

\* A set of numbers that is not empty has a least one.
LEMMA MinExists ==
    ASSUME NEW S \in SUBSET Nat, S # {}
    PROVE  \E m \in S : \A k \in S : m <= k
<1>1. IsWellFoundedOn(LessThan, Nat)
  BY NatLessThanWellFounded DEF OpToRel, LessThan
<1>2. PICK m \in S : \A k \in S : <<k, m>> \notin LessThan
  BY <1>1, WFMin, Zenon
<1>3. ASSUME NEW k \in S
      PROVE  m <= k
  <2>1. k \in Nat /\ m \in Nat
    OBVIOUS
  <2>2. ~(k < m)
    BY <1>2, <2>1 DEF LessThan
  <2> QED
    BY <2>1, <2>2
<1> QED
  BY <1>3

\* One that is bounded has a greatest.
LEMMA MaxExists ==
    ASSUME NEW n \in Nat, NEW S \in SUBSET (1..n), S # {}
    PROVE  \E m \in S : \A k \in S : k <= m
<1> DEFINE T == {n - k : k \in S}
<1>1. T \in SUBSET Nat
  <2>1. ASSUME NEW k \in S
        PROVE  n - k \in Nat
    <3>1. k \in 1..n
      OBVIOUS
    <3> QED
      BY <3>1
  <2> QED
    BY <2>1
<1>2. PICK t \in T : \A k \in T : t <= k
  <2>1. T # {}
    OBVIOUS
  <2> HIDE DEF T
  <2> QED
    BY <1>1, <2>1, MinExists
<1>3. PICK m \in S : t = n - m
  OBVIOUS
<1>4. ASSUME NEW k \in S
      PROVE  k <= m
  <2>1. k \in 1..n /\ m \in 1..n /\ n - k \in T
    OBVIOUS
  <2>2. n - m <= n - k
    BY <1>2, <1>3, <2>1
  <2> QED
    BY <2>1, <2>2
<1> QED
  BY <1>4

-----------------------------------------------------------------------------
(* The step whose result is the answer.                                    *)

\* A plan has layers and each layer steps, counted from 1.
LEMMA PlanFacts ==
    ASSUME NEW p \in Plan
    PROVE  /\ Len(p) \in Nat \ {0} /\ DOMAIN p = 1..Len(p)
           /\ \A i \in 1..Len(p) : /\ p[i] \in Seq(Node)
                                   /\ Len(p[i]) \in Nat \ {0}
                                   /\ DOMAIN p[i] = 1..Len(p[i])
<1>1. p \in Seq(Seq(Node) \ {<<>>}) /\ p # <<>>
  BY GatewayAssumption DEF GatewayAssumption
<1>2. ASSUME NEW i \in 1..Len(p)
      PROVE  /\ p[i] \in Seq(Node) /\ Len(p[i]) \in Nat \ {0}
             /\ DOMAIN p[i] = 1..Len(p[i])
  <2>1. p[i] \in Seq(Node) /\ p[i] # <<>>
    BY <1>1
  <2> QED
    BY <2>1
<1> QED
  BY <1>1, <1>2

\* The steps of a plan are those in its layers.
LEMMA NodesOfFacts ==
    ASSUME NEW p \in Plan
    PROVE  /\ NodesOf(p) \subseteq Node
           /\ \A n : n \in NodesOf(p) <=>
                 \E i \in 1..Len(p) : \E j \in 1..Len(p[i]) : n = p[i][j]
<1>1. \A i \in 1..Len(p) : \A j \in 1..Len(p[i]) : p[i][j] \in Node
  BY PlanFacts
<1> QED
  BY <1>1, PlanFacts DEF NodesOf

\* The answer comes from a step of the plan, and from one that verifies only if
\* the plan has no other.
LEMMA OutputFacts ==
    ASSUME NEW p \in Plan
    PROVE  /\ OutputNode(p) \in NodesOf(p)
           /\ OutputNode(p) \in Verification => NodesOf(p) \subseteq Verification
<1> DEFINE Works(i) == {j \in DOMAIN p[i] : p[i][j] \notin Verification}
           Layers == {i \in DOMAIN p : Works(i) # {}}
<1>1. CASE Layers = {}
  <2>1. OutputNode(p) = p[Len(p)][1]
    BY <1>1 DEF OutputNode
  <2>2. p[Len(p)][1] \in NodesOf(p)
    BY PlanFacts, NodesOfFacts
  <2>3. \A i \in 1..Len(p) : \A j \in 1..Len(p[i]) : p[i][j] \in Verification
    BY <1>1, PlanFacts
  <2> QED
    BY <2>1, <2>2, <2>3, NodesOfFacts
<1>2. CASE Layers # {}
  <2> DEFINE i == CHOOSE i \in Layers : \A k \in Layers : k <= i
             j == CHOOSE j \in Works(i) : \A k \in Works(i) : j <= k
  <2>1. \E k \in Layers : \A l \in Layers : l <= k
    <3>1. Layers \in SUBSET (1..Len(p)) /\ Len(p) \in Nat
      BY PlanFacts
    <3> HIDE DEF Layers
    <3> QED
      BY <1>2, <3>1, MaxExists
  <2>2. i \in Layers
    BY <2>1
  <2>3. \E k \in Works(i) : \A l \in Works(i) : k <= l
    <3>1. i \in 1..Len(p) /\ Works(i) # {}
      BY <2>2, PlanFacts
    <3> HIDE DEF i
    <3>2. Works(i) \in SUBSET Nat
      BY <3>1, PlanFacts
    <3> HIDE DEF Works
    <3> QED
      BY <3>1, <3>2, MinExists
  <2>4. j \in Works(i)
    <3> HIDE DEF Works, i
    <3> QED
      BY <2>3
  <2>5. OutputNode(p) = p[i][j]
    BY <1>2 DEF OutputNode
  <2>6. i \in 1..Len(p) /\ j \in 1..Len(p[i]) /\ p[i][j] \notin Verification
    <3>1. i \in 1..Len(p)
      BY <2>2, PlanFacts
    <3> HIDE DEF i
    <3> HIDE DEF j
    <3> QED
      BY <2>4, <3>1, PlanFacts
  <2> HIDE DEF i, j
  <2> QED
    BY <2>5, <2>6, NodesOfFacts
<1> QED
  BY <1>1, <1>2

-----------------------------------------------------------------------------
(* Types.                                                                  *)

\* A request being scheduled, and one that has been, has a plan.
Planned == \A r \in Request : stage[r] \in {"scheduling", "completed"} => plan[r] \in Plan

\* Each request has a conversation.
LEMMA ConvType ==
    \A r \in Request : Conv(r) \in ConvId /\ DirOf(r) \in Dir /\ FileOf(r) \in File
  BY GatewayAssumption DEF GatewayAssumption, Conv, ConvId, DirOf, FileOf

\* What stands for nothing is neither an answer nor a process.
LEMMA NoneType == NoAnswer \notin Replies /\ NoProcess \notin Process
<1>1. NoProcess.state = "NONE"
  BY DEF NoProcess
<1>2. \A e \in Process : e.state # "NONE"
  BY DEF Process
<1>3. NoAnswer \notin Answers
  BY DEF NoAnswer, Answers
<1>4. \A p \in Prompt : NoAnswer \notin Known[p]
  BY GatewayAssumption DEF GatewayAssumption, NoAnswer
<1> QED
  BY <1>1, <1>2, <1>3, <1>4 DEF Replies

\* What a request does on arrival leaves all but its own stage, its window, its
\* context and the semantic cache alone; each outcome but "limited" is accepted.
LEMMA ArriveFacts ==
    ASSUME TypeOK, NEW r \in Request,
           \/ Reject(r) \/ AnswerFromSemanticCache(r)
           \/ AnswerFromMemory(r) \/ StartCompile(r)
    PROVE  /\ stage[r] = "new"
           /\ \E s \in {"limited", "cached", "compiling"} :
                 stage' = [stage EXCEPT ![r] = s]
           /\ UNCHANGED <<now, plan, processes, workspaces, memory, report, shared>>
<1>1. CASE Reject(r)
  BY <1>1 DEF Reject
<1>2. CASE AnswerFromSemanticCache(r)
  BY <1>2 DEF AnswerFromSemanticCache, Accept, Return
<1>3. CASE AnswerFromMemory(r)
  BY <1>3 DEF AnswerFromMemory, Accept, Return
<1>4. CASE StartCompile(r)
  BY <1>4 DEF StartCompile, Accept
<1> QED
  BY <1>1, <1>2, <1>3, <1>4

\* Dropping expired entries leaves entries.
LEMMA EvictedType ==
    ASSUME TypeOK
    PROVE  Evicted \in [Prompt -> Entries \cup {NoEntry}]
  BY DEF TypeOK, Evicted

\* A new entry is an entry.
LEMMA EntryType ==
    ASSUME TypeOK, NEW a \in Replies
    PROVE  Entry(a) \in Entries
  BY DEF TypeOK, Entry, Entries

\* A store changes one entry: that of the prompt, or one it is similar to.
LEMMA StoreFacts ==
    ASSUME NEW cache, NEW p \in Prompt, NEW a, Store(cache, p, a)
    PROVE  \E k \in Prompt : <<p, k>> \in Similar /\ semantic_cache' = [cache EXCEPT ![k] = Entry(a)]
<1> DEFINE near == {k \in Prompt : cache[k] # NoEntry /\ <<p, k>> \in Similar}
<1>1. PICK k \in IF near = {} THEN {p} ELSE near :
          semantic_cache' = [cache EXCEPT ![k] = Entry(a)]
  BY DEF Store
<1>2. k \in Prompt /\ <<p, k>> \in Similar
  BY GatewayAssumption DEF GatewayAssumption
<1> QED
  BY <1>1, <1>2

\* What memory is left with is what it had, or the answer.
LEMMA StoreMemoryFacts ==
    ASSUME TypeOK, NEW p \in Prompt, NEW a \in Replies, StoreMemory(p, a)
    PROVE  /\ memory' \in [Prompt -> SUBSET Replies]
           /\ \A k \in Prompt : \A b \in memory'[k] : b \in memory[k] \/ (k = p /\ b = a)
<1>1. PICK gone \in {{}} \cup {{b} : b \in memory[p]}, new \in {{}, {a}} :
          memory' = [memory EXCEPT ![p] = (memory[p] \ gone) \cup new]
  BY DEF StoreMemory
<1>2. memory \in [Prompt -> SUBSET Replies]
  BY DEF TypeOK
<1> DEFINE M == (memory[p] \ gone) \cup new
<1>3. M \in SUBSET Replies /\ \A b \in M : b \in memory[p] \/ b = a
  BY <1>1, <1>2
<1> HIDE DEF M
<1>4. memory' = [memory EXCEPT ![p] = M]
  BY <1>1 DEF M
<1> QED
  BY <1>2, <1>3, <1>4

\* What memory finds is an answer one of its keys has.
LEMMA FoundFacts ==
    ASSUME TypeOK, NEW p \in Prompt, NEW a \in Found(p)
    PROVE  a \in Replies /\ \E k \in Prompt : <<p, k>> \in Close /\ a \in memory[k]
  BY DEF Found, TypeOK

\* The lists hold requests, cut down or not.
LEMMA ListType ==
    ASSUME TypeOK, NEW r \in Request, Reject(r) \/ Accept(r)
    PROVE  rate_limits' \in [Session -> SUBSET Request]
<1>1. SessionOf[r] \in Session
  BY GatewayAssumption DEF GatewayAssumption
<1>2. \A s \in Session : Recent(s) \in SUBSET Request
  BY DEF Recent, TypeOK
<1>3. \/ rate_limits' = [rate_limits EXCEPT ![SessionOf[r]] = Recent(SessionOf[r])]
      \/ rate_limits' = [rate_limits EXCEPT ![SessionOf[r]] = Recent(SessionOf[r]) \cup {r}]
  BY DEF Reject, Accept
<1>4. rate_limits \in [Session -> SUBSET Request]
  BY DEF TypeOK
<1> QED
  BY <1>1, <1>2, <1>3, <1>4

\* What the semantic cache answers with is an answer.
LEMMA ResponseType ==
    TypeOK => \A k \in Prompt : semantic_cache[k] # NoEntry => semantic_cache[k].response \in Replies
  BY DEF TypeOK, Entries

\* An answer of a step of the plan.
LEMMA AnswerType ==
    ASSUME NEW r \in Request, plan[r] \in Plan
    PROVE  Answer(r) \in Answers /\ Answer(r) \in Replies
  BY OutputFacts, NodesOfFacts DEF Answer, Answers, Replies

\* The turns of one file that a return may leave.
Left(r, a) == {Append(turns[FileOf(r)], Turn(r, a)), <<Turn(r, a)>>, turns[FileOf(r)], <<>>}

\* Return ends the request and changes its conversation's file alone; unless all
\* goes well, it puts those at risk that had returned.
LEMMA ReturnFacts ==
    ASSUME TypeOK, NEW r \in Request, NEW o, NEW a \in Replies \cup {NoAnswer},
           Return(r, o, a)
    PROVE  /\ stage' = [stage EXCEPT ![r] = o]
           /\ turns' \in [File -> Seq(Turns)]
           /\ failures' \in 0..MaxFailures
           /\ \A f \in File \ {FileOf(r)} : turns'[f] = turns[f]
           /\ turns'[FileOf(r)] \in Left(r, a)
           /\ at_risk \subseteq at_risk' /\ at_risk' \subseteq Request
           /\ \/ turns'[FileOf(r)] = Append(turns[FileOf(r)], Turn(r, a))
              \/ \A q \in Request : FileOf(q) = FileOf(r) /\ (q = r \/ Returned(q)) => q \in at_risk'
<1>1. Turn(r, a) \in Turns
  BY GatewayAssumption DEF GatewayAssumption, Turn, Turns
<1>2. turns \in [File -> Seq(Turns)] /\ FileOf(r) \in File
  BY ConvType DEF TypeOK
<1>3. stage' = [stage EXCEPT ![r] = o]
  BY DEF Return
<1>4. failures \in Nat /\ MaxFailures \in Nat /\ failures \in 0..MaxFailures
  BY GatewayAssumption DEF GatewayAssumption, TypeOK
<1> DEFINE t == Turn(r, a)
<1> HIDE DEF t
<1>5. CASE /\ turns' = [turns EXCEPT ![FileOf(r)] = Append(turns[FileOf(r)], t)]
           /\ UNCHANGED <<failures, at_risk>>
  <2>1. Append(turns[FileOf(r)], t) \in Seq(Turns)
    BY <1>1, <1>2 DEF t
  <2>2. turns'[FileOf(r)] = Append(turns[FileOf(r)], t) /\ turns' \in [File -> Seq(Turns)]
    BY <1>2, <1>5, <2>1
  <2>3. turns'[FileOf(r)] \in Left(r, a)
    BY <2>2 DEF Left, t
  <2> QED
    BY <1>2, <1>3, <1>4, <1>5, <2>2, <2>3 DEF TypeOK, t
<1>6. ASSUME FileFails(r), NEW left \in {<<t>>, turns[FileOf(r)], <<>>},
             turns' = [turns EXCEPT ![FileOf(r)] = left]
      PROVE  /\ turns' \in [File -> Seq(Turns)] /\ failures' \in 0..MaxFailures
             /\ \A f \in File \ {FileOf(r)} : turns'[f] = turns[f]
             /\ turns'[FileOf(r)] \in Left(r, a)
             /\ at_risk \subseteq at_risk' /\ at_risk' \subseteq Request
             /\ \A q \in Request : FileOf(q) = FileOf(r) /\ (q = r \/ Returned(q)) => q \in at_risk'
  <2>1. left \in Seq(Turns) /\ left \in Left(r, a)
    <3>1. <<t>> \in Seq(Turns) /\ <<>> \in Seq(Turns) /\ turns[FileOf(r)] \in Seq(Turns)
      BY <1>1, <1>2 DEF t
    <3> QED
      BY <1>6, <3>1 DEF Left, t
  <2>2. failures' = failures + 1 /\ failures < MaxFailures
    BY <1>6 DEF FileFails
  <2>3. at_risk' = at_risk \cup {q \in Request : FileOf(q) = FileOf(r) /\ (q = r \/ Returned(q))}
    BY <1>6 DEF FileFails
  <2> QED
    BY <1>2, <1>4, <1>6, <2>1, <2>2, <2>3 DEF TypeOK
<1> QED
  BY <1>3, <1>5, <1>6 DEF Return, t

\* The types hold initially.
LEMMA TypeInit == Init => TypeOK
<1> SUFFICES ASSUME Init
             PROVE  TypeOK
  OBVIOUS
<1>1. 0 \in Time /\ 0 \in 0..MaxFailures
  BY GatewayAssumption DEF GatewayAssumption, Time
<1>2. memory \in [Prompt -> SUBSET Replies]
  BY DEF Init, Replies
<1>3. turns \in [File -> Seq(Turns)] /\ conv_obj \in [Request -> Seq(Turns)]
  BY DEF Init
<1> QED
  BY <1>1, <1>2, <1>3 DEF Init, TypeOK, Stage, Outcome

\* Each step keeps the types.
LEMMA TypeStep == TypeOK /\ Planned /\ [Next]_vars => TypeOK'
<1> SUFFICES ASSUME TypeOK, Planned, [Next]_vars
             PROVE  TypeOK'
  OBVIOUS
<1> USE GatewayAssumption DEF GatewayAssumption
<1>1. ASSUME NEW r \in Request, Reject(r)
      PROVE  TypeOK'
  BY <1>1, ListType DEF Reject, TypeOK, Stage
<1>2. ASSUME NEW r \in Request, AnswerFromSemanticCache(r)
      PROVE  TypeOK'
  <2>1. PICK k \in Hits(PromptOf[r]) : Return(r, "cached", semantic_cache[k].response)
    BY <1>2 DEF AnswerFromSemanticCache
  <2>2. semantic_cache[k].response \in Replies
    BY <2>1, ResponseType DEF Hits, Live
  <2>3. rate_limits' \in [Session -> SUBSET Request]
    BY <1>2, ListType DEF AnswerFromSemanticCache
  <2>4. /\ now' = now /\ arrived' = [arrived EXCEPT ![r] = now]
        /\ UNCHANGED <<plan, processes, workspaces, memory, conv_obj, report, shared>>
        /\ semantic_cache' = Evicted
    BY <1>2 DEF AnswerFromSemanticCache, Accept
  <2>5. /\ stage' = [stage EXCEPT ![r] = "cached"] /\ turns' \in [File -> Seq(Turns)]
        /\ failures' \in 0..MaxFailures /\ at_risk' \subseteq Request
    BY <2>1, <2>2, ReturnFacts
  <2> QED
    BY <2>3, <2>4, <2>5, EvictedType DEF TypeOK, Stage, Outcome
<1>3. ASSUME NEW r \in Request, AnswerFromMemory(r)
      PROVE  TypeOK'
  <2>1. PICK a \in Found(PromptOf[r]) :
           Store(Evicted, PromptOf[r], a) /\ Return(r, "cached", a)
    BY <1>3 DEF AnswerFromMemory
  <2>2. a \in Replies
    BY <2>1, FoundFacts
  <2>3. semantic_cache' \in [Prompt -> Entries \cup {NoEntry}]
    <3>1. Entry(a) \in Entries
      BY <2>2, EntryType
    <3>2. PICK k \in Prompt : semantic_cache' = [Evicted EXCEPT ![k] = Entry(a)]
      BY <2>1, StoreFacts
    <3> QED
      BY <3>1, <3>2, EvictedType
  <2>4. rate_limits' \in [Session -> SUBSET Request]
    BY <1>3, ListType DEF AnswerFromMemory
  <2>5. /\ now' = now /\ arrived' = [arrived EXCEPT ![r] = now]
        /\ UNCHANGED <<plan, processes, workspaces, memory, conv_obj, report, shared>>
    BY <1>3 DEF AnswerFromMemory, Accept
  <2>6. /\ stage' = [stage EXCEPT ![r] = "cached"] /\ turns' \in [File -> Seq(Turns)]
        /\ failures' \in 0..MaxFailures /\ at_risk' \subseteq Request
    BY <2>1, <2>2, ReturnFacts
  <2> QED
    BY <2>3, <2>4, <2>5, <2>6 DEF TypeOK, Stage, Outcome
<1>4. ASSUME NEW r \in Request, StartCompile(r)
      PROVE  TypeOK'
  <2>1. conv_obj' \in [Request -> Seq(Turns)] /\ failures' \in 0..MaxFailures
    <3>1. turns[FileOf(r)] \in Seq(Turns)
      BY ConvType DEF TypeOK
    <3>2. failures \in 0..MaxFailures /\ MaxFailures \in Nat
      BY DEF TypeOK
    <3>3. \/ conv_obj' = [conv_obj EXCEPT ![r] = turns[FileOf(r)]] /\ failures' = failures
          \/ failures < MaxFailures /\ failures' = failures + 1 /\ conv_obj' = conv_obj
      BY <1>4 DEF StartCompile
    <3>4. failures' \in 0..MaxFailures
      BY <3>2, <3>3
    <3> QED
      BY <3>1, <3>3, <3>4 DEF TypeOK
  <2>2. rate_limits' \in [Session -> SUBSET Request]
    BY <1>4, ListType DEF StartCompile
  <2>3. /\ now' = now /\ arrived' = [arrived EXCEPT ![r] = now]
        /\ UNCHANGED <<plan, processes, workspaces, memory, turns, report, shared, at_risk>>
        /\ semantic_cache' = Evicted /\ stage' = [stage EXCEPT ![r] = "compiling"]
    BY <1>4 DEF StartCompile, Accept
  <2> QED
    BY <2>1, <2>2, <2>3, EvictedType DEF TypeOK, Stage
<1>5. ASSUME NEW r \in Request, Abort(r)
      PROVE  TypeOK'
  <2>1. PICK o \in {"aborted", "failed"} : Return(r, o, NoAnswer)
    BY <1>5 DEF Abort
  <2>2. UNCHANGED <<now, rate_limits, plan, processes, workspaces, semantic_cache, memory,
                    conv_obj, report, arrived, shared>>
    BY <1>5 DEF Abort
  <2>3. /\ stage' = [stage EXCEPT ![r] = o] /\ turns' \in [File -> Seq(Turns)]
        /\ failures' \in 0..MaxFailures /\ at_risk' \subseteq Request
    BY <2>1, ReturnFacts
  <2> QED
    BY <2>1, <2>2, <2>3 DEF TypeOK, Stage, Outcome
<1>6. ASSUME NEW r \in Request, FailProvision(r) \/ Fail(r)
      PROVE  TypeOK'
  <2>1. /\ Return(r, "failed", NoAnswer) /\ workspaces' = workspaces \ {DirOf(r)}
        /\ UNCHANGED <<now, rate_limits, plan, processes, semantic_cache, memory, conv_obj,
                       report, arrived, shared>>
    BY <1>6 DEF FailProvision, Fail, deprovision_container
  <2>2. /\ stage' = [stage EXCEPT ![r] = "failed"] /\ turns' \in [File -> Seq(Turns)]
        /\ failures' \in 0..MaxFailures /\ at_risk' \subseteq Request
    BY <2>1, ReturnFacts
  <2> QED
    BY <2>1, <2>2 DEF TypeOK, Stage, Outcome
<1>7. ASSUME NEW r \in Request, Schedule(r)
      PROVE  TypeOK'
  <2>1. processes' \in [Node -> Process \cup {NoProcess}]
    BY <1>7, ConvType DEF Schedule, TypeOK, Process
  <2>2. workspaces' \subseteq Dir
    BY <1>7, ConvType DEF Schedule, TypeOK
  <2>3. shared' \subseteq Request
    BY <1>7 DEF Schedule, TypeOK, Rivals
  <2>4. plan' \in [Request -> Plan \cup {<<>>}]
    BY <1>7 DEF Schedule, TypeOK
  <2> QED
    BY <1>7, <2>1, <2>2, <2>3, <2>4 DEF Schedule, TypeOK, Stage
<1>8. ASSUME NEW r \in Request, StartNode(r)
      PROVE  TypeOK'
  BY <1>8, ConvType DEF StartNode, TypeOK
<1>9. ASSUME NEW r \in Request, Complete(r)
      PROVE  TypeOK'
  <2> plan[r] \in Plan
    BY <1>9 DEF Complete, Planned
  <2>1. Answer(r) \in Replies
    BY AnswerType
  <2>2. /\ memory' \in [Prompt -> SUBSET Replies]
        /\ semantic_cache' \in [Prompt -> Entries \cup {NoEntry}]
    <3>1. StoreMemory(PromptOf[r], Answer(r)) /\ Store(semantic_cache, PromptOf[r], Answer(r))
      BY <1>9 DEF Complete
    <3>2. PICK k \in Prompt : semantic_cache' = [semantic_cache EXCEPT ![k] = Entry(Answer(r))]
      BY <3>1, StoreFacts
    <3> QED
      BY <2>1, <3>1, <3>2, StoreMemoryFacts, EntryType DEF TypeOK
  <2>3. processes' \in [Node -> Process \cup {NoProcess}]
    BY <1>9 DEF Complete, Purged, Terminated, TypeOK, Process
  <2>4. /\ Return(r, "completed", Answer(r)) /\ workspaces' = workspaces \ {DirOf(r)}
        /\ UNCHANGED <<now, rate_limits, plan, conv_obj, arrived, shared>>
    BY <1>9 DEF Complete, deprovision_container
  <2>5. report' \in [Request -> SUBSET Line]
    <3>1. ASSUME NEW n \in Children(r)
          PROVE  <<n, Terminated(r)[n].state>> \in Line
      <4>1. n \in Node /\ processes[n] \in Process
        BY ConvType DEF Children, TypeOK, NoProcess, ConvId
      <4>2. Terminated(r)[n].state \in {"EXECUTING", "TERMINATED"}
        BY <4>1 DEF Terminated, Process
      <4> QED
        BY <4>1, <4>2 DEF Line
    <3>2. {<<n, Terminated(r)[n].state>> : n \in Children(r)} \in SUBSET Line
      BY <3>1
    <3> QED
      BY <1>9, <3>2 DEF Complete, TypeOK
  <2>6. /\ stage' = [stage EXCEPT ![r] = "completed"] /\ turns' \in [File -> Seq(Turns)]
        /\ failures' \in 0..MaxFailures /\ at_risk' \subseteq Request
    BY <2>1, <2>4, ReturnFacts
  <2> QED
    BY <2>2, <2>3, <2>4, <2>5, <2>6 DEF TypeOK, Stage, Outcome
<1>10. CASE Tick
  BY <1>10 DEF Tick, TypeOK, Time
<1>11. CASE UNCHANGED vars
  BY <1>11 DEF vars, TypeOK
<1> QED
  BY <1>1, <1>2, <1>3, <1>4, <1>5, <1>6, <1>7, <1>8, <1>9, <1>10, <1>11 DEF Next

\* What becomes of stages and plans, and nothing else of them.
LEMMA StageFacts ==
    ASSUME TypeOK, [Next]_vars
    PROVE  \/ stage' = stage /\ plan' = plan
           \/ \E r \in Request :
                 /\ \E s \in Stage : stage' = [stage EXCEPT ![r] = s]
                 /\ \/ /\ stage[r] \in {"new", "compiling"} /\ plan' = plan
                       /\ stage'[r] \notin {"new", "scheduling", "completed"}
                    \/ /\ stage[r] = "compiling" /\ stage'[r] = "scheduling"
                       /\ \E p \in Plan : plan' = [plan EXCEPT ![r] = p]
                    \/ /\ stage[r] = "scheduling" /\ plan' = plan
                       /\ stage'[r] \in {"completed", "failed"}
<1> USE DEF Stage, Outcome
<1>0. stage \in [Request -> Stage] /\ plan \in [Request -> Plan \cup {<<>>}]
  BY DEF TypeOK
<1>1. ASSUME NEW r \in Request,
             \/ Reject(r) \/ AnswerFromSemanticCache(r)
             \/ AnswerFromMemory(r) \/ StartCompile(r)
      PROVE  /\ stage[r] = "new" /\ plan' = plan
             /\ \E s \in {"limited", "cached", "compiling"} :
                   stage' = [stage EXCEPT ![r] = s]
  BY <1>1, ArriveFacts
<1>2. ASSUME NEW r \in Request, Abort(r) \/ FailProvision(r)
      PROVE  /\ stage[r] = "compiling" /\ plan' = plan
             /\ \E s \in {"aborted", "failed"} : stage' = [stage EXCEPT ![r] = s]
  BY <1>2 DEF Abort, FailProvision, deprovision_container, Return
<1>3. ASSUME NEW r \in Request, Schedule(r)
      PROVE  /\ stage[r] = "compiling" /\ stage' = [stage EXCEPT ![r] = "scheduling"]
             /\ \E p \in Plan : plan' = [plan EXCEPT ![r] = p]
  BY <1>3 DEF Schedule
<1>4. ASSUME NEW r \in Request, Complete(r) \/ Fail(r)
      PROVE  /\ stage[r] = "scheduling" /\ plan' = plan
             /\ \E s \in {"completed", "failed"} : stage' = [stage EXCEPT ![r] = s]
  BY <1>4 DEF Complete, Fail, deprovision_container, Return
<1>5. CASE Tick \/ UNCHANGED vars \/ \E r \in Request : StartNode(r)
  BY <1>5 DEF Tick, StartNode, vars
<1> QED
  BY <1>0, <1>1, <1>2, <1>3, <1>4, <1>5 DEF Next

\* Each step keeps the plans where they belong.
LEMMA PlannedStep == TypeOK /\ Planned /\ [Next]_vars => Planned'
  BY StageFacts DEF TypeOK, Planned

\* THEOREM: every variable stays in its range, for every set of requests.
THEOREM TypeCorrect == Spec => []TypeOK
<1>1. Init => TypeOK /\ Planned
  BY TypeInit DEF Init, Planned
<1>2. TypeOK /\ Planned /\ [Next]_vars => (TypeOK /\ Planned)'
  BY TypeStep, PlannedStep
<1> QED
  BY <1>1, <1>2, PTL DEF Spec

-----------------------------------------------------------------------------
(* Registry and workspaces.                                                *)

\* Which steps change the registry and the workspaces, and how: all others
\* leave a request that holds entries as it was.
LEMMA HolderFacts ==
    ASSUME TypeOK, [Next]_vars
    PROVE  \/ /\ processes' = processes /\ shared' = shared
              /\ workspaces' \subseteq workspaces
                    \cup {DirOf(r) : r \in {q \in Request : stage[q] = "scheduling"}}
              /\ \A q \in Request :
                    /\ stage[q] \in {"completed", "failed"} => stage'[q] = stage[q]
                    /\ stage[q] = "scheduling" =>
                          \/ stage'[q] = "scheduling"
                          \/ stage'[q] = "failed" /\ DirOf(q) \notin workspaces'
                    /\ stage'[q] \in {"scheduling", "completed"} => stage[q] = stage'[q]
              /\ plan' = plan /\ report' = report
           \/ \E r \in Request : Schedule(r)
           \/ \E r \in Request : Complete(r)
<1> USE DEF TypeOK, Stage, Outcome
<1>1. ASSUME NEW r \in Request,
             \/ Reject(r) \/ AnswerFromSemanticCache(r)
             \/ AnswerFromMemory(r) \/ StartCompile(r)
      PROVE  /\ stage[r] = "new"
             /\ UNCHANGED <<plan, processes, workspaces, report, shared>>
             /\ \E s \in {"limited", "cached", "compiling"} :
                   stage' = [stage EXCEPT ![r] = s]
  BY <1>1, ArriveFacts
<1>2. ASSUME NEW r \in Request, Abort(r) \/ FailProvision(r)
      PROVE  /\ stage[r] = "compiling"
             /\ UNCHANGED <<plan, processes, report, shared>>
             /\ workspaces' \subseteq workspaces
             /\ \E s \in {"aborted", "failed"} : stage' = [stage EXCEPT ![r] = s]
  BY <1>2 DEF Abort, FailProvision, deprovision_container, Return
<1>3. ASSUME NEW r \in Request, StartNode(r)
      PROVE  /\ stage[r] = "scheduling"
             /\ UNCHANGED <<stage, plan, processes, report, shared>>
             /\ workspaces' = workspaces \cup {DirOf(r)}
  BY <1>3 DEF StartNode
<1>4. ASSUME NEW r \in Request, Fail(r)
      PROVE  /\ stage[r] = "scheduling"
             /\ UNCHANGED <<plan, processes, report, shared>>
             /\ workspaces' = workspaces \ {DirOf(r)}
             /\ stage' = [stage EXCEPT ![r] = "failed"]
  BY <1>4 DEF Fail, deprovision_container, Return
<1>5. CASE Tick \/ UNCHANGED vars
  BY <1>5 DEF Tick, vars
<1> QED
  BY <1>1, <1>2, <1>3, <1>4, <1>5 DEF Next

\* Each step leaves the registry's entries their owners.
LEMMA OwnersStep == TypeOK /\ EntriesHaveOwners /\ [Next]_vars => EntriesHaveOwners'
<1> SUFFICES ASSUME TypeOK, EntriesHaveOwners, [Next]_vars,
                    NEW n \in Node, processes'[n] # NoProcess
             PROVE  \E r \in Request : /\ Conv(r) = processes'[n].parent_id
                                       /\ n \in NodesOf(plan'[r])
                                       /\ stage'[r] \in {"scheduling", "failed"}
  BY DEF EntriesHaveOwners
<1>1. ASSUME NEW r \in Request, Schedule(r)
      PROVE  \E q \in Request : /\ Conv(q) = processes'[n].parent_id
                                /\ n \in NodesOf(plan'[q])
                                /\ stage'[q] \in {"scheduling", "failed"}
  <2>1. PICK p \in Plan :
          /\ plan' = [plan EXCEPT ![r] = p]
          /\ processes' = [m \in Node |->
                 IF m \in NodesOf(p) THEN [parent_id |-> Conv(r), state |-> "EXECUTING"]
                 ELSE processes[m]]
    BY <1>1 DEF Schedule
  <2>2. stage' = [stage EXCEPT ![r] = "scheduling"] /\ stage[r] = "compiling"
    BY <1>1 DEF Schedule
  <2>3. CASE n \in NodesOf(p)
    BY <2>1, <2>2, <2>3 DEF TypeOK
  <2>4. CASE n \notin NodesOf(p)
    <3>1. processes'[n] = processes[n]
      BY <2>1, <2>4
    <3>2. PICK q \in Request : /\ Conv(q) = processes[n].parent_id
                               /\ n \in NodesOf(plan[q])
                               /\ stage[q] \in {"scheduling", "failed"}
      BY <3>1 DEF EntriesHaveOwners
    <3>3. q # r
      BY <2>2, <3>2
    <3>4. plan'[q] = plan[q] /\ stage'[q] = stage[q]
      BY <2>1, <2>2, <3>3 DEF TypeOK
    <3> QED
      BY <3>1, <3>2, <3>4
  <2> QED
    BY <2>3, <2>4
<1>2. ASSUME NEW r \in Request, Complete(r)
      PROVE  \E q \in Request : /\ Conv(q) = processes'[n].parent_id
                                /\ n \in NodesOf(plan'[q])
                                /\ stage'[q] \in {"scheduling", "failed"}
  <2>1. n \notin Children(r) /\ processes'[n] = Terminated(r)[n]
    BY <1>2 DEF Complete, deprovision_container, Purged
  <2>2. processes[n] # NoProcess /\ processes'[n].parent_id = processes[n].parent_id
    BY <2>1 DEF Terminated, TypeOK, Process
  <2>3. processes[n].parent_id # Conv(r)
    BY <2>1 DEF Children
  <2>4. PICK q \in Request : /\ Conv(q) = processes[n].parent_id
                             /\ n \in NodesOf(plan[q])
                             /\ stage[q] \in {"scheduling", "failed"}
    BY <2>2 DEF EntriesHaveOwners
  <2>5. plan' = plan /\ stage'[q] = stage[q]
    BY <1>2, <2>3, <2>4 DEF Complete, deprovision_container, Return, TypeOK
  <2> QED
    BY <2>2, <2>4, <2>5
<1>3. CASE /\ processes' = processes /\ plan' = plan
           /\ \A q \in Request :
                 /\ stage[q] = "failed" => stage'[q] = stage[q]
                 /\ stage[q] = "scheduling" => stage'[q] \in {"scheduling", "failed"}
  BY <1>3 DEF EntriesHaveOwners
<1> QED
  BY <1>1, <1>2, <1>3, HolderFacts

\* THEOREM: each process in the registry belongs to a request that runs it or
\* failed after registering it.
THEOREM RegistryCorrect == Spec => []EntriesHaveOwners
<1>1. Init => EntriesHaveOwners
  BY DEF Init, EntriesHaveOwners
<1> QED
  BY <1>1, TypeCorrect, OwnersStep, PTL DEF Spec

\* Each step that ends a request removes its directory, or leaves it to a sibling.
LEMMA WorkspaceStep == TypeOK /\ NoWorkspaceLeft /\ [Next]_vars => NoWorkspaceLeft'
<1> SUFFICES ASSUME TypeOK, NoWorkspaceLeft, [Next]_vars, NEW c \in workspaces'
             PROVE  \E r \in Request : stage'[r] = "scheduling" /\ DirOf(r) = c
  BY DEF NoWorkspaceLeft
<1> DEFINE Held(d) == \E r \in Request : stage[r] = "scheduling" /\ DirOf(r) = d
<1>1. \A d \in workspaces : Held(d)
  BY DEF NoWorkspaceLeft
<1>2. ASSUME NEW r \in Request, Schedule(r)
      PROVE  \E q \in Request : stage'[q] = "scheduling" /\ DirOf(q) = c
  <2>1. c \in workspaces \/ c = DirOf(r)
    BY <1>2 DEF Schedule
  <2>2. stage' = [stage EXCEPT ![r] = "scheduling"]
    BY <1>2 DEF Schedule
  <2> QED
    BY <1>1, <2>1, <2>2 DEF TypeOK
<1>3. ASSUME NEW r \in Request, Complete(r)
      PROVE  \E q \in Request : stage'[q] = "scheduling" /\ DirOf(q) = c
  <2>1. c \in workspaces /\ c # DirOf(r)
    BY <1>3 DEF Complete, deprovision_container
  <2>2. PICK q \in Request : stage[q] = "scheduling" /\ DirOf(q) = c
    BY <1>1, <2>1
  <2>3. stage'[q] = stage[q]
    BY <1>3, <2>1, <2>2 DEF Complete, deprovision_container, Return, TypeOK
  <2> QED
    BY <2>2, <2>3
<1>4. CASE /\ workspaces' \subseteq workspaces
                 \cup {DirOf(r) : r \in {q \in Request : stage[q] = "scheduling"}}
           /\ \A q \in Request : stage[q] = "scheduling" =>
                 \/ stage'[q] = "scheduling"
                 \/ DirOf(q) \notin workspaces'
  <2>1. PICK q \in Request : stage[q] = "scheduling" /\ DirOf(q) = c
    BY <1>1, <1>4
  <2> QED
    BY <1>4, <2>1
<1> QED
  BY <1>2, <1>3, <1>4, HolderFacts

\* THEOREM: a directory is named by the conversation of a request being scheduled.
THEOREM WorkspacesCorrect == Spec => []NoWorkspaceLeft
<1>1. Init => NoWorkspaceLeft
  BY DEF Init, NoWorkspaceLeft
<1> QED
  BY <1>1, TypeCorrect, WorkspaceStep, PTL DEF Spec

-----------------------------------------------------------------------------
(* Reports.                                                                *)

\* A request being scheduled that met no rival holds the entries of its steps,
\* and no other request being scheduled has its conversation or its names.
Undisturbed ==
    \A r \in Request : stage[r] = "scheduling" /\ r \notin shared =>
        /\ \A n \in NodesOf(plan[r]) : processes[n].parent_id = Conv(r)
        /\ \A q \in Request \ {r} : stage[q] = "scheduling" =>
              Conv(q) # Conv(r) /\ NodesOf(plan[q]) \cap NodesOf(plan[r]) = {}

\* A request that has met no rival keeps its entries.
LEMMA UndisturbedStep == TypeOK /\ Undisturbed /\ [Next]_vars => Undisturbed'
<1> SUFFICES ASSUME TypeOK, Undisturbed, [Next]_vars,
                    NEW r \in Request, stage'[r] = "scheduling", r \notin shared'
             PROVE  /\ \A n \in NodesOf(plan'[r]) : processes'[n].parent_id = Conv(r)
                    /\ \A q \in Request \ {r} : stage'[q] = "scheduling" =>
                          /\ Conv(q) # Conv(r)
                          /\ NodesOf(plan'[q]) \cap NodesOf(plan'[r]) = {}
  BY DEF Undisturbed, NodesOf, Conv
<1>1. ASSUME NEW s \in Request, Schedule(s)
      PROVE  /\ \A n \in NodesOf(plan'[r]) : processes'[n].parent_id = Conv(r)
             /\ \A q \in Request \ {r} : stage'[q] = "scheduling" =>
                   /\ Conv(q) # Conv(r)
                   /\ NodesOf(plan'[q]) \cap NodesOf(plan'[r]) = {}
  <2>1. PICK p \in Plan :
          /\ plan' = [plan EXCEPT ![s] = p]
          /\ processes' = [m \in Node |->
                 IF m \in NodesOf(p) THEN [parent_id |-> Conv(s), state |-> "EXECUTING"]
                 ELSE processes[m]]
          /\ shared' = IF Rivals(s, p) = {} THEN shared
                       ELSE shared \cup {s} \cup Rivals(s, p)
    BY <1>1 DEF Schedule
  <2>2. stage' = [stage EXCEPT ![s] = "scheduling"] /\ stage[s] = "compiling"
    BY <1>1 DEF Schedule
  <2>3. /\ \A q \in Request \ {s} : stage'[q] = stage[q] /\ plan'[q] = plan[q]
        /\ plan'[s] = p
    BY <2>1, <2>2 DEF TypeOK
  <2>4. \A q \in Request : NodesOf(plan'[q]) \subseteq Node
    BY DEF NodesOf
  <2>5. CASE r = s
    <3>1. Rivals(s, p) = {}
      BY <2>1, <2>5
    <3>2. \A n \in NodesOf(plan'[r]) : processes'[n].parent_id = Conv(r)
      BY <2>1, <2>3, <2>4, <2>5
    <3>3. ASSUME NEW q \in Request \ {r}, stage'[q] = "scheduling"
          PROVE  Conv(q) # Conv(r) /\ NodesOf(plan'[q]) \cap NodesOf(plan'[r]) = {}
      BY <2>3, <2>5, <3>1, <3>3 DEF Rivals
    <3> QED
      BY <3>2, <3>3
  <2>6. CASE r # s
    <3>1. stage[r] = "scheduling" /\ r \notin shared /\ r \notin Rivals(s, p)
      BY <2>1, <2>3, <2>6
    <3>2. Conv(r) # Conv(s) /\ NodesOf(plan[r]) \cap NodesOf(p) = {}
      BY <2>6, <3>1 DEF Rivals
    <3>3. \A n \in NodesOf(plan'[r]) : processes'[n].parent_id = Conv(r)
      BY <2>1, <2>3, <2>4, <2>6, <3>1, <3>2 DEF Undisturbed
    <3>4. ASSUME NEW q \in Request \ {r}, stage'[q] = "scheduling"
          PROVE  Conv(q) # Conv(r) /\ NodesOf(plan'[q]) \cap NodesOf(plan'[r]) = {}
      BY <2>3, <2>6, <3>1, <3>2, <3>4 DEF Undisturbed
    <3> QED
      BY <3>3, <3>4
  <2> QED
    BY <2>5, <2>6
<1>2. ASSUME NEW s \in Request, Complete(s)
      PROVE  /\ \A n \in NodesOf(plan'[r]) : processes'[n].parent_id = Conv(r)
             /\ \A q \in Request \ {r} : stage'[q] = "scheduling" =>
                   /\ Conv(q) # Conv(r)
                   /\ NodesOf(plan'[q]) \cap NodesOf(plan'[r]) = {}
  <2>1. /\ plan' = plan /\ shared' = shared
        /\ stage[s] = "scheduling" /\ stage'[s] = "completed"
        /\ \A q \in Request \ {s} : stage'[q] = stage[q]
    BY <1>2 DEF Complete, deprovision_container, Return, TypeOK
  <2>2. r # s /\ stage[r] = "scheduling" /\ r \notin shared
    BY <2>1
  <2>3. Conv(s) # Conv(r)
    BY <2>1, <2>2 DEF Undisturbed
  <2>4. ASSUME NEW n \in NodesOf(plan'[r])
        PROVE  processes'[n].parent_id = Conv(r)
    <3>1. n \in Node /\ processes[n].parent_id = Conv(r)
      BY <2>1, <2>2 DEF Undisturbed, NodesOf
    <3>2. n \notin Children(s)
      BY <2>3, <3>1 DEF Children
    <3>3. processes'[n] = Terminated(s)[n]
      BY <1>2, <3>1, <3>2 DEF Complete, deprovision_container, Purged
    <3> QED
      BY <3>1, <3>3 DEF Terminated, TypeOK, Process
  <2> QED
    BY <2>1, <2>2, <2>4 DEF Undisturbed
<1>3. CASE /\ processes' = processes /\ plan' = plan /\ shared' = shared
           /\ \A q \in Request : stage'[q] = "scheduling" => stage[q] = stage'[q]
  BY <1>3 DEF Undisturbed
<1> QED
  BY <1>1, <1>2, <1>3, HolderFacts

\* The report of a request that met no rival is made of its own entries.
LEMMA ReportsStep ==
    TypeOK /\ EntriesHaveOwners /\ Undisturbed /\ ReportsCoverOwnNodes /\ [Next]_vars
        => ReportsCoverOwnNodes'
<1> SUFFICES ASSUME TypeOK, EntriesHaveOwners, Undisturbed, ReportsCoverOwnNodes,
                    [Next]_vars,
                    NEW r \in Request, stage'[r] = "completed", r \notin shared'
             PROVE  /\ \A n \in NodesOf(plan'[r]) : <<n, "TERMINATED">> \in report'[r]
                    /\ \A e \in report'[r] : e[1] \notin NodesOf(plan'[r]) =>
                          \E q \in Request : /\ stage'[q] = "failed" /\ Conv(q) = Conv(r)
                                             /\ e[1] \in NodesOf(plan'[q])
  BY DEF ReportsCoverOwnNodes, NodesOf, Conv
<1>1. CASE /\ stage[r] = "completed" /\ r \notin shared
           /\ report'[r] = report[r] /\ plan'[r] = plan[r]
           /\ \A q \in Request : stage[q] = "failed" =>
                 stage'[q] = "failed" /\ plan'[q] = plan[q]
  BY <1>1 DEF ReportsCoverOwnNodes
<1>2. ASSUME NEW s \in Request, Schedule(s)
      PROVE  /\ stage[r] = "completed" /\ r \notin shared
             /\ report'[r] = report[r] /\ plan'[r] = plan[r]
             /\ \A q \in Request : stage[q] = "failed" =>
                   stage'[q] = "failed" /\ plan'[q] = plan[q]
  <2>1. stage' = [stage EXCEPT ![s] = "scheduling"] /\ stage[s] = "compiling"
    BY <1>2 DEF Schedule
  <2>2. \E p \in Plan : plan' = [plan EXCEPT ![s] = p]
    BY <1>2 DEF Schedule
  <2>3. report' = report /\ shared \subseteq shared'
    BY <1>2 DEF Schedule
  <2> QED
    BY <2>1, <2>2, <2>3 DEF TypeOK
<1>3. ASSUME NEW s \in Request, Complete(s), r # s
      PROVE  /\ stage[r] = "completed" /\ r \notin shared
             /\ report'[r] = report[r] /\ plan'[r] = plan[r]
             /\ \A q \in Request : stage[q] = "failed" =>
                   stage'[q] = "failed" /\ plan'[q] = plan[q]
  BY <1>3 DEF Complete, deprovision_container, Return, TypeOK
<1>4. ASSUME Complete(r)
      PROVE  /\ \A n \in NodesOf(plan'[r]) : <<n, "TERMINATED">> \in report'[r]
             /\ \A e \in report'[r] : e[1] \notin NodesOf(plan'[r]) =>
                   \E q \in Request : /\ stage'[q] = "failed" /\ Conv(q) = Conv(r)
                                      /\ e[1] \in NodesOf(plan'[q])
  <2>1. /\ plan' = plan /\ shared' = shared /\ stage[r] = "scheduling"
        /\ \A q \in Request \ {r} : stage'[q] = stage[q]
    BY <1>4 DEF Complete, deprovision_container, Return, TypeOK
  <2>2. report'[r] = {<<n, Terminated(r)[n].state>> : n \in Children(r)}
    BY <1>4 DEF Complete, deprovision_container, TypeOK
  <2>3. Conv(r) # NoConversation
    BY ConvType, GatewayAssumption DEF GatewayAssumption, ConvId
  <2>4. ASSUME NEW n \in NodesOf(plan'[r])
        PROVE  <<n, "TERMINATED">> \in report'[r]
    <3>1. n \in NodesOf(plan[r]) /\ n \in Node /\ processes[n].parent_id = Conv(r)
      BY <2>1 DEF Undisturbed, NodesOf
    <3>2. n \in Children(r) /\ processes[n] # NoProcess
      BY <2>3, <3>1 DEF Children, NoProcess
    <3>3. Terminated(r)[n] = [processes[n] EXCEPT !.state = "TERMINATED"]
      BY <3>1, <3>2 DEF Terminated
    <3>4. Terminated(r)[n].state = "TERMINATED"
      BY <3>1, <3>2, <3>3 DEF TypeOK, Process
    <3> QED
      BY <2>2, <3>2, <3>4
  <2>5. ASSUME NEW e \in report'[r], e[1] \notin NodesOf(plan'[r])
        PROVE  \E q \in Request : /\ stage'[q] = "failed" /\ Conv(q) = Conv(r)
                                  /\ e[1] \in NodesOf(plan'[q])
    <3>1. e[1] \in Node /\ processes[e[1]].parent_id = Conv(r)
      BY <2>2 DEF Children
    <3>2. processes[e[1]] # NoProcess
      BY <2>3, <3>1 DEF NoProcess
    <3>3. PICK q \in Request : /\ Conv(q) = Conv(r) /\ e[1] \in NodesOf(plan[q])
                               /\ stage[q] \in {"scheduling", "failed"}
      BY <3>1, <3>2 DEF EntriesHaveOwners
    <3>4. q # r
      BY <2>1, <2>5, <3>3
    <3>5. stage[q] # "scheduling"
      BY <2>1, <3>3, <3>4 DEF Undisturbed
    <3> QED
      BY <2>1, <3>3, <3>4, <3>5
  <2> QED
    BY <2>4, <2>5
<1>5. CASE /\ shared' = shared /\ plan' = plan /\ report' = report
           /\ \A q \in Request :
                 /\ stage[q] = "failed" => stage'[q] = stage[q]
                 /\ stage'[q] = "completed" => stage[q] = stage'[q]
  BY <1>5 DEF ReportsCoverOwnNodes
<1> QED
  BY <1>1, <1>2, <1>3, <1>4, <1>5, HolderFacts

\* THEOREM: a completed request that met no rival lists its steps as terminated,
\* and beside them only what a failed request of its conversation left.
THEOREM ReportsCorrect == Spec => []ReportsCoverOwnNodes
<1>1. Init => Undisturbed /\ ReportsCoverOwnNodes
  BY DEF Init, Undisturbed, ReportsCoverOwnNodes
<1>2. TypeOK /\ EntriesHaveOwners /\ Undisturbed /\ ReportsCoverOwnNodes /\ [Next]_vars
          => (Undisturbed /\ ReportsCoverOwnNodes)'
  BY UndisturbedStep, ReportsStep
<1> QED
  BY <1>1, <1>2, TypeCorrect, RegistryCorrect, PTL DEF Spec

-----------------------------------------------------------------------------
(* Caches.                                                                 *)

\* A completed request stays one, with its plan.
LEMMA CompletedStep ==
    ASSUME TypeOK, [Next]_vars, NEW q \in Request, stage[q] = "completed"
    PROVE  stage'[q] = "completed" /\ plan'[q] = plan[q]
  BY StageFacts DEF TypeOK

\* An answer for a prompt stays one.
LEMMA AnswerForStep ==
    ASSUME TypeOK, [Next]_vars, NEW a, NEW p \in Prompt, AnswerFor(a, p)
    PROVE  AnswerFor(a, p)'
<1>1. CASE a \in Known[p]
  BY <1>1 DEF AnswerFor
<1>2. CASE a \in Answers /\ stage[a.by] = "completed"
  <2>1. stage'[a.by] = "completed" /\ plan'[a.by] = plan[a.by]
    BY <1>2, CompletedStep DEF Answers
  <2> QED
    BY <1>2, <2>1 DEF AnswerFor, NodesOf
<1> QED
  BY <1>1, <1>2 DEF AnswerFor

\* An entry is for a prompt similar to its own, or for a key close to it.
EntryFor(k, a) ==
    \E p \in Prompt : /\ <<p, k>> \in Similar \/ <<k, p>> \in Close
                      /\ AnswerFor(a, p)

\* An answer an entry may have stays one.
LEMMA EntryForStep ==
    ASSUME TypeOK, [Next]_vars, NEW k \in Prompt, NEW a, EntryFor(k, a)
    PROVE  EntryFor(k, a)'
<1>1. PICK p \in Prompt : (<<p, k>> \in Similar \/ <<k, p>> \in Close) /\ AnswerFor(a, p)
  BY DEF EntryFor
<1>2. AnswerFor(a, p)'
  BY <1>1, AnswerForStep
<1> QED
  BY <1>1, <1>2 DEF EntryFor

\* What memory or the semantic cache has keeps its warrant, expired entries dropped
\* or not.
LEMMA HeldStep ==
    ASSUME TypeOK, CachesHoldAnswers, [Next]_vars, NEW k \in Prompt
    PROVE  /\ \A a \in memory[k] : AnswerFor(a, k)'
           /\ \A e \in {semantic_cache[k], Evicted[k]} \ {NoEntry} : EntryFor(k, e.response)'
<1>1. ASSUME NEW a \in memory[k]
      PROVE  AnswerFor(a, k)'
  <2>1. AnswerFor(a, k)
    BY DEF CachesHoldAnswers
  <2> QED
    BY <2>1, AnswerForStep
<1>2. ASSUME NEW e \in {semantic_cache[k], Evicted[k]} \ {NoEntry}
      PROVE  EntryFor(k, e.response)'
  <2>1. semantic_cache[k] # NoEntry /\ e = semantic_cache[k]
    BY DEF Evicted
  <2>2. EntryFor(k, e.response)
    BY <2>1 DEF CachesHoldAnswers, EntryFor
  <2> QED
    BY <2>2, EntryForStep
<1> QED
  BY <1>1, <1>2

\* What enters a cache is the answer of a request that completes, or, where no entry
\* of the semantic cache is similar, what memory found.
LEMMA CachesStep == TypeOK /\ Planned /\ CachesHoldAnswers /\ [Next]_vars => CachesHoldAnswers'
<1> SUFFICES ASSUME TypeOK, Planned, CachesHoldAnswers, [Next]_vars, NEW k \in Prompt
             PROVE  /\ \A a \in memory'[k] : AnswerFor(a, k)'
                    /\ (semantic_cache[k] # NoEntry => EntryFor(k, semantic_cache[k].response))'
  BY DEF CachesHoldAnswers, EntryFor
<1>1. ASSUME NEW r \in Request, Complete(r)
      PROVE  /\ \A a \in memory'[k] : AnswerFor(a, k)'
             /\ (semantic_cache[k] # NoEntry => EntryFor(k, semantic_cache[k].response))'
  <2> DEFINE p == PromptOf[r]
  <2>0. PICK b : b = Answer(r)
    OBVIOUS
  <2>1. /\ plan[r] \in Plan /\ p \in Prompt
        /\ StoreMemory(p, b) /\ Store(semantic_cache, p, b)
        /\ plan' = plan /\ stage' = [stage EXCEPT ![r] = "completed"]
    BY <1>1, <2>0, GatewayAssumption DEF Complete, Return, Planned, GatewayAssumption
  <2>2. b \in Answers /\ b \in Replies /\ b.by = r /\ b.node = OutputNode(plan[r])
    BY <2>0, <2>1, AnswerType DEF Answer
  <2>3. AnswerFor(b, p)'
    <3>1. stage'[r] = "completed" /\ plan'[r] = plan[r]
      BY <2>1 DEF TypeOK
    <3>2. b.node \in Verification => NodesOf(plan[r]) \subseteq Verification
      BY <2>1, <2>2, OutputFacts
    <3>3. PromptOf[b.by] = p
      BY <2>2
    <3> HIDE DEF p
    <3> QED
      BY <2>2, <3>1, <3>2, <3>3 DEF AnswerFor, NodesOf
  <2> HIDE DEF p
  <2>4. ASSUME NEW a \in memory'[k]
        PROVE  AnswerFor(a, k)'
    <3>1. a \in memory[k] \/ (k = p /\ a = b)
      BY <2>1, <2>2, StoreMemoryFacts
    <3> QED
      BY <2>3, <3>1, HeldStep
  <2>5. PICK c \in Prompt : /\ <<p, c>> \in Similar
                            /\ semantic_cache' = [semantic_cache EXCEPT ![c] = Entry(b)]
    BY <2>1, StoreFacts
  <2>6. EntryFor(c, b)'
    BY <2>1, <2>3, <2>5 DEF EntryFor
  <2>7. CASE k = c
    <3>1. semantic_cache'[k].response = b
      BY <2>5, <2>7 DEF TypeOK, Entry
    <3> QED
      BY <2>4, <2>6, <2>7, <3>1
  <2>8. CASE k # c
    <3>1. semantic_cache'[k] = semantic_cache[k]
      BY <2>5, <2>8 DEF TypeOK
    <3> QED
      BY <2>4, <3>1, HeldStep
  <2> QED
    BY <2>7, <2>8
<1>2. ASSUME NEW r \in Request, AnswerFromMemory(r)
      PROVE  /\ \A a \in memory'[k] : AnswerFor(a, k)'
             /\ (semantic_cache[k] # NoEntry => EntryFor(k, semantic_cache[k].response))'
  <2> DEFINE p == PromptOf[r]
  <2>1. PICK b \in Found(p) : Store(Evicted, p, b)
    BY <1>2 DEF AnswerFromMemory
  <2>2. p \in Prompt /\ Hits(p) = {} /\ memory' = memory
    BY <1>2, GatewayAssumption DEF AnswerFromMemory, Accept, GatewayAssumption
  <2> HIDE DEF p
  <2>3. \A q \in Prompt : <<p, q>> \in Similar => Evicted[q] = NoEntry
    BY <2>2 DEF Hits, Evicted
  <2>4. semantic_cache' = [Evicted EXCEPT ![p] = Entry(b)]
    BY <2>1, <2>3 DEF Store
  <2>5. PICK q \in Prompt : <<p, q>> \in Close /\ b \in memory[q]
    BY <2>1, <2>2, FoundFacts
  <2>6. EntryFor(p, b)'
    <3>1. AnswerFor(b, q)'
      BY <2>5, HeldStep
    <3> QED
      BY <2>5, <3>1 DEF EntryFor
  <2>7. \A a \in memory'[k] : AnswerFor(a, k)'
    BY <2>2, HeldStep
  <2>8. CASE k = p
    <3>1. semantic_cache'[k].response = b
      BY <2>4, <2>8, EvictedType DEF Entry
    <3> QED
      BY <2>6, <2>7, <2>8, <3>1
  <2>9. CASE k # p
    <3>1. semantic_cache'[k] = Evicted[k]
      BY <2>4, <2>9, EvictedType
    <3> QED
      BY <2>7, <3>1, HeldStep
  <2> QED
    BY <2>8, <2>9
<1>3. CASE memory' = memory /\ semantic_cache' \in {semantic_cache, Evicted}
  <2>1. semantic_cache'[k] \in {semantic_cache[k], Evicted[k]}
    BY <1>3
  <2> QED
    BY <1>3, <2>1, HeldStep
<1>4. ASSUME NEW r \in Request,
             \/ Reject(r) \/ AnswerFromSemanticCache(r) \/ StartCompile(r) \/ Abort(r)
             \/ FailProvision(r) \/ Schedule(r) \/ StartNode(r) \/ Fail(r)
      PROVE  memory' = memory /\ semantic_cache' \in {semantic_cache, Evicted}
  BY <1>4 DEF Reject, AnswerFromSemanticCache, StartCompile, Accept, Abort,
              FailProvision, Schedule, StartNode, Fail
<1>5. CASE Tick \/ UNCHANGED vars
  BY <1>3, <1>5 DEF Tick, vars
<1> QED
  BY <1>1, <1>2, <1>3, <1>4, <1>5 DEF Next

\* THEOREM: what the caches hold for a prompt or a key was known when the gateway
\* started or computed for a prompt the code takes for it, by a step that does the
\* work if the plan has one; entries that renew each other do not make answers drift.
THEOREM CachesCorrect == Spec => []CachesHoldAnswers
<1>1. Init => TypeOK /\ Planned /\ CachesHoldAnswers
  BY TypeInit DEF Init, Planned, CachesHoldAnswers, AnswerFor
<1>2. TypeOK /\ Planned /\ CachesHoldAnswers /\ [Next]_vars
          => (TypeOK /\ Planned /\ CachesHoldAnswers)'
  BY TypeStep, PlannedStep, CachesStep
<1> QED
  BY <1>1, <1>2, PTL DEF Spec

-----------------------------------------------------------------------------
(* Conversations.                                                          *)

\* Either a request returns and leaves its file with a turn or without, or neither
\* files nor returned requests change.
LEMMA TurnFacts ==
    ASSUME TypeOK, Planned, [Next]_vars
    PROVE  \/ /\ turns' = turns /\ at_risk' = at_risk
              /\ \A q \in Request : Returned(q)' <=> Returned(q)
           \/ \E r \in Request, o \in Outcome, a \in Replies \cup {NoAnswer} :
                 ~Returned(r) /\ Return(r, o, a)
<1> USE DEF Stage, Outcome, Returned
<1>1. ASSUME NEW r \in Request,
             \/ Reject(r) \/ StartCompile(r) \/ Schedule(r) \/ StartNode(r)
      PROVE  /\ turns' = turns /\ at_risk' = at_risk
             /\ \A q \in Request : Returned(q)' <=> Returned(q)
  BY <1>1 DEF Reject, StartCompile, Accept, Schedule, StartNode, TypeOK
<1>2. ASSUME NEW r \in Request, Abort(r) \/ FailProvision(r) \/ Fail(r)
      PROVE  ~Returned(r) /\ \E o \in Outcome : Return(r, o, NoAnswer)
  BY <1>2 DEF Abort, FailProvision, Fail
<1>3. ASSUME NEW r \in Request, AnswerFromSemanticCache(r)
      PROVE  ~Returned(r) /\ \E a \in Replies : Return(r, "cached", a)
  <2>1. PICK k \in Hits(PromptOf[r]) : Return(r, "cached", semantic_cache[k].response)
    BY <1>3 DEF AnswerFromSemanticCache
  <2>2. semantic_cache[k].response \in Replies
    BY <2>1, ResponseType DEF Hits, Live
  <2>3. stage[r] = "new"
    BY <1>3 DEF AnswerFromSemanticCache, Accept
  <2> QED
    BY <2>1, <2>2, <2>3
<1>4. ASSUME NEW r \in Request, AnswerFromMemory(r)
      PROVE  ~Returned(r) /\ \E a \in Replies : Return(r, "cached", a)
  <2>1. PICK a \in Found(PromptOf[r]) : Return(r, "cached", a)
    BY <1>4 DEF AnswerFromMemory
  <2>2. a \in Replies
    BY <2>1, FoundFacts, GatewayAssumption DEF GatewayAssumption
  <2>3. stage[r] = "new"
    BY <1>4 DEF AnswerFromMemory, Accept
  <2> QED
    BY <2>1, <2>2, <2>3
<1>5. ASSUME NEW r \in Request, Complete(r)
      PROVE  ~Returned(r) /\ Return(r, "completed", Answer(r)) /\ Answer(r) \in Replies
  <2>1. plan[r] \in Plan
    BY <1>5 DEF Complete, Planned
  <2> QED
    BY <1>5, <2>1, AnswerType DEF Complete
<1>6. CASE Tick \/ UNCHANGED vars
  BY <1>6 DEF Tick, vars
<1> QED
  BY <1>1, <1>2, <1>3, <1>4, <1>5, <1>6 DEF Next

\* The two halves of TurnsKept, of a file's turns.
HasTurn(ts, r) == \E i \in DOMAIN ts : ts[i].turn_id = r
OwnTurns(ts, f) ==
    \A i \in DOMAIN ts :
        /\ Returned(ts[i].turn_id) /\ FileOf(ts[i].turn_id) = f
        /\ \A j \in DOMAIN ts : ts[i].turn_id = ts[j].turn_id => i = j

\* A turn appended by a request that has none yet keeps the others, once each.
LEMMA AppendedTurn ==
    ASSUME NEW ts \in Seq(Turns), NEW t \in Turns, ~HasTurn(ts, t.turn_id)
    PROVE  /\ HasTurn(Append(ts, t), t.turn_id)
           /\ \A q : HasTurn(ts, q) => HasTurn(Append(ts, t), q)
           /\ \A i \in DOMAIN Append(ts, t) :
                 /\ Append(ts, t)[i] = t \/ (i \in DOMAIN ts /\ Append(ts, t)[i] = ts[i])
                 /\ \A j \in DOMAIN Append(ts, t) :
                       Append(ts, t)[i].turn_id = Append(ts, t)[j].turn_id =>
                          i = j \/ (i \in DOMAIN ts /\ j \in DOMAIN ts
                                    /\ ts[i].turn_id = ts[j].turn_id)
<1> DEFINE n == Len(ts)  A == Append(ts, t)
<1>1. n \in Nat /\ DOMAIN ts = 1..n /\ DOMAIN A = 1..(n + 1)
  OBVIOUS
<1>2. A[n + 1] = t /\ \A i \in 1..n : A[i] = ts[i]
  OBVIOUS
<1>3. \A i \in 1..(n + 1) : i \in 1..n \/ i = n + 1
  BY <1>1
<1>4. n + 1 \in 1..(n + 1) /\ \A i \in 1..n : i \in 1..(n + 1)
  BY <1>1
<1>5. \A i \in 1..n : ts[i].turn_id # t.turn_id
  BY <1>1 DEF HasTurn
<1> HIDE DEF n, A
<1>6. HasTurn(A, t.turn_id) /\ \A q : HasTurn(ts, q) => HasTurn(A, q)
  BY <1>1, <1>2, <1>4 DEF HasTurn
<1>7. \A i \in DOMAIN A : A[i] = t \/ (i \in DOMAIN ts /\ A[i] = ts[i])
  BY <1>1, <1>2, <1>3
<1>8. ASSUME NEW i \in DOMAIN A, NEW j \in DOMAIN A, A[i].turn_id = A[j].turn_id, i # j
      PROVE  i \in DOMAIN ts /\ j \in DOMAIN ts /\ ts[i].turn_id = ts[j].turn_id
  BY <1>1, <1>2, <1>3, <1>5, <1>8
<1>9. \A i \in DOMAIN A : \A j \in DOMAIN A : A[i].turn_id = A[j].turn_id =>
         i = j \/ (i \in DOMAIN ts /\ j \in DOMAIN ts /\ ts[i].turn_id = ts[j].turn_id)
  BY <1>8
<1> QED
  BY <1>6, <1>7, <1>9 DEF A

\* Turns are of requests.
LEMMA TurnType ==
    ASSUME TypeOK, NEW f \in File, NEW i \in DOMAIN turns[f]
    PROVE  turns[f][i].turn_id \in Request
<1>1. turns[f] \in Seq(Turns)
  BY DEF TypeOK
<1>2. turns[f][i] \in Turns
  BY <1>1
<1> QED
  BY <1>2 DEF Turns

\* A return keeps the turns of others' files and, in its own, loses some only to a
\* failure that puts their requests at risk.
LEMMA TurnsStep == TypeOK /\ Planned /\ TurnsKept /\ [Next]_vars => TurnsKept'
<1> SUFFICES ASSUME TypeOK, Planned, TurnsKept, [Next]_vars
             PROVE  /\ \A q \in Request : Returned(q)' /\ q \notin at_risk' =>
                          HasTurn(turns'[FileOf(q)], q)
                    /\ \A f \in File : OwnTurns(turns[f], f)'
  BY DEF TurnsKept, HasTurn, OwnTurns, FileOf, Conv
<1>1. /\ \A q \in Request : Returned(q) /\ q \notin at_risk => HasTurn(turns[FileOf(q)], q)
      /\ \A f \in File : OwnTurns(turns[f], f)
  BY DEF TurnsKept, HasTurn, OwnTurns
<1>2. CASE /\ turns' = turns /\ at_risk' = at_risk
           /\ \A q \in Request : Returned(q)' <=> Returned(q)
  <2>1. \A f \in File : \A i \in DOMAIN turns[f] : turns[f][i].turn_id \in Request
    BY TurnType
  <2>2. ASSUME NEW f \in File
        PROVE  OwnTurns(turns[f], f)'
    <3>1. turns'[f] = turns[f] /\ OwnTurns(turns[f], f)
      BY <1>1, <1>2
    <3>2. \A i \in DOMAIN turns[f] : Returned(turns[f][i].turn_id)'
      BY <1>2, <2>1, <3>1 DEF OwnTurns, Returned
    <3> QED
      BY <3>1, <3>2 DEF OwnTurns, Returned, FileOf, Conv
  <2> QED
    BY <1>1, <1>2, <2>2
<1>3. ASSUME NEW r \in Request, NEW o \in Outcome, NEW a \in Replies \cup {NoAnswer},
             ~Returned(r), Return(r, o, a)
      PROVE  /\ \A q \in Request : Returned(q)' /\ q \notin at_risk' =>
                   HasTurn(turns'[FileOf(q)], q)
             /\ \A f \in File : OwnTurns(turns[f], f)'
  <2> DEFINE g == FileOf(r)
             t == Turn(r, a)
  <2>1. /\ stage' = [stage EXCEPT ![r] = o] /\ turns' \in [File -> Seq(Turns)]
        /\ \A f \in File \ {g} : turns'[f] = turns[f]
        /\ turns'[g] \in Left(r, a) /\ at_risk \subseteq at_risk'
        /\ \/ turns'[g] = Append(turns[g], t)
           \/ \A q \in Request : FileOf(q) = g /\ (q = r \/ Returned(q)) => q \in at_risk'
    BY <1>3, ReturnFacts
  <2>2. /\ \A q \in Request : Returned(q) => Returned(q)'
        /\ \A q \in Request : Returned(q)' => Returned(q) \/ q = r
        /\ Returned(r)'
    BY <1>3, <2>1 DEF Returned, TypeOK
  <2>3. t \in Turns /\ t.turn_id = r /\ g \in File /\ turns[g] \in Seq(Turns)
    BY ConvType, GatewayAssumption DEF GatewayAssumption, Turn, Turns, TypeOK
  <2> HIDE DEF t
  <2>4. ~HasTurn(turns[g], r)
    BY <1>1, <1>3, <2>3 DEF HasTurn, OwnTurns
  <2>5. ASSUME NEW f \in File
        PROVE  \A i \in DOMAIN turns[f] : /\ stage'[turns[f][i].turn_id] \in Outcome
                                          /\ FileOf(turns[f][i].turn_id) = f
    <3>1. ASSUME NEW i \in DOMAIN turns[f]
          PROVE  /\ stage'[turns[f][i].turn_id] \in Outcome
                 /\ FileOf(turns[f][i].turn_id) = f
      <4>1. /\ turns[f][i].turn_id \in Request
            /\ Returned(turns[f][i].turn_id) /\ FileOf(turns[f][i].turn_id) = f
        BY <1>1, TurnType DEF OwnTurns
      <4>2. PICK q \in Request : q = turns[f][i].turn_id
        BY <4>1
      <4>3. Returned(q)'
        BY <2>2, <4>1, <4>2
      <4> QED
        BY <4>1, <4>2, <4>3 DEF Returned
    <3> QED
      BY <3>1
  <2>6. ASSUME NEW f \in File, turns'[f] = turns[f]
        PROVE  OwnTurns(turns[f], f)'
    <3>1. \A i \in DOMAIN turns'[f] : /\ stage'[turns'[f][i].turn_id] \in Outcome
                                      /\ FileOf(turns'[f][i].turn_id) = f
      BY <2>5, <2>6
    <3>2. \A i, j \in DOMAIN turns'[f] : turns'[f][i].turn_id = turns'[f][j].turn_id => i = j
      BY <1>1, <2>6 DEF OwnTurns
    <3> QED
      BY <3>1, <3>2 DEF OwnTurns, Returned, FileOf, Conv
  <2>7. OwnTurns(turns[g], g)'
    <3>1. CASE turns'[g] = Append(turns[g], t)
      <4>1. \A i \in DOMAIN turns'[g] :
               /\ turns'[g][i] = t \/ (i \in DOMAIN turns[g] /\ turns'[g][i] = turns[g][i])
               /\ \A j \in DOMAIN turns'[g] :
                     turns'[g][i].turn_id = turns'[g][j].turn_id =>
                        i = j \/ (i \in DOMAIN turns[g] /\ j \in DOMAIN turns[g]
                                  /\ turns[g][i].turn_id = turns[g][j].turn_id)
        BY <2>3, <2>4, <3>1, AppendedTurn
      <4>2. stage'[r] \in Outcome /\ FileOf(r) = g
        BY <2>2 DEF Returned
      <4>3. \A i \in DOMAIN turns'[g] : /\ stage'[turns'[g][i].turn_id] \in Outcome
                                        /\ FileOf(turns'[g][i].turn_id) = g
        <5> HIDE DEF g
        <5> QED
          BY <2>3, <2>5, <4>1, <4>2
      <4>4. OwnTurns(turns[g], g)
        BY <1>1, <2>3
      <4>5. \A i, j \in DOMAIN turns'[g] : turns'[g][i].turn_id = turns'[g][j].turn_id => i = j
        BY <4>1, <4>4 DEF OwnTurns
      <4> QED
        BY <4>3, <4>5 DEF OwnTurns, Returned, FileOf, Conv
    <3>2. CASE turns'[g] = turns[g]
      BY <2>3, <2>6, <3>2
    <3>3. CASE turns'[g] \in {<<t>>, <<>>}
      <4>1. \A i \in DOMAIN turns'[g] : i = 1 /\ turns'[g][i] = t
        BY <3>3
      <4> QED
        BY <2>2, <2>3, <4>1 DEF OwnTurns, Returned, FileOf, Conv
    <3> QED
      BY <2>1, <3>1, <3>2, <3>3 DEF Left, t
  <2>8. ASSUME NEW f \in File
        PROVE  OwnTurns(turns[f], f)'
    BY <2>1, <2>6, <2>7
  <2>9. ASSUME NEW q \in Request, Returned(q)', q \notin at_risk'
        PROVE  HasTurn(turns'[FileOf(q)], q)
    <3>1. Returned(q) \/ q = r
      BY <2>2, <2>9
    <3>2. q \notin at_risk
      BY <2>1, <2>9
    <3>3. CASE FileOf(q) # g
      <4>1. Returned(q) /\ FileOf(q) \in File
        BY <3>1, <3>3, ConvType
      <4> QED
        BY <1>1, <2>1, <3>2, <3>3, <4>1
    <3>4. CASE FileOf(q) = g
      <4>1. turns'[g] = Append(turns[g], t)
        BY <2>1, <2>9, <3>1, <3>4
      <4>2. HasTurn(turns'[g], r) /\ (HasTurn(turns[g], q) => HasTurn(turns'[g], q))
        BY <2>3, <2>4, <4>1, AppendedTurn
      <4> QED
        BY <1>1, <3>1, <3>2, <3>4, <4>2
    <3> QED
      BY <3>3, <3>4
  <2> QED
    BY <2>8, <2>9
<1> QED
  BY <1>2, <1>3, TurnFacts

\* THEOREM: requests of a conversation lose none of each other's turns, however they
\* overlap; only a read or save of the file that fails does.
THEOREM TurnsCorrect == Spec => []TurnsKept
<1>1. Init => TypeOK /\ Planned /\ TurnsKept
  <2>1. Init => \A r \in Request : ~Returned(r)
    BY DEF Init, Returned, Outcome
  <2>2. Init => \A f \in File : DOMAIN turns[f] = {}
    BY DEF Init
  <2> QED
    BY <2>1, <2>2, TypeInit DEF Init, Planned, TurnsKept
<1>2. TypeOK /\ Planned /\ TurnsKept /\ [Next]_vars => (TypeOK /\ Planned /\ TurnsKept)'
  BY TypeStep, PlannedStep, TurnsStep
<1> QED
  BY <1>1, <1>2, PTL DEF Spec

-----------------------------------------------------------------------------
(* The rate limiter.                                                       *)

\* What RateHolds counts: the accepted requests of a session whose window has t.
Counted(r) == stage[r] \notin {"new", "limited"}
InWindow(s, t) == {r \in Request : /\ SessionOf[r] = s /\ Counted(r)
                                   /\ arrived[r] <= t /\ t < arrived[r] + Window}

\* The session's list still has every accepted request a new one is counted
\* against, although each call throws out what it finds too old.
Remembered ==
    \A r \in Request : Counted(r) =>
        /\ arrived[r] <= now
        /\ now - arrived[r] < Window => r \in rate_limits[SessionOf[r]]

\* Outside Accept, the limiter loses nothing recent and no request begins to count.
LEMMA LimiterFacts ==
    ASSUME TypeOK, [Next]_vars
    PROVE  \/ \E r \in Request :
                 /\ Accept(r)
                 /\ \E o \in {"cached", "compiling"} : stage' = [stage EXCEPT ![r] = o]
           \/ /\ arrived' = arrived /\ now' \in {now, now + 1}
              /\ \A q \in Request : Counted(q)' <=> Counted(q)
              /\ \A s \in Session : \/ rate_limits'[s] = rate_limits[s]
                                    \/ rate_limits'[s] = Recent(s) /\ now' = now
<1>1. ASSUME NEW r \in Request,
             AnswerFromSemanticCache(r) \/ AnswerFromMemory(r) \/ StartCompile(r)
      PROVE  /\ Accept(r)
             /\ \E o \in {"cached", "compiling"} : stage' = [stage EXCEPT ![r] = o]
  BY <1>1 DEF AnswerFromSemanticCache, AnswerFromMemory, StartCompile, Return
<1>2. ASSUME NEW r \in Request, Reject(r)
      PROVE  /\ arrived' = arrived /\ now' = now
             /\ \A q \in Request : Counted(q)' <=> Counted(q)
             /\ \A s \in Session : rate_limits'[s] \in {rate_limits[s], Recent(s)}
  BY <1>2 DEF Reject, Counted, TypeOK
<1>3. ASSUME NEW r \in Request,
             \/ Abort(r) \/ FailProvision(r) \/ Schedule(r)
             \/ StartNode(r) \/ Complete(r) \/ Fail(r)
      PROVE  /\ arrived' = arrived /\ now' = now /\ rate_limits' = rate_limits
             /\ \A q \in Request : Counted(q)' <=> Counted(q)
  <2>1. /\ arrived' = arrived /\ now' = now /\ rate_limits' = rate_limits
        /\ Counted(r)
        /\ \/ stage' = stage
           \/ \E o \in Outcome \cup {"scheduling"} : stage' = [stage EXCEPT ![r] = o]
    BY <1>3 DEF Abort, FailProvision, Schedule, StartNode, Complete, Fail, Return,
                deprovision_container, Counted, Outcome
  <2> QED
    BY <2>1 DEF Counted, Outcome, TypeOK
<1>4. CASE Tick \/ UNCHANGED vars
  BY <1>4 DEF Tick, vars, Counted
<1> QED
  BY <1>1, <1>2, <1>3, <1>4 DEF Next

\* What is counted for a moment not yet past is in the list a new request meets.
LEMMA WindowInRecent ==
    ASSUME TypeOK, Remembered, NEW s \in Session, NEW t \in Time, now <= t
    PROVE  InWindow(s, t) \subseteq Recent(s)
<1> SUFFICES ASSUME NEW q \in InWindow(s, t)
             PROVE  q \in Recent(s)
  OBVIOUS
<1>1. q \in Request /\ SessionOf[q] = s /\ Counted(q) /\ t < arrived[q] + Window
  BY DEF InWindow
<1>2. now \in Nat /\ t \in Nat /\ arrived[q] \in Nat /\ Window \in Nat
  BY <1>1, GatewayAssumption DEF TypeOK, Time, GatewayAssumption
<1>3. now - arrived[q] < Window
  BY <1>1, <1>2
<1> QED
  BY <1>1, <1>3 DEF Remembered, Recent

\* No step makes the list forget a request that still counts.
LEMMA RememberedStep == TypeOK /\ Remembered /\ [Next]_vars => Remembered'
<1> SUFFICES ASSUME TypeOK, Remembered, [Next]_vars, NEW q \in Request, Counted(q)'
             PROVE  /\ arrived'[q] <= now'
                    /\ now' - arrived'[q] < Window => q \in rate_limits'[SessionOf[q]]
  BY DEF Remembered, Counted
<1>1. now \in Nat /\ arrived[q] \in Nat /\ Window \in Nat /\ SessionOf[q] \in Session
  BY GatewayAssumption DEF TypeOK, Time, GatewayAssumption
<1>2. Counted(q) => /\ arrived[q] <= now
                    /\ now - arrived[q] < Window => q \in Recent(SessionOf[q])
  BY DEF Remembered, Recent
<1>3. ASSUME NEW r \in Request, Accept(r), NEW o \in {"cached", "compiling"},
             stage' = [stage EXCEPT ![r] = o]
      PROVE  /\ arrived'[q] <= now'
             /\ now' - arrived'[q] < Window => q \in rate_limits'[SessionOf[q]]
  <2>1. /\ now' = now /\ arrived' = [arrived EXCEPT ![r] = now]
        /\ \A s \in Session : s # SessionOf[r] => rate_limits'[s] = rate_limits[s]
        /\ SessionOf[r] \in Session
        /\ rate_limits'[SessionOf[r]] = Recent(SessionOf[r]) \cup {r}
    BY <1>3, GatewayAssumption DEF Accept, TypeOK, GatewayAssumption
  <2>2. CASE q = r
    <3>1. arrived'[q] = now /\ q \in rate_limits'[SessionOf[q]]
      BY <2>1, <2>2 DEF TypeOK
    <3> QED
      BY <1>1, <2>1, <3>1
  <2>3. CASE q # r
    <3>1. Counted(q) /\ arrived'[q] = arrived[q]
      BY <1>3, <2>1, <2>3 DEF Counted, TypeOK
    <3>2. q \in Recent(SessionOf[q]) => q \in rate_limits'[SessionOf[q]]
      BY <1>1, <2>1 DEF Recent
    <3> QED
      BY <1>2, <2>1, <3>1, <3>2
  <2> QED
    BY <2>2, <2>3
<1>4. CASE /\ arrived' = arrived /\ now' \in {now, now + 1}
           /\ \A p \in Request : Counted(p)' <=> Counted(p)
           /\ \A s \in Session : \/ rate_limits'[s] = rate_limits[s]
                                 \/ rate_limits'[s] = Recent(s) /\ now' = now
  <2>1. Counted(q) /\ arrived'[q] = arrived[q] /\ now' >= now
    BY <1>1, <1>4
  <2>2. arrived'[q] <= now'
    BY <1>1, <1>2, <1>4, <2>1
  <2>3. now' - arrived'[q] < Window => now - arrived[q] < Window
    BY <1>1, <1>4, <2>1
  <2>4. q \in Recent(SessionOf[q]) => q \in rate_limits'[SessionOf[q]]
    BY <1>1, <1>4 DEF Recent
  <2> QED
    BY <1>2, <2>1, <2>2, <2>3, <2>4
<1> QED
  BY <1>3, <1>4, LimiterFacts

\* Each count is of finitely many requests.
LEMMA CountFacts ==
    ASSUME TypeOK, NEW s \in Session
    PROVE  /\ IsFiniteSet(Recent(s)) /\ Cardinality(Recent(s)) \in Nat
           /\ \A t : IsFiniteSet(InWindow(s, t)) /\ Cardinality(InWindow(s, t)) \in Nat
<1>1. Recent(s) \subseteq Request /\ IsFiniteSet(Request)
  BY GatewayAssumption DEF Recent, TypeOK, GatewayAssumption
<1>2. \A t : InWindow(s, t) \subseteq Request
  BY DEF InWindow
<1> QED
  BY <1>1, <1>2, FS_Subset, FS_CardinalityType

\* A request is accepted only while the list a window is counted in has room.
LEMMA RateStep == TypeOK /\ Remembered /\ RateHolds /\ [Next]_vars => RateHolds'
<1> SUFFICES ASSUME TypeOK, Remembered, RateHolds, [Next]_vars,
                    NEW s \in Session, NEW t \in Time
             PROVE  Cardinality(InWindow(s, t)') <= max_requests_per_min
  BY DEF RateHolds, InWindow, Counted
<1>1. Cardinality(InWindow(s, t)) <= max_requests_per_min
  BY DEF RateHolds, InWindow, Counted
<1>2. ASSUME InWindow(s, t)' = InWindow(s, t)
      PROVE  Cardinality(InWindow(s, t)') <= max_requests_per_min
  BY <1>1, <1>2
<1>3. ASSUME NEW r \in Request, Accept(r), NEW o \in {"cached", "compiling"},
             stage' = [stage EXCEPT ![r] = o]
      PROVE  Cardinality(InWindow(s, t)') <= max_requests_per_min
  <2>1. /\ arrived' = [arrived EXCEPT ![r] = now] /\ ~Counted(r) /\ Counted(r)'
        /\ \A q \in Request \ {r} : (Counted(q)' <=> Counted(q)) /\ arrived'[q] = arrived[q]
        /\ arrived'[r] = now
    BY <1>3 DEF Accept, Counted, TypeOK
  <2>2. now \in Nat /\ t \in Nat
    BY DEF TypeOK, Time
  <2>3. CASE SessionOf[r] # s \/ t < now
    <3>1. r \notin InWindow(s, t) /\ r \notin InWindow(s, t)'
      BY <2>1, <2>2, <2>3 DEF InWindow
    <3>2. \A q \in Request \ {r} : q \in InWindow(s, t)' <=> q \in InWindow(s, t)
      BY <2>1 DEF InWindow
    <3>3. InWindow(s, t)' = InWindow(s, t)
      BY <3>1, <3>2 DEF InWindow
    <3> QED
      BY <1>2, <3>3
  <2>4. CASE SessionOf[r] = s /\ now <= t
    <3>1. InWindow(s, t) \subseteq Recent(s)
      BY <2>4, WindowInRecent
    <3>2. InWindow(s, t)' \subseteq Recent(s) \cup {r}
      BY <2>1, <3>1 DEF InWindow
    <3>3. Cardinality(Recent(s)) < max_requests_per_min
      BY <1>3, <2>4 DEF Accept
    <3>4. IsFiniteSet(Recent(s)) /\ Cardinality(Recent(s)) \in Nat
      BY CountFacts
    <3>5. /\ IsFiniteSet(Recent(s) \cup {r})
          /\ Cardinality(Recent(s) \cup {r}) \in {Cardinality(Recent(s)), Cardinality(Recent(s)) + 1}
      BY <3>4, FS_AddElement
    <3> DEFINE W == InWindow(s, t)'  R == Recent(s) \cup {r}
    <3> HIDE DEF W, R
    <3>6. Cardinality(W) <= Cardinality(R)
      BY <3>2, <3>5, FS_Subset DEF W, R
    <3>7. Cardinality(W) \in Nat /\ max_requests_per_min \in Nat
      BY <3>2, <3>5, FS_Subset, FS_CardinalityType, GatewayAssumption
         DEF W, R, GatewayAssumption
    <3>8. Cardinality(R) <= max_requests_per_min
      BY <3>3, <3>4, <3>5, <3>7 DEF R
    <3>9. Cardinality(W) <= max_requests_per_min
      BY <3>4, <3>5, <3>6, <3>7, <3>8 DEF R
    <3> QED
      BY <3>9 DEF W
  <2> QED
    BY <2>2, <2>3, <2>4
<1>4. CASE arrived' = arrived /\ \A q \in Request : Counted(q)' <=> Counted(q)
  <2>1. InWindow(s, t)' = InWindow(s, t)
    BY <1>4 DEF InWindow
  <2> QED
    BY <1>2, <2>1
<1> QED
  BY <1>3, <1>4, LimiterFacts

\* THEOREM: a session never has more requests accepted within a window than the
\* limit, wherever the window starts and however often the list was cut down.
THEOREM RateLimited == Spec => []RateHolds
<1>1. Init => Remembered /\ RateHolds
  <2> SUFFICES ASSUME Init, NEW s \in Session, NEW t \in Time
               PROVE  Remembered /\ Cardinality(InWindow(s, t)) <= max_requests_per_min
    <3>1. Session = {} \/ Time = {} => RateHolds
      BY DEF RateHolds
    <3>2. Init => Remembered
      BY DEF Init, Remembered, Counted
    <3> QED
      BY <3>1, <3>2 DEF RateHolds, InWindow, Counted
  <2>1. InWindow(s, t) = {} /\ Remembered
    BY DEF Init, InWindow, Remembered, Counted
  <2>2. Cardinality(InWindow(s, t)) = 0
    BY <2>1, FS_EmptySet
  <2> QED
    BY <2>1, <2>2, GatewayAssumption DEF GatewayAssumption
<1>2. TypeOK /\ Remembered /\ RateHolds /\ [Next]_vars => (Remembered /\ RateHolds)'
  BY RememberedStep, RateStep
<1> QED
  BY <1>1, <1>2, TypeCorrect, PTL DEF Spec

=============================================================================
