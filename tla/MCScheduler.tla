---------------------------- MODULE MCScheduler ----------------------------
(***************************************************************************)
(* A small instance of Scheduler. Plan p1 has two nodes in its first layer *)
(* and one in its second that depends on the twin runtime's node. p2 has a *)
(* workflow id that leads to p1's directory, as a second request of p1's   *)
(* conversation has and as an id has that the factory does not tell from   *)
(* p1's; its second node asks for a runtime the scheduler does not know.   *)
(* p3 works in a directory of its own.                                     *)
(***************************************************************************)
EXTENDS Scheduler, TLC

CONSTANTS p1, p2, p3, a, b, c, d, e, f, w1, w2, w3, x1, x2, u1, u2, u3

MCPlan == {p1, p2, p3}
MCNode == {a, b, c, d, e, f}
MCPlanOf == a :> p1 @@ b :> p1 @@ c :> p1 @@ d :> p2 @@ f :> p2 @@ e :> p3
MCLayerOf == a :> 1 @@ b :> 1 @@ c :> 2 @@ d :> 1 @@ f :> 2 @@ e :> 1
MCDepsOf == a :> {} @@ b :> {} @@ c :> {a} @@ d :> {} @@ e :> {} @@ f :> {}
MCRuntimeOf ==
    a :> "COMPETITIVE" @@ b :> "STANDARD" @@ c :> "STANDARD" @@
    d :> "MICRO" @@ e :> "RETRIEVAL" @@ f :> "UNKNOWN"
MCDepthOf == p1 :> 2 @@ p2 :> 2 @@ p3 :> 1
MCId == {w1, w2, w3, u1, u2, u3}
MCIdOf == p1 :> w1 @@ p2 :> w2 @@ p3 :> w3
MCDir == {x1, x2}
MCget_path == [i \in MCId |-> IF i \in {w1, w2} THEN x1 ELSE x2]
MCTcbIdOf == p1 :> u1 @@ p2 :> u2 @@ p3 :> u3

=============================================================================
