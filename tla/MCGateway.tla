----------------------------- MODULE MCGateway ------------------------------
(***************************************************************************)
(* Three requests of one client: two of one conversation, and one of       *)
(* another whose id names the same directory and another file. The first   *)
(* and the last ask alike; memory may know an answer to the last when the  *)
(* gateway starts. A plan that ends in a verification, and one of nothing  *)
(* else, which share that step's name.                                     *)
(***************************************************************************)
EXTENDS Gateway, TLC

CONSTANTS r1, r2, r3, alice, c1, c2, ask, tell, reask, manual, work, verify,
          dir, other, file1, file2

MCRequest == {r1, r2, r3}
MCSessionOf == [r \in MCRequest |-> alice]
MCPromptOf == r1 :> ask @@ r2 :> tell @@ r3 :> reask
MCConversationOf == r1 :> c1 @@ r2 :> c1 @@ r3 :> c2
MCSame == {<<p, p>> : p \in {ask, tell, reask}}
MCSimilar == MCSame \cup {<<ask, reask>>, <<reask, ask>>}
MCClose == MCSame \cup {<<reask, ask>>, <<ask, reask>>}
MCKnown == ask :> {} @@ tell :> {} @@ reask :> {manual}
MC_get_path == [i \in {c1, c2} \cup MCRequest |-> IF i \in {c1, c2} THEN dir ELSE other]
MCTurnFile == [i \in {c1, c2} \cup MCRequest |-> IF i = c1 THEN file1 ELSE file2]
MCPlan == {<< <<work>>, <<verify>> >>, << <<verify>> >>}

=============================================================================
