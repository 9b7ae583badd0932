--------------------------- MODULE MCSimpleProject ---------------------------
(* SimpleProject for TLC: up to three request slots on one or two replicas. *)
EXTENDS SimpleProject, TLC

CONSTANTS r1, r2, r3, p1, p2

OneReplica  == [r \in Requests |-> p1]
TwoReplicas == [r \in Requests |-> IF r = r2 THEN p2 ELSE p1]

(* Requests on one replica are interchangeable; one request on each of two  *)
(* replicas is interchangeable together with its replica.                   *)
SwapRequests == Permutations(Requests)
SwapReplicas == {(r1 :> r2 @@ r2 :> r1 @@ p1 :> p2 @@ p2 :> p1)}
==============================================================================
