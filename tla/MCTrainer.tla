------------------------------- MODULE MCTrainer -------------------------------
(* Two ranks of one row, two microbatches an update, three updates: updates *)
(* one and two lie on each side of a scheduled validation and of a periodic *)
(* checkpoint, and the last update is due only because it is the last.      *)
(* Twelve rows are learned.  The corpus holds rows with one, several and no *)
(* document boundary and two rows more than the run's order selects; other  *)
(* orders over it take all of its rows, or fewer than they leave.  Scarce   *)
(* has a row that supervises nothing in the run's order, where every launch *)
(* dies; no row of Sparse in that order does.                               *)
EXTENDS TrainingRun

MCWeights == 0 :> 3 @@ 1 :> 2

Scarce == 0 :> <<2, 3, 9, 13, 14, 20, 26>> @@ 1 :> <<4, 5, 6, 15, 20>>
Sparse == 0 :> <<2, 3, 9, 13, 14, 20, 26>> @@ 1 :> <<7, 8, 10, 15, 20>>
MCHeldOut == 0 :> <<1, 9, 19, 20, 31>> @@ 1 :> <<4, 16>>
MCCorpora == {Scarce, Sparse, MCHeldOut}

Production == [rows |-> 2, accumulation |-> 2]
MCPolicies == {[target |-> 40, frozen |-> Production],
               [target |-> 17, frozen |-> Unset], [target |-> Unset, frozen |-> Unset],
               [target |-> Unset, frozen |-> [rows |-> 1, accumulation |-> 3]]}
MCOrders == Built
=============================================================================
