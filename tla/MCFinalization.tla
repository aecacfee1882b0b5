--------------------------- MODULE MCFinalization ---------------------------
(* Instances of Finalization small enough for TLC: a submission with a run *)
(* and its regrade or AI phase, and one that is withheld until it is read. *)
EXTENDS Finalization, TLC

CONSTANTS a, b, sweep, bulk, g1

TwoAndOne == a :> 2 @@ b :> 1

Kinds == a :> {"clean", "unscored", "human"} @@ b :> {"review"}

=============================================================================
