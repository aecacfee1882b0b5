------------------------------ MODULE MCScoring ------------------------------
(* Three criteria of unequal weight with three levels, every assignment of   *)
(* evaluators, with and without a gate; a weight of more than half of the    *)
(* whole and a total near one half go to review.                             *)
EXTENDS Scoring

MCWeights == <<1, 2, 1>>

=============================================================================
