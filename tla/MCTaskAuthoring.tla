--------------------------- MODULE MCTaskAuthoring ---------------------------
(* Two instructors, a learner, two texts and two schedules.                 *)
EXTENDS TaskAuthoring, TLC

CONSTANTS i1, i2, t1, t2

\* The instructors and the texts are alike.
Alike == Permutations({i1, i2}) \cup Permutations({t1, t2})

=============================================================================
