---------------------------- MODULE MCTrialRuns ----------------------------
(* An instance of TrialRuns small enough for TLC: one learner with two     *)
(* tabs and another with one.                                              *)
EXTENDS TrialRuns, TLC

CONSTANTS ann, ben, ta, tb, tc, r1, r2

TabsOfTwo == ta :> ann @@ tb :> ann @@ tc :> ben

=============================================================================
