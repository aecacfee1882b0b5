---------------------------- MODULE MCSkillRelay ----------------------------
(* An instance of SkillRelay small enough for TLC: two submissions of one  *)
(* task around one of another.                                             *)
EXTENDS SkillRelay, TLC

CONSTANTS ta, tb, r1, r2

ThreeSubmissions == 1 .. 3

TwoTasks == <<ta, tb, ta>>

=============================================================================
