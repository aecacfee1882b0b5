--------------------------- MODULE MCEditorIntake ---------------------------
(* An instance of EditorIntake small enough for TLC: two requests at once, and *)
(* the sweep.                                                              *)
EXTENDS EditorIntake, TLC

CONSTANTS a, b, r1, r2, r3

=============================================================================
