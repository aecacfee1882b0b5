------------------------- MODULE MCResumableUpload -------------------------
(* An instance of ResumableUpload small enough for TLC.                      *)
EXTENDS ResumableUpload, TLC

CONSTANTS u1, u2, k1, k2, k3, r1, r2, t1, t2

=============================================================================
