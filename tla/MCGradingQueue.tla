--------------------------- MODULE MCGradingQueue ---------------------------
(* Instances of GradingQueue small enough for TLC.                         *)
EXTENDS GradingQueue, TLC

CONSTANTS s1, s2, w1, w2, w3, alice, carol, bob

\* Workers without --phase and --lane take every job.
AnyPhase == [w \in Workers |-> Phase]
AnyLane == [w \in Workers |-> JobLane]

\* The deployment of deploy/systemd: worker-det, worker-transcribe, worker-ai.
DeployedPhases == w1 :> {"deterministic"} @@ w2 :> {"deterministic"} @@ w3 :> {"ai"}
DeployedLanes == w1 :> {"default"} @@ w2 :> {"transcription"} @@ w3 :> JobLane

Alike == Permutations({w1, w2})
AlikeToo == {p @@ q : p \in Alike, q \in Permutations({alice, carol})}

=============================================================================
