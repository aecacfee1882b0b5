--------------------------- MODULE GradingService ---------------------------
(***************************************************************************)
(* What the grading queue promises to those who put jobs into it, without  *)
(* workers, leases, attempts or rows: an accepted job is pending until it  *)
(* has a result or is given up; a result is never replaced; a job whose    *)
(* result leaves work to the AI phase has its follow-up job in the same    *)
(* step; only an instructor who has seen a job given up revives it, and    *)
(* only if two of them had seen it can it come to a second result.         *)
(***************************************************************************)
CONSTANTS
    Jobs, Results, Instructors,
    FollowUp(_),   \* the job of the AI phase of a job
    Continues(_)   \* whether a result leaves work to the AI phase

VARIABLES
    status,  \* [Jobs -> {"absent", "pending", "done", "failed"}]
    results, \* [Jobs -> SUBSET Results]
    noticed  \* the jobs an instructor has seen given up and means to retry

vars == <<status, results, noticed>>

Init ==
    /\ status = [j \in Jobs |-> "absent"]
    /\ results = [j \in Jobs |-> {}]
    /\ noticed = [i \in Instructors |-> {}]

Accept(j) ==
    /\ status[j] = "absent"
    /\ status' = [status EXCEPT ![j] = "pending"]
    /\ UNCHANGED <<results, noticed>>

\* The result r arrives, and with it the job of the AI phase that r calls for.
Finish(j, r) ==
    /\ status[j] = "pending"
    /\ results' = [results EXCEPT ![j] = @ \union {r}]
    /\ status' = [k \in Jobs |->
            IF k = j THEN "done"
            ELSE IF Continues(r) /\ k = FollowUp(j) /\ status[k] = "absent"
                 THEN "pending"
            ELSE status[k]]
    /\ UNCHANGED noticed

\* Several jobs may be given up at once.
GiveUp(S) ==
    /\ \A j \in S : status[j] = "pending"
    /\ status' = [j \in Jobs |-> IF j \in S THEN "failed" ELSE status[j]]
    /\ UNCHANGED <<results, noticed>>

Notice(i, S) ==
    /\ noticed[i] = {}
    /\ \A j \in S : status[j] = "failed"
    /\ noticed' = [noticed EXCEPT ![i] = S]
    /\ UNCHANGED <<status, results>>

\* What became of the jobs since they were noticed is not looked at.
Retry(i) ==
    /\ status' = [j \in Jobs |-> IF j \in noticed[i] THEN "pending" ELSE status[j]]
    /\ noticed' = [noticed EXCEPT ![i] = {}]
    /\ UNCHANGED results

Next ==
    \/ \E j \in Jobs : Accept(j)
    \/ \E j \in Jobs, r \in Results : Finish(j, r)
    \/ \E S \in SUBSET Jobs : GiveUp(S)
    \/ \E i \in Instructors, S \in SUBSET Jobs : Notice(i, S)
    \/ \E i \in Instructors : Retry(i)

Spec == Init /\ [][Next]_vars

=============================================================================
