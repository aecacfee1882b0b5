----------------------------- MODULE RunService -----------------------------
(***************************************************************************)
(* What learners can count on who ask for trial runs, without tabs,        *)
(* runners, transactions, leases or clocks: one run of a learner is in     *)
(* flight at a time; a request is started once at most, and what that      *)
(* start owes is one result; a result that comes after the request was     *)
(* given up is dropped, and only one accepted before that is still         *)
(* written; a result stays until it is purged.                             *)
(***************************************************************************)
CONSTANTS Requests, Learners, None

VARIABLES
    status,    \* [Requests -> states of a request]
    learner,   \* [Requests -> Learners \union {None}]
    owed,      \* the started requests whose result may still come
    accepted   \* the requests whose result came in time, and is to be written

vars == <<status, learner, owed, accepted>>

InFlight == {r \in Requests : status[r] \in {"queued", "running"}}

Over == {r \in Requests : status[r] \in {"done", "expired", "failed"}}

Init ==
    /\ status = [r \in Requests |-> "absent"]
    /\ learner = [r \in Requests |-> None]
    /\ owed = {} /\ accepted = {}

\* Some requests in flight are given up, some that are over are purged.
Cleared(lost, purged) ==
    [r \in Requests |-> IF r \in purged THEN "purged"
                        ELSE IF r \in lost /\ status[r] = "queued" THEN "expired"
                        ELSE IF r \in lost THEN "failed"
                        ELSE status[r]]

Ask(r, l, lost) ==
    /\ status[r] = "absent"
    /\ \A q \in InFlight \ lost : learner[q] # l
    /\ status' = [Cleared(lost, {}) EXCEPT ![r] = "queued"]
    /\ learner' = [learner EXCEPT ![r] = l]
    /\ UNCHANGED <<owed, accepted>>

Start(r, lost, purged) ==
    /\ status[r] = "queued" /\ r \notin lost
    /\ status' = [Cleared(lost, purged) EXCEPT ![r] = "running"]
    /\ owed' = owed \union {r}
    /\ UNCHANGED <<learner, accepted>>

Clear(lost, purged) ==
    /\ status' = Cleared(lost, purged)
    /\ UNCHANGED <<learner, owed, accepted>>

\* The result comes while the request is running; later it is not taken.
Accept(r) ==
    /\ r \in owed /\ status[r] = "running"
    /\ owed' = owed \ {r}
    /\ accepted' = accepted \union {r}
    /\ UNCHANGED <<status, learner>>

\* It replaces at most a failure that was put in its place since it came.
Deliver(r, result) ==
    /\ r \in accepted
    /\ status[r] \in {"running", "failed", "purged"}
    /\ status' = IF status[r] = "purged" THEN status ELSE [status EXCEPT ![r] = result]
    /\ accepted' = accepted \ {r}
    /\ UNCHANGED <<learner, owed>>

\* It came too late, or who was to deliver it is gone.
Forget(r) ==
    /\ r \in owed \union accepted
    /\ owed' = owed \ {r}
    /\ accepted' = accepted \ {r}
    /\ UNCHANGED <<status, learner>>

Next ==
    \/ \E lost \in SUBSET InFlight, purged \in SUBSET Over :
          \/ \E r \in Requests, l \in Learners : Ask(r, l, lost)
          \/ \E r \in Requests : Start(r, lost, purged)
          \/ Clear(lost, purged)
    \/ \E r \in Requests :
          \/ \E result \in {"done", "failed"} : Deliver(r, result)
          \/ Accept(r)
          \/ Forget(r)

Spec == Init /\ [][Next]_vars

=============================================================================
