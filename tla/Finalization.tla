---------------------------- MODULE Finalization ----------------------------
(***************************************************************************)
(* How a grade becomes final: by an instructor who reads it (the review    *)
(* console), by an instructor for a whole task (finalize_task), or by the  *)
(* hourly sweep once its grace has run out (sweep_deadlines); and how the  *)
(* learner's request to have it read holds the last two off.               *)
(*                                                                         *)
(* The grading of a submission goes on meanwhile: regrades and the AI      *)
(* phase add runs.  Transactions are READ COMMITTED and take no locks, so  *)
(* what they read in one statement may have changed by the next, and when  *)
(* they commit.  Runs are recorded in the order of created_at.             *)
(***************************************************************************)
EXTENDS Integers, Sequences

CONSTANTS
    Submissions,  \* handed in by learners, of one course
    Held,         \* those of tasks with results_after_review
    Graceless,    \* those for which no grace is set: never closed by the sweep
    Sweep,        \* the process that systemd's timer starts
    Instructors,  \* requests of instructors who close a task in bulk
    Graders,      \* requests of instructors or assistants who save a review
    Outcomes,     \* the kinds of runs each submission may get
    MaxRuns       \* bound: how many runs each submission gets

\* What is left to a person in a run: nothing, to review it, to judge what no
\* evaluator could (unscored_criteria), or to grade what only a person grades
\* (awaiting_human).  The last two make it provisional.
Kind == {"clean", "review", "unscored", "human"}

Run == UNION {[sub : {s}, no : 1 .. MaxRuns[s]] : s \in Submissions}

Source == {"none", "automatic", "bulk", "review"}

ASSUME FinalizationAssumption ==
    /\ Held \subseteq Submissions /\ Graceless \subseteq Submissions
    /\ Sweep \notin Instructors
    /\ Outcomes \in [Submissions -> SUBSET Kind]
    /\ MaxRuns \in [Submissions -> Nat]

Closers == {Sweep} \union Instructors

VARIABLES
    runs,      \* the runs of each submission, oldest first
    pending,   \* AI jobs of the submission, queued or running
    failed,    \* AI jobs of the submission that failed for good
    due,       \* how many of its runs have outlived the grace, the oldest first
    finals,    \* the finalization of each run: its source
    reviewed,  \* the runs somebody has reviewed
    requests,  \* the learner's review request for each run
    asking,    \* requests of learners that were found admissible
    closers,   \* bulk finalizations and the sweep at work
    graders    \* reviews being saved

vars == <<runs, pending, failed, due, finals, reviewed, requests, asking, closers, graders>>

gradings == <<runs, pending, failed, due>>

Provisional == {"unscored", "human"}

KindOf(r) == runs[r.sub][r.no]

Latest(r) == r.no = Len(runs[r.sub])

Idle == [stage |-> "idle", rows |-> {}]

-----------------------------------------------------------------------------
Init ==
    /\ runs = [s \in Submissions |-> <<>>]
    /\ pending = [s \in Submissions |-> 0]
    /\ failed = [s \in Submissions |-> 0]
    /\ due = [s \in Submissions |-> 0]
    /\ finals = [r \in Run |-> "none"]
    /\ reviewed = {}
    /\ requests = [r \in Run |-> "none"]
    /\ asking = {}
    /\ closers = [c \in Closers |-> Idle]
    /\ graders = [g \in Graders |-> [stage |-> "idle"]]

-----------------------------------------------------------------------------
(* The grading of a submission                                             *)

NewRun(s, k) ==
    /\ k \in Outcomes[s] /\ Len(runs[s]) < MaxRuns[s]
    /\ runs' = [runs EXCEPT ![s] = Append(@, k)]

decisions == <<finals, reviewed, requests, asking, closers, graders>>

\* The tests are all there is, at first or in a regrade.
RecordTests(s, k) ==
    /\ NewRun(s, k)
    /\ UNCHANGED <<pending, failed, due, decisions>>

\* The tests are done and the AI phase is queued with the provisional run.
RecordProvisional(s, k) ==
    /\ k \in Provisional
    /\ NewRun(s, k)
    /\ pending' = [pending EXCEPT ![s] = @ + 1]
    /\ UNCHANGED <<failed, due, decisions>>

RecordAi(s, k) ==
    /\ pending[s] > 0
    /\ NewRun(s, k)
    /\ pending' = [pending EXCEPT ![s] = @ - 1]
    /\ UNCHANGED <<failed, due, decisions>>

\* The AI job fails for good: the provisional run stays the latest.
AiGivesUp(s) ==
    /\ pending[s] > 0
    /\ pending' = [pending EXCEPT ![s] = @ - 1]
    /\ failed' = [failed EXCEPT ![s] = @ + 1]
    /\ UNCHANGED <<runs, due, decisions>>

\* An instructor queues it again, whatever became of the run.
RetryAi(s) ==
    /\ failed[s] > 0
    /\ failed' = [failed EXCEPT ![s] = @ - 1]
    /\ pending' = [pending EXCEPT ![s] = @ + 1]
    /\ UNCHANGED <<runs, due, decisions>>

\* The grace of the oldest run that still has any runs out.
GraceEnds(s) ==
    /\ s \notin Graceless /\ due[s] < Len(runs[s])
    /\ due' = [due EXCEPT ![s] = @ + 1]
    /\ UNCHANGED <<runs, pending, failed, decisions>>

-----------------------------------------------------------------------------
(* Closing without reading: _apply, for the sweep and in bulk              *)

Overdue(r) == r.no <= due[r.sub]

\* auto_finalizable or bulk_finalizable, but for the request.
Finished(c, r) == IF c = Sweep THEN Overdue(r) /\ KindOf(r) = "clean" ELSE KindOf(r) # "human"

\* A slip the runs must notice: results_after_review stops the sweep only.
HeldFromSweep(c, r) ==
    requests[r] # "open" /\ (c = Sweep => r.sub \notin Held) /\ Finished(c, r)

\* A slip the runs must notice: a request blocks the later runs too.
NeverContested(c, r) ==
    /\ \A q \in Run : q.sub = r.sub => requests[q] # "open"
    /\ r.sub \notin Held /\ Finished(c, r)

\* The request does not block, the task does not withhold its results, and the
\* run is one that this closer may close.
Closable(c, r) == requests[r] # "open" /\ r.sub \notin Held /\ Finished(c, r)

\* unfinalized_for_task: the latest runs that are not final, with their
\* requests; what these rows already show to be out of the question goes.
CloserRead(c) ==
    /\ closers[c].stage = "idle"
    /\ closers' = [closers EXCEPT ![c] =
            [stage |-> "read",
             rows |-> {r \in Run : Latest(r) /\ finals[r] = "none" /\ Closable(c, r)}]]
    /\ UNCHANGED <<gradings, finals, reviewed, requests, asking, graders>>

\* Row by row it asks for AI jobs on their way.
CloserCheck(c) ==
    /\ closers[c].stage = "read"
    /\ closers' = [closers EXCEPT ![c] =
            [stage |-> "checked", rows |-> {r \in @.rows : pending[r.sub] = 0}]]
    /\ UNCHANGED <<gradings, finals, reviewed, requests, asking, graders>>

SourceOf(c) == IF c = Sweep THEN "automatic" ELSE "bulk"

\* A slip the runs must notice: a run may be finalized twice.
CommitOver(c) ==
    /\ closers[c].stage = "checked"
    /\ finals' = [r \in Run |-> IF r \in closers[c].rows THEN SourceOf(c) ELSE finals[r]]
    /\ closers' = [closers EXCEPT ![c] = Idle]
    /\ UNCHANGED <<gradings, reviewed, requests, asking, graders>>

\* One transaction closes all the rows.
CloserCommit(c) ==
    /\ closers[c].stage = "checked"
    /\ \A r \in closers[c].rows : finals[r] = "none"
    /\ finals' = [r \in Run |-> IF r \in closers[c].rows THEN SourceOf(c) ELSE finals[r]]
    /\ closers' = [closers EXCEPT ![c] = Idle]
    /\ UNCHANGED <<gradings, reviewed, requests, asking, graders>>

\* A row was finalized since it was read: the whole course is rolled back.
CloserCollides(c) ==
    /\ closers[c].stage = "checked"
    /\ \E r \in closers[c].rows : finals[r] # "none"
    /\ closers' = [closers EXCEPT ![c] = Idle]
    /\ UNCHANGED <<gradings, finals, reviewed, requests, asking, graders>>

-----------------------------------------------------------------------------
(* The learner asks for a review: request_review                           *)

\* The page and the POST ask whether the grade can be contested: it is the
\* latest, and neither final nor past its grace, provisional or withheld.
AskView(r) ==
    /\ Latest(r) /\ r \notin asking
    /\ finals[r] = "none" /\ r \notin reviewed /\ requests[r] = "none"
    /\ ~Overdue(r) /\ KindOf(r) \notin Provisional /\ r.sub \notin Held
    /\ asking' = asking \union {r}
    /\ UNCHANGED <<gradings, finals, reviewed, requests, closers, graders>>

\* The request is saved in a transaction of its own, which looks for an earlier
\* request and at nothing else.  Of two tabs on one run the second gets 409.
AskSave(r) ==
    /\ r \in asking
    /\ asking' = asking \ {r}
    /\ requests' = [requests EXCEPT ![r] = "open"]
    /\ UNCHANGED <<gradings, finals, reviewed, closers, graders>>

-----------------------------------------------------------------------------
(* A review: finalize of the review console                                *)

\* _load, first: the latest run, which the page showed.
GraderLoad(g, r) ==
    /\ graders[g].stage = "idle" /\ Latest(r)
    /\ graders' = [graders EXCEPT ![g] = [stage |-> "loading", run |-> r]]
    /\ UNCHANGED <<gradings, finals, reviewed, requests, asking, closers>>

\* _load, then: its finalization and the AI jobs on their way.
GraderCheck(g) ==
    /\ graders[g].stage = "loading"
    /\ pending[graders[g].run.sub] = 0
    /\ graders' = [graders EXCEPT ![g] =
            [stage |-> "loaded", run |-> @.run, closed |-> finals[@.run] # "none"]]
    /\ UNCHANGED <<gradings, finals, reviewed, requests, asking, closers>>

\* 409: the AI phase has not come yet.
GraderRefused(g) ==
    /\ graders[g].stage = "loading"
    /\ pending[graders[g].run.sub] > 0
    /\ graders' = [graders EXCEPT ![g] = [stage |-> "idle"]]
    /\ UNCHANGED <<gradings, finals, reviewed, requests, asking, closers>>

Resolved(r) == IF requests[r] = "none" THEN "none" ELSE "resolved"

\* _save_review: the review, the finalization unless there is one, and the
\* answer to the request for this run, in one transaction.  A blind mark that
\* agrees with the run is saved the same way, under narrower conditions.
GraderSave(g) ==
    LET r == graders[g].run IN
    /\ graders[g].stage = "loaded"
    /\ graders[g].closed \/ finals[r] = "none"
    /\ reviewed' = reviewed \union {r}
    /\ finals' = [finals EXCEPT ![r] = IF graders[g].closed THEN @ ELSE "review"]
    /\ requests' = [requests EXCEPT ![r] = Resolved(r)]
    /\ graders' = [graders EXCEPT ![g] = [stage |-> "idle"]]
    /\ UNCHANGED <<gradings, asking, closers>>

\* A slip the runs must notice: the request is answered all the same.
CollidesResolved(g) ==
    LET r == graders[g].run IN
    /\ graders[g].stage = "loaded"
    /\ ~graders[g].closed /\ finals[r] # "none"
    /\ requests' = [requests EXCEPT ![r] = Resolved(r)]
    /\ graders' = [graders EXCEPT ![g] = [stage |-> "idle"]]
    /\ UNCHANGED <<gradings, finals, reviewed, asking, closers>>

\* 409: the run was finalized since it was loaded, and nothing is kept.
GraderCollides(g) ==
    /\ graders[g].stage = "loaded"
    /\ ~graders[g].closed /\ finals[graders[g].run] # "none"
    /\ graders' = [graders EXCEPT ![g] = [stage |-> "idle"]]
    /\ UNCHANGED <<gradings, finals, reviewed, requests, asking, closers>>

-----------------------------------------------------------------------------
Closing(c) == CloserRead(c) \/ CloserCheck(c) \/ CloserCommit(c) \/ CloserCollides(c)

Next ==
    \/ \E s \in Submissions :
          \/ \E k \in Kind : RecordTests(s, k) \/ RecordProvisional(s, k) \/ RecordAi(s, k)
          \/ AiGivesUp(s) \/ RetryAi(s) \/ GraceEnds(s)
    \/ \E c \in Closers : Closing(c)
    \/ \E r \in Run :
          \/ AskView(r) \/ AskSave(r)
          \/ \E g \in Graders : GraderLoad(g, r)
    \/ \E g \in Graders : GraderCheck(g) \/ GraderRefused(g) \/ GraderSave(g) \/ GraderCollides(g)

Spec == Init /\ [][Next]_vars

\* systemd starts the sweep every hour; nothing is asked of people.
FairSpec == Spec /\ WF_vars(Closing(Sweep))

-----------------------------------------------------------------------------
Closer == [stage : {"idle", "read", "checked"}, rows : SUBSET Run]

Reviewing ==
    [stage : {"idle"}] \union [stage : {"loading"}, run : Run]
        \union [stage : {"loaded"}, run : Run, closed : BOOLEAN]

\* Every variable keeps its type.
TypeOK ==
    /\ runs \in [Submissions -> Seq(Kind)]
    /\ \A s \in Submissions : Len(runs[s]) <= MaxRuns[s] /\ due[s] <= Len(runs[s])
    /\ pending \in [Submissions -> Nat] /\ failed \in [Submissions -> Nat]
    /\ due \in [Submissions -> Nat]
    /\ finals \in [Run -> Source]
    /\ reviewed \subseteq Run
    /\ requests \in [Run -> {"none", "open", "resolved"}]
    /\ asking \subseteq Run
    /\ closers \in [Closers -> Closer]
    /\ graders \in [Graders -> Reviewing]

\* What a reader has looked at is final, an answered request was read, and a
\* finalization that names a review has one: the three tables never tell
\* different stories, though each of their writers reads them earlier.
RecordsAgree ==
    \A r \in Run :
        /\ r \in reviewed => finals[r] # "none"
        /\ finals[r] = "review" => r \in reviewed
        /\ requests[r] = "resolved" => r \in reviewed

\* The sweep closes only what needs nobody and whose grace is over, bulk only
\* what a machine has judged, and neither what is withheld until it is read.
ClosedAsAllowed ==
    \A r \in Run :
        /\ finals[r] = "automatic" => Overdue(r) /\ KindOf(r) = "clean"
        /\ finals[r] = "bulk" => KindOf(r) # "human"
        /\ finals[r] \in {"automatic", "bulk"} => r.sub \notin Held

\* A finalization is for good, whoever comes to finalize the run after it.
FinalForGood ==
    [][\A r \in Run : finals[r] # "none" => finals'[r] = finals[r]]_vars

\* A grade that is due for the sweep does not wait for ever: it becomes final, or
\* a request or a new run comes first.
Waiting(s) ==
    \E r \in Run :
        /\ r.sub = s /\ Latest(r) /\ finals[r] = "none" /\ pending[s] = 0
        /\ Overdue(r) /\ KindOf(r) = "clean" /\ requests[r] # "open"

DueGradesClose == \A s \in Submissions \ (Held \union Graceless) : Waiting(s) ~> ~Waiting(s)

-----------------------------------------------------------------------------
(* The inductive invariant                                                 *)

Recorded(r) == r.no <= Len(runs[r.sub])

\* Whatever is decided, or about to be, is about a run that exists.
KnownRuns ==
    /\ \A r \in Run : finals[r] # "none" => Recorded(r)
    /\ \A g \in Graders : graders[g].stage # "idle" => Recorded(graders[g].run)
    /\ \A c \in Closers : \A r \in closers[c].rows : Recorded(r)

\* What a closer has in hand stays closable but for the request.
RowsAllowed ==
    \A c \in Closers : \A r \in closers[c].rows : r.sub \notin Held /\ Finished(c, r)

\* A review that leaves the finalization alone finds it there.
ClosedStays ==
    \A g \in Graders :
        graders[g].stage = "loaded" /\ graders[g].closed => finals[graders[g].run] # "none"

FinalInv ==
    TypeOK /\ RecordsAgree /\ ClosedAsAllowed /\ KnownRuns /\ RowsAllowed /\ ClosedStays

=============================================================================
