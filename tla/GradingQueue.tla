---------------------------- MODULE GradingQueue ----------------------------
(***************************************************************************)
(* The grading queue of aijudge and the workers that serve it: the job     *)
(* rows (jobs.py), the queue that hands them out (SqlJobQueue), the worker *)
(* process (worker.py), the grading runs it saves (SqlGradingRunRepository)*)
(* and the two console operations that write job rows back from an earlier *)
(* read (retry_failed, reschedule_waiting).                                *)
(*                                                                         *)
(* A step is one database transaction, one stretch of a worker between two *)
(* transactions, or a moment of time passing.  The transaction that        *)
(* records a success reads the latest run without a lock and then          *)
(* supersedes it under one, so it is two steps: RecordRead, and            *)
(* RecordCommit or RecordConflict.                                         *)
(***************************************************************************)
EXTENDS Integers, FiniteSets

CONSTANTS
    Submissions,         \* submissions in the state SUBMITTED
    Reasons,             \* "submission", and one value per regrade discriminator
    Workers,             \* names of worker processes (distinct in deploy/systemd)
    Instructors,         \* console users who may press "retry the failed jobs"
    Editors,             \* console users who may change a grading start time
    PhasesOf,            \* [Workers -> SUBSET Phase]: the worker's --phase
    LanesOf,             \* [Workers -> SUBSET JobLane]: the worker's --lane
    NeedsTranscription,  \* submissions with artifacts to transcribe
    MaxAttempts,         \* GradingJob.max_attempts
    MaxClock,            \* bound: created_at stamps of the runs of a submission
    MaxStops,            \* bound: attempts ended by stopping a worker
    MaxPresses,          \* bound: console operations that write job rows back
    None                 \* the null of optional columns

Phase == {"deterministic", "ai"}
JobLane == {"default", "transcription"}
JobState == {"absent", "queued", "running", "done", "failed"}

\* A lease is seen relative to now: lease_expires_at is null, ahead or past.
Lease == {"none", "live", "expired"}

\* A job is stored twice in its row: as a JSON document, which is what the
\* code computes with, and as columns, which is what queries select by.  They
\* agree, unless a console has put back a document it read and only some of
\* the columns.  After a rescheduling the document is "stale", that of a job
\* never reserved so far, and state and lease below are those of the columns.
\* Below lane is the document's and listed the column's.
Document == {"current", "stale"}

\* The idempotency key of a job; the key is unique, so it names the row.
JobKey == [sub : Submissions, reason : Reasons, phase : Phase]

\* A grading run; ai tells whether the AI phase has work left on it.
Run == [job : JobKey, at : 1 .. MaxClock, ai : BOOLEAN]

Row == [state : JobState, attempts : Nat, worker : Workers \union {None},
        lease : Lease, ready : BOOLEAN, lane : JobLane, listed : JobLane,
        doc : Document, base : Run \union {None}, run : Run \union {None}]

ASSUME ConstantsAssumption ==
    /\ "submission" \in Reasons
    /\ NeedsTranscription \subseteq Submissions
    /\ PhasesOf \in [Workers -> SUBSET Phase]
    /\ LanesOf \in [Workers -> SUBSET JobLane]
    /\ MaxAttempts \in Nat \ {0}
    /\ MaxClock \in Nat /\ MaxStops \in Nat /\ MaxPresses \in Nat
    /\ Instructors \intersect Editors = {}
    /\ None \notin Workers /\ None \notin JobKey /\ None \notin Run

VARIABLES
    job,         \* the grading_jobs table: JobKey -> Row
    working,     \* what each worker process holds in memory
    saved,       \* the grading_runs table
    superseded,  \* <<old, new>> for every superseded_by column that is set
    outbox,      \* runs whose GradingCompleted event is in the outbox
    stale,       \* rows a console transaction has read and will write back
    stops,       \* attempts ended by stopping a worker so far
    presses      \* console write-backs so far

\* History, which no action reads: what the properties ask of the past.
VARIABLES
    charged,     \* per job, attempts not given back since a console wrote its row
    revived,     \* jobs that were done when a retry wrote an older copy back
    crossed      \* submissions that had a result recorded while another worker
                 \* held a run of theirs which it could still record

history == <<charged, revived, crossed>>

vars == <<job, working, saved, superseded, outbox, stale, stops, presses,
          charged, revived, crossed>>

-----------------------------------------------------------------------------
(* Job transitions: GradingJob's methods, each a new value of the row.     *)

AbsentRow ==
    [state |-> "absent", attempts |-> 0, worker |-> None, lease |-> "none",
     ready |-> FALSE, lane |-> "default", listed |-> "default", doc |-> "current",
     base |-> None, run |-> None]

NewRow(ready, base) ==
    [AbsentRow EXCEPT !.state = "queued", !.ready = ready, !.base = base]

Reserved(row, w) ==
    [row EXCEPT !.state = "running", !.attempts = @ + 1, !.listed = row.lane,
                !.lease = "live", !.worker = w, !.doc = "current"]

Released(row) ==
    [row EXCEPT !.state = "queued",
                !.attempts = IF @ > 0 THEN @ - 1 ELSE 0,
                !.ready = TRUE, !.lease = "none", !.worker = None]

\* A slip the runs must notice: the job goes back to the lane it came from.
MovedNowhere(row, lane) == Released(row)

MovedTo(row, lane) == [Released(row) EXCEPT !.lane = lane, !.listed = lane]

LeaseExtended(row) == [row EXCEPT !.lease = "live"]

\* A slip the runs must notice: the job names the job, not the run.
CompletedAsJob(row, run) ==
    [row EXCEPT !.state = "done", !.lease = "none", !.worker = None,
                !.run = run.job]

Completed(row, run) ==
    [row EXCEPT !.state = "done", !.lease = "none", !.worker = None,
                !.run = run]

Retried(row) ==
    [row EXCEPT !.state = "queued", !.attempts = 0, !.ready = TRUE,
                !.listed = row.lane, !.lease = "none", !.worker = None,
                !.doc = "current"]

\* A slip the runs must notice: the lease outlives the attempt.
GivenUpLeased(row) == [row EXCEPT !.state = "failed", !.worker = None]

GivenUp(row) ==
    [row EXCEPT !.state = "failed", !.lease = "none", !.worker = None]

\* Of the columns only available_at has changed since the read and is written;
\* the document is written whole, and a job never reserved has the first lane.
Rescheduled(row, ready) ==
    [row EXCEPT !.ready = ready, !.doc = "stale", !.attempts = 0,
                !.lane = "default", !.worker = None, !.run = None]

\* A slip the runs must notice: one attempt too many.
FailedLate(row, permanent) ==
    IF permanent \/ row.attempts > MaxAttempts
    THEN GivenUp(row)
    ELSE [row EXCEPT !.state = "queued", !.ready = FALSE,
                     !.lease = "none", !.worker = None]

\* A failure that is not final sends the job back behind its back-off time.
Failed(row, permanent) ==
    IF permanent \/ row.attempts >= MaxAttempts
    THEN GivenUp(row)
    ELSE [row EXCEPT !.state = "queued", !.ready = FALSE,
                     !.lease = "none", !.worker = None]

\* A slip the runs must notice: all regrades share one AI job.
FollowUpOfHandIn(j) == [j EXCEPT !.phase = "ai", !.reason = "submission"]

\* follow_up_idempotency_key: the key of the job that continues a job.
FollowUp(j) == [j EXCEPT !.phase = "ai"]

FirstJob(s) == [sub |-> s, reason |-> "submission", phase |-> "deterministic"]

-----------------------------------------------------------------------------
(* The runs of a submission                                                *)

RunsOf(s) == {r \in saved : r.job.sub = s}

Open(r) == \A p \in superseded : p[1] # r

Latest(s) == {r \in RunsOf(s) : \A q \in RunsOf(s) : q.at <= r.at}

\* A slip the runs must notice: nothing is ever superseded.
PreviousForgotten(s) == {None}

\* What _record_success will supersede: the latest run unless it already is.
\* Of two runs made at the same time latest_for returns either.
Previous(s) ==
    IF RunsOf(s) = {} THEN {None}
    ELSE {IF Open(r) THEN r ELSE None : r \in Latest(s)}

\* A slip the runs must notice: whoever comes later overwrites the mark.
SupersedableAlways(prev) == TRUE

\* supersede refuses a run that is superseded already.
Supersedable(prev) == prev # None => Open(prev)

-----------------------------------------------------------------------------
(* A worker process: what it is doing, with which reservation.             *)

Stage == {"idle", "grading", "graded", "recording"}

Idle == [stage |-> "idle", job |-> None, attempts |-> 0, run |-> None,
         prev |-> None]

Process == [stage : Stage, job : JobKey \union {None}, attempts : Nat,
            run : Run \union {None}, prev : Run \union {None}]

\* A slip the runs must notice: the row is read without a lock.
LockedNever(j) == FALSE

\* The job row is locked from RecordRead to the end of that transaction.
Locked(j) ==
    \E w \in Workers : working[w].stage = "recording" /\ working[w].job = j

\* A slip the runs must notice: an attempt writes without asking.
HeldUnasked(w) == TRUE

\* held_by, on the current value of the row.
Held(w) ==
    LET row == job[working[w].job]
    IN  /\ row.state = "running" /\ row.doc = "current"
        /\ row.worker = w
        /\ row.attempts = working[w].attempts

Attempting(w) == working[w].stage \in {"grading", "graded"}

\* A worker of the default lane alone does not transcribe: it hands off.
MustHandOff(w) ==
    /\ LanesOf[w] = {"default"}
    /\ working[w].job.phase = "deterministic"
    /\ working[w].job.sub \in NeedsTranscription

\* The runs of s that workers hold and have not saved.
InHand(s) == {working[w].run : w \in {v \in Workers :
                    working[v].run # None /\ working[v].job.sub = s}}

\* created_at of a run made now: the clock has moved on since a run that has
\* been saved was made, and has not gone back since one in hand was.
Now(s) ==
    {n \in 1 .. MaxClock :
        /\ \A r \in RunsOf(s) : r.at < n
        /\ \A r \in InHand(s) : r.at <= n
        /\ n = 1 \/ \E r \in RunsOf(s) \union InHand(s) : r.at \in {n - 1, n}}

NoCopies == [j \in JobKey |-> AbsentRow]

-----------------------------------------------------------------------------
Init ==
    /\ job = [j \in JobKey |-> AbsentRow]
    /\ working = [w \in Workers |-> Idle]
    /\ saved = {} /\ superseded = {} /\ outbox = {}
    /\ stale = [i \in Instructors \union Editors |-> NoCopies]
    /\ stops = 0 /\ presses = 0
    /\ charged = [j \in JobKey |-> 0]
    /\ revived = {} /\ crossed = {}

(* Intake: SubmissionIntake._enqueue.  A key that exists already returns   *)
(* the existing job and changes nothing.                                   *)

\* A learner hands in; ready is FALSE while the task's grading has not begun.
Accept(s, ready) ==
    /\ job[FirstJob(s)].state = "absent"
    /\ job' = [job EXCEPT ![FirstJob(s)] = NewRow(ready, None)]
    /\ UNCHANGED <<working, saved, superseded, outbox, stale, stops, presses, history>>

\* Staff ask for a regrade of a submission that was handed in.
Regrade(s, reason) ==
    LET j == [FirstJob(s) EXCEPT !.reason = reason]
    IN  /\ reason # "submission"
        /\ job[FirstJob(s)].state # "absent"
        /\ job[j].state = "absent"
        /\ job' = [job EXCEPT ![j] = NewRow(TRUE, None)]
        /\ UNCHANGED <<working, saved, superseded, outbox, stale, stops, presses, history>>

\* available_at is reached, or an instructor presses "grade now".
Wake(j) ==
    /\ job[j].state = "queued" /\ ~job[j].ready
    /\ job' = [job EXCEPT ![j].ready = TRUE]
    /\ UNCHANGED <<working, saved, superseded, outbox, stale, stops, presses, history>>

-----------------------------------------------------------------------------
(* Reservation: SqlJobQueue.reserve, which skips locked rows, looks at the *)
(* queued rows first, and fails every exhausted row it meets among those   *)
(* whose lease has run out (GradingJob.taken).                             *)

Takes(w, j) == j.phase \in PhasesOf[w] /\ job[j].listed \in LanesOf[w]

Waiting(w) == {j \in JobKey : /\ Takes(w, j) /\ ~Locked(j)
                              /\ job[j].state = "queued" /\ job[j].ready}

\* A slip the runs must notice: a live lease is no obstacle.
OrphanedOrNot(w) == {j \in JobKey : /\ Takes(w, j) /\ ~Locked(j)
                                    /\ job[j].state = "running"}

Orphaned(w) == {j \in JobKey : /\ Takes(w, j) /\ ~Locked(j)
                               /\ job[j].state = "running"
                               /\ job[j].lease = "expired"}

Exhausted(w) == {j \in Orphaned(w) : /\ job[j].doc = "current"
                                     /\ job[j].attempts >= MaxAttempts}

StartOn(w, j) ==
    working' = [working EXCEPT ![w] =
                    [Idle EXCEPT !.stage = "grading", !.job = j,
                                 !.attempts = job[j].attempts + 1]]

\* An attempt of j begins (by = 1), or is given back uncounted (by = -1).
Charge(j, by) == charged' = [charged EXCEPT ![j] = @ + by]

ReserveQueued(w, j) ==
    /\ working[w].stage = "idle"
    /\ j \in Waiting(w)
    /\ job' = [job EXCEPT ![j] = Reserved(@, w)]
    /\ StartOn(w, j) /\ Charge(j, 1)
    /\ UNCHANGED <<saved, superseded, outbox, stale, stops, presses, revived, crossed>>

\* failing: the exhausted rows that sort before j.
ReserveOrphaned(w, j, failing) ==
    /\ working[w].stage = "idle"
    /\ Waiting(w) = {}
    /\ j \in Orphaned(w) \ Exhausted(w)
    /\ job' = [k \in JobKey |-> IF k = j THEN Reserved(job[k], w)
                                ELSE IF k \in failing THEN GivenUp(job[k])
                                ELSE job[k]]
    /\ StartOn(w, j) /\ Charge(j, 1)
    /\ UNCHANGED <<saved, superseded, outbox, stale, stops, presses, revived, crossed>>

\* Nothing to hand out, but the exhausted rows are failed and committed.
ReserveNothing(w) ==
    /\ working[w].stage = "idle"
    /\ Waiting(w) = {}
    /\ Exhausted(w) # {}
    /\ Orphaned(w) = Exhausted(w)
    /\ job' = [k \in JobKey |-> IF k \in Exhausted(w) THEN GivenUp(job[k])
                                ELSE job[k]]
    /\ UNCHANGED <<working, saved, superseded, outbox, stale, stops, presses, history>>

-----------------------------------------------------------------------------
(* The lease                                                               *)

LeaseExpires(j) ==
    /\ job[j].state = "running" /\ job[j].lease = "live"
    /\ job' = [job EXCEPT ![j].lease = "expired"]
    /\ UNCHANGED <<working, saved, superseded, outbox, stale, stops, presses, history>>

\* renew_lease, from the thread that runs beside _grade.
RenewLease(w) ==
    /\ Attempting(w)
    /\ Held(w)
    /\ ~Locked(working[w].job)
    /\ job' = [job EXCEPT ![working[w].job] = LeaseExtended(@)]
    /\ UNCHANGED <<working, saved, superseded, outbox, stale, stops, presses, history>>

-----------------------------------------------------------------------------
(* The attempt: GradingWorker._grade and what is recorded of it            *)

\* The pipeline has produced the run; its feedback is still being written.
Grade(w, ai, at) ==
    LET j == working[w].job
    IN  /\ working[w].stage = "grading"
        /\ ~MustHandOff(w)
        /\ ai => j.phase = "deterministic"
        /\ at \in Now(j.sub)
        /\ working' = [working EXCEPT ![w].stage = "graded",
                            ![w].run = [job |-> j, at |-> at, ai |-> ai]]
        /\ UNCHANGED <<job, saved, superseded, outbox, stale, stops, presses, history>>

\* _record_success up to latest_for: the row is locked and still ours.
RecordRead(w, prev) ==
    /\ working[w].stage = "graded"
    /\ Held(w)
    /\ ~Locked(working[w].job)
    /\ prev \in Previous(working[w].job.sub)
    /\ working' = [working EXCEPT ![w].stage = "recording", ![w].prev = prev]
    /\ UNCHANGED <<job, saved, superseded, outbox, stale, stops, presses, history>>

\* A slip the runs must notice: the AI phase is left for a later transaction.
RowsWithoutFollowUp(j, run) == [job EXCEPT ![j] = Completed(@, run)]

\* The finished job, and the job of the AI phase if it has work and is new.
RowsWithResult(j, run) ==
    [k \in JobKey |->
        IF k = j THEN Completed(job[k], run)
        ELSE IF k = FollowUp(j) /\ run.ai /\ job[k].state = "absent"
             THEN NewRow(TRUE, run)
        ELSE job[k]]

\* Other workers that hold a run of the same submission and their job.
Rivals(w) ==
    {v \in Workers \ {w} : /\ working[v].stage \in {"graded", "recording"}
                           /\ working[v].job.sub = working[w].job.sub
                           /\ Held(v)}

\* The rest of _record_success: the run, the supersession of the one before,
\* the event, the finished job and the AI phase's job, in one commit.
RecordCommit(w) ==
    LET me == working[w]
    IN  /\ me.stage = "recording"
        /\ Supersedable(me.prev)
        /\ saved' = saved \union {me.run}
        /\ superseded' = IF me.prev = None THEN superseded
                          ELSE superseded \union {<<me.prev, me.run>>}
        /\ outbox' = outbox \union {me.run}
        /\ job' = RowsWithResult(me.job, me.run)
        /\ working' = [working EXCEPT ![w] = Idle]
        /\ crossed' = IF Rivals(w) = {} THEN crossed
                       ELSE crossed \union {me.job.sub}
        /\ UNCHANGED <<stale, stops, presses, charged, revived>>

\* supersede finds the run superseded already: the exception leaves run_once,
\* the transaction is rolled back and the process exits to be restarted.
RecordConflict(w) ==
    /\ working[w].stage = "recording"
    /\ ~Supersedable(working[w].prev)
    /\ working' = [working EXCEPT ![w] = Idle]
    /\ UNCHANGED <<job, saved, superseded, outbox, stale, stops, presses, history>>

\* What a worker writes about an attempt that gave no run to record.
Return(w, row) ==
    /\ Held(w)
    /\ ~Locked(working[w].job)
    /\ job' = [job EXCEPT ![working[w].job] = row]
    /\ working' = [working EXCEPT ![w] = Idle]
    /\ UNCHANGED <<saved, superseded, outbox, stale, presses, revived, crossed>>

RecordFailure(w, permanent) ==
    /\ Attempting(w)
    /\ Return(w, Failed(job[working[w].job], permanent))
    /\ UNCHANGED <<stops, charged>>

\* SIGTERM while grading: the attempt is given back uncounted.
RecordRelease(w) ==
    /\ Attempting(w)
    /\ stops < MaxStops
    /\ Return(w, Released(job[working[w].job]))
    /\ Charge(working[w].job, -1)
    /\ stops' = stops + 1

RecordHandOff(w) ==
    /\ working[w].stage = "grading"
    /\ MustHandOff(w)
    /\ Return(w, MovedTo(job[working[w].job], "transcription"))
    /\ Charge(working[w].job, -1)
    /\ UNCHANGED stops

\* Whatever the attempt came to, a worker that lost the job writes nothing.
LeaseLost(w) ==
    /\ Attempting(w)
    /\ ~Held(w)
    /\ ~Locked(working[w].job)
    /\ working' = [working EXCEPT ![w] = Idle]
    /\ UNCHANGED <<job, saved, superseded, outbox, stale, stops, presses, history>>

\* The process dies; an open transaction is rolled back.
Crash(w) ==
    /\ working[w].stage # "idle"
    /\ working' = [working EXCEPT ![w] = Idle]
    /\ UNCHANGED <<job, saved, superseded, outbox, stale, stops, presses, history>>

-----------------------------------------------------------------------------
(* The console: rows are read without a lock, changed in memory and        *)
(* written back.  An absent row in stale[i] is a row not read.             *)

ReadBack(i, wanted) ==
    /\ presses < MaxPresses
    /\ stale[i] = NoCopies /\ wanted # {}
    /\ stale' = [stale EXCEPT ![i] =
                    [j \in JobKey |-> IF j \in wanted THEN job[j] ELSE AbsentRow]]
    /\ UNCHANGED <<job, working, saved, superseded, outbox, stops, presses, history>>

HasRead(i) == {j \in JobKey : stale[i][j].state # "absent"}

\* The update waits for the row locks; then every copy read is written.
WriteBack(i, written) ==
    /\ HasRead(i) # {}
    /\ \A j \in HasRead(i) : ~Locked(j)
    /\ job' = [j \in JobKey |-> IF j \in HasRead(i) THEN written[j] ELSE job[j]]
    /\ charged' = [j \in JobKey |-> IF j \in HasRead(i) THEN 0 ELSE charged[j]]
    /\ stale' = [stale EXCEPT ![i] = NoCopies]
    /\ presses' = presses + 1
    /\ UNCHANGED <<working, saved, superseded, outbox, stops, crossed>>

\* retry_failed: failed_for, then update(job.retried(now)) for each.
RetryRead(i) == ReadBack(i, {j \in JobKey : job[j].state = "failed"})

\* update fetches the row again and writes the columns that differ from it, so
\* the whole row; but of the rows in kept, those the session still has or
\* which change after it has looked, it writes what the retry has changed.
\* (The lease column of a row that is not running is never looked at.)
RetryWrite(i, kept) ==
    /\ WriteBack(i, [j \in JobKey |->
            IF j \in kept
            THEN [Retried(stale[i][j]) EXCEPT !.listed = job[j].listed]
            ELSE Retried(stale[i][j])])
    /\ revived' = revived \union {j \in HasRead(i) : job[j].state = "done"}

\* reschedule_waiting: the hand-ins still asleep get the new start time.
RescheduleRead(e) ==
    ReadBack(e, {j \in JobKey : /\ job[j].state = "queued" /\ ~job[j].ready
                                /\ job[j].attempts = 0
                                /\ j.reason = "submission"})

RescheduleWrite(e, ready) ==
    /\ WriteBack(e, [j \in JobKey |-> Rescheduled(job[j], ready)])
    /\ UNCHANGED revived

-----------------------------------------------------------------------------
Intake ==
    \/ \E s \in Submissions, ready \in BOOLEAN : Accept(s, ready)
    \/ \E s \in Submissions, reason \in Reasons : Regrade(s, reason)

Reserve(w) ==
    \/ \E j \in JobKey : ReserveQueued(w, j)
    \/ \E j \in JobKey : \E failing \in SUBSET Exhausted(w) :
            ReserveOrphaned(w, j, failing)
    \/ ReserveNothing(w)

\* What a worker that is neither killed nor stopped does next.
Work(w) ==
    \/ Reserve(w)
    \/ \E ai \in BOOLEAN, at \in 1 .. MaxClock : Grade(w, ai, at)
    \/ \E prev \in saved \union {None} : RecordRead(w, prev)
    \/ RecordCommit(w)
    \/ RecordConflict(w)
    \/ \E permanent \in BOOLEAN : RecordFailure(w, permanent)
    \/ RecordHandOff(w)
    \/ LeaseLost(w)

Console ==
    \/ \E i \in Instructors : RetryRead(i)
    \/ \E i \in Instructors : \E kept \in SUBSET HasRead(i) : RetryWrite(i, kept)
    \/ \E e \in Editors : RescheduleRead(e)
    \/ \E e \in Editors, ready \in BOOLEAN : RescheduleWrite(e, ready)

Next ==
    \/ Intake
    \/ \E j \in JobKey : Wake(j) \/ LeaseExpires(j)
    \/ \E w \in Workers : Work(w) \/ RenewLease(w) \/ RecordRelease(w) \/ Crash(w)
    \/ Console

Spec == Init /\ [][Next]_vars

\* A lease nobody renews runs out in the end.
Abandoned(j) == \A w \in Workers : working[w].job = j => ~Held(w)

Fairness ==
    /\ \A w \in Workers : WF_vars(Work(w))
    /\ \A j \in JobKey : WF_vars(Wake(j))
    /\ \A j \in JobKey : WF_vars(Abandoned(j) /\ LeaseExpires(j))

FairSpec == Spec /\ Fairness

-----------------------------------------------------------------------------
(* What must hold                                                          *)

\* Every variable has its type; a run held or saved is a run.
TypeOK ==
    /\ job \in [JobKey -> Row]
    /\ working \in [Workers -> Process]
    /\ saved \subseteq Run /\ outbox \subseteq Run
    /\ superseded \subseteq Run \X Run
    /\ stale \in [Instructors \union Editors -> [JobKey -> Row]]
    /\ stops \in Nat /\ presses \in Nat
    /\ charged \in [JobKey -> Nat]
    /\ revived \subseteq JobKey /\ crossed \subseteq Submissions

\* The rows satisfy GradingJob's validator.  The transitions are made with
\* model_copy, which does not validate: a row that broke the rule would raise
\* on every later read, and with it stop every worker's reserve.
Readable(j, row) ==
    /\ row.state = "running" <=> row.lease # "none"
    /\ row.state = "running" /\ row.doc = "current" => row.worker # None
    /\ row.state = "done" /\ row.doc = "current" => row.run # None
    /\ row.state # "absent" => (j.phase = "ai" <=> row.base # None)

RowsReadable == \A j \in JobKey : Readable(j, job[j])

\* Until a console writes its row back (a retry, or a rescheduling of what it
\* read as never attempted) a job uses up at most max_attempts attempts, those
\* not counted that a stop or a hand-off gave back: dying workers and leases
\* that ran out do not make it one more.
AttemptsWithinLimit == \A j \in JobKey : charged[j] <= MaxAttempts

\* A job leaves one run, however many workers have attempted it, unless two
\* retries overlapped and the later wrote it back after it was done: nobody's
\* submission is otherwise graded twice for one reason and phase.
OneRunPerJob ==
    \A q, r \in saved : q.job = r.job => q = r \/ q.job \in revived

\* A saved run that left criteria to the AI has its AI job, which builds on
\* that very run (unless overlapping retries had the job done twice): no
\* submission is stranded with the provisional result of its tests.
AiPhasePromised ==
    \A r \in saved : r.ai =>
        /\ job[FollowUp(r.job)].state # "absent"
        /\ job[FollowUp(r.job)].base = r \/ r.job \in revived

\* An AI job builds on a saved run that asked for it.
AiBaseSaved ==
    \A j \in JobKey : job[j].base # None =>
        /\ job[j].base \in saved
        /\ job[j].base.ai
        /\ FollowUp(job[j].base.job) = j

\* No run is superseded by two runs: the history of a submission never forks.
NoForkedHistory ==
    \A p, q \in superseded : p[1] = q[1] => p = q

\* Console user i writes back, now, a copy of j read in one of these states.
WritesBack(i, j, states) ==
    stale[i][j].state \in states /\ stale'[i] = NoCopies

\* A finished job stays finished: a late failure, stop, hand-off or change of
\* the start time never sends it back to the queue.  Only a retry does that
\* had read it as failed, before another retry had it finished after all.
DoneIsFinal ==
    [][\A j \in JobKey : job[j].state = "done" =>
        \/ job'[j].state = "done"
        \/ \E i \in Instructors : WritesBack(i, j, {"failed"})]_vars

\* A reservation whose lease has not run out ends by its own worker's hand or
\* stays as it is, unless a console writes back what it had read while the
\* job was still asleep or had failed.
LeaseRespected ==
    [][\A j \in JobKey :
        job[j].state = "running" /\ job[j].lease = "live" =>
            \/ job'[j] \in {job[j], [job[j] EXCEPT !.lease = "expired"]}
            \/ \E w \in Workers : working[w].job = j /\ Held(w) /\ working'[w] = Idle
            \/ \E i \in Instructors : WritesBack(i, j, {"failed"})
            \/ \E e \in Editors : WritesBack(e, j, {"queued"})]_vars

\* Unless a result was recorded while another worker held a run of the same
\* submission that it could still record, the runs of a submission other than
\* its latest are superseded, through regrades and retries too: what
\* pass_rates and the statistics count is what the screens show.
LatestIsCurrent ==
    \A r \in saved : r.job.sub \in crossed \/ (Open(r) <=> r \in Latest(r.job.sub))

\* And no recorder of such a submission dies because the run it read as the
\* latest is superseded by the time it writes.
NoConflict ==
    \A w \in Workers : working[w].stage = "recording" =>
        \/ working[w].prev = None \/ Open(working[w].prev)
        \/ working[w].job.sub \in crossed

\* Every job that is handed in ends: its result arrives, or it is listed as
\* failed for an instructor.
EveryJobSettles ==
    \A j \in JobKey : job[j].state \in {"queued", "running"} ~>
                      job[j].state \in {"done", "failed"}

\* Workers, leases and races are invisible from outside: the queue behaves as
\* the service of GradingService.
Status(j) ==
    IF job[j].state \in {"queued", "running"} THEN "pending" ELSE job[j].state

HasAiWork(run) == run.ai

Service == INSTANCE GradingService WITH
    Jobs <- JobKey,
    Results <- Run,
    Continues <- HasAiWork,
    status <- [j \in JobKey |-> Status(j)],
    results <- [j \in JobKey |-> {r \in saved : r.job = j}],
    noticed <- [i \in Instructors |-> HasRead(i)]

ImplementsService == Service!Spec

-----------------------------------------------------------------------------
(* The invariants above are not inductive; these parts make them so.       *)

\* What a console holds is of the same kind as what it will be written over.
CopiesReadable ==
    \A i \in Instructors, j \in JobKey : stale[i][j].state # "absent" =>
        (j.phase = "ai" <=> stale[i][j].base # None)

\* A busy worker has a job, a run in hand is a run of that job, and it was
\* the deterministic phase that left work to the AI.
ProcessOK(me) ==
    /\ me.stage # "idle" => me.job \in JobKey
    /\ me.stage \in {"graded", "recording"} =>
            /\ me.run \in Run /\ me.run.job = me.job
            /\ me.run.ai => me.job.phase = "deterministic"

ProcessesOK == \A w \in Workers : ProcessOK(working[w])

\* Between its two steps the recording transaction still owns the job.
RecorderHolds ==
    \A w \in Workers : working[w].stage = "recording" => Held(w)

\* The attempts in the row are those charged to the job, and fewer than the
\* limit while it waits.
WithinLimit(row) ==
    /\ row.attempts <= MaxAttempts
    /\ row.state = "running" /\ row.doc = "current" => row.attempts > 0
    /\ row.state = "queued" => row.attempts < MaxAttempts
    /\ row.doc = "stale" \/ row.state = "absent" => row.attempts = 0

AttemptsCounted ==
    \A j \in JobKey : WithinLimit(job[j]) /\ charged[j] = job[j].attempts

\* A run is superseded only by a run recorded after it.
SupersededSaved == \A p \in superseded : p[1] \in saved

QueueInv ==
    /\ TypeOK /\ RowsReadable /\ CopiesReadable /\ AttemptsCounted
    /\ ProcessesOK /\ RecorderHolds /\ NoForkedHistory

\* The job of every saved run is finished, or was when a retry revived it.
RunsRecorded ==
    \A r \in saved : /\ job[r.job].state = "done" \/ r.job \in revived
                     /\ job[r.job].state # "absent"
                     /\ r.ai => r.job.phase = "deterministic"

\* What an instructor is about to write back had failed, and continues the run
\* that the row continues.
CopiesFailed ==
    \A i \in Instructors : \A j \in HasRead(i) :
        /\ stale[i][j].state = "failed" /\ stale[i][j].base = job[j].base
        /\ job[j].state # "absent"

\* What an editor is about to write back was waiting.
CopiesAsleep ==
    \A e \in Editors : \A j \in HasRead(e) : stale[e][j].state = "queued"

HistoryInv ==
    /\ QueueInv /\ OneRunPerJob /\ RunsRecorded /\ CopiesFailed /\ CopiesAsleep
    /\ AiBaseSaved /\ AiPhasePromised

\* What a recorder is about to supersede is a run of its submission.
PreviousOwn ==
    \A w \in Workers : LET me == working[w] IN
        me.stage = "recording" => me.prev \in RunsOf(me.job.sub) \union {None}

\* Unless results crossed, a run that can still be recorded was made later
\* than every run saved, and what it is about to supersede is the latest.
RunsFollow ==
    \A w \in Workers : LET me == working[w] IN
        me.stage \in {"graded", "recording"} /\ Held(w) /\ me.job.sub \notin crossed =>
            /\ \A r \in RunsOf(me.job.sub) : r.at < me.run.at
            /\ me.stage = "recording" =>
                    IF RunsOf(me.job.sub) = {} THEN me.prev = None
                    ELSE me.prev \in Latest(me.job.sub) /\ Open(me.prev)

\* And the clock tells its runs apart.
RunsOrdered ==
    \A q, r \in saved : q.job.sub = r.job.sub /\ q.at = r.at =>
        q = r \/ q.job.sub \in crossed

SequenceInv ==
    /\ QueueInv /\ SupersededSaved /\ PreviousOwn /\ RunsFollow /\ RunsOrdered
    /\ LatestIsCurrent

=============================================================================
