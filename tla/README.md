# aijudge: verification of its concurrent core

aijudge takes hand-ins from learners, grades them with deterministic checks and
an AI phase, lets instructors review and finalize the grades, and keeps a skill
record per learner. Web processes, grading workers, trial runners and a relay
run side by side and meet only in one PostgreSQL database: every hard behaviour
of the program is an interleaving of its transactions, a process that dies
between two of them, or a lease that runs out. This directory models that core
in TLA+, checks it with TLC and proves its safety with TLAPS.

Paths below are relative to the repository root.

## 1. Inventory

| Component | Keeps | Operations | Meets |
| --- | --- | --- | --- |
| Submission intake (`packages/submission/.../intake.py`) | submissions, artifacts, idempotency keys | `accept`, `request_regrade` | enqueues grading jobs |
| Grading queue (`jobs.py`, `SqlJobQueue` in `repositories.py`) | `grading_jobs`: a JSON document and columns, each row | `enqueue`, `reserve`, `lock`, `update`, `release_waiting`, `reschedule_waiting`, `failed_for` | workers, console |
| Grading worker (`apps/grader/.../worker.py`, `cli.py`) | the job in hand, a lease-renewing thread | `run_once` and its endings: success, failure, hand-off, release, lost lease, crash | queue, runs, outbox |
| Grading runs and outbox (`SqlGradingRunRepository`, `SqlOutbox`) | `grading_runs` with `superseded_by`, `outbox_events` | `save`, `supersede`, `latest_for`, `append` | written with the job that ends |
| Console on the queue (`manage/units.py`, `grading_start.py`, `regrade.py`) | nothing; rows read in one statement and written in another | `retry_failed`, `grade_now`, `reschedule_waiting`, regrade | queue |
| Trial runs (`apps/runner/.../runner.py`, `run_repository.py`, `ide/intake.py`, `ide/run.py`) | `run_requests` | POST of a run, polling, `reserve`, `expire_stale`, `_finish`, purge | tabs, runner processes |
| Event relay and skill records (`relay.py`, `skill_subscriber.py`, `packages/skill`) | `published_at`, `skill_observations`, `skill_states`, `skill_points` | `drain`, `apply`, `_refold`, rebuild | reads the outbox |
| Finalization and review (`finalization.py` twice, the review console) | `finalizations`, `human_reviews`, `review_requests` | `finalize_task`, `sweep_deadlines`, save a review, request and resolve a review | reads the latest runs and the AI jobs |
| Editor buffers and automatic submission (`ide.js`, `ide.py`, `autosubmit.py`, `buffer.py`) | `ide_buffers`, `ide_submission_links` | autosave, submit, close at the deadline and hand in for the learner | calls the intake, two requests and the sweep at once |
| Resumable uploads and video purge (`resumable.py`, `filestore.py`, `task.html`, `video_purge.py`) | a file and a JSON per upload, the video store, `purged_at` | create, `append`, `finish`, `submit_video`, `sweep`; plan, delete, mark | page, web processes and an operator's command on the same files |
| Scoring (`pipeline.py`, `core/grading.py`) | the runs it returns | `run` in two phases, `has_ai_work`, `aggregate`, `final_score` | called by workers, shown by the web |
| Tasks and their versions (`course_admin/authoring.py`, `tasks.py`, `manage/*.py`) | `tasks`, `task_versions`, drafts | `save_task` from six forms, drafts, schedule, withdrawal, deletion | two consoles and the learners' pages |
| Identity, LLM gateway, sandbox, grade book, audit, evaluation | sessions, caches, containers, read-only views | | sequential checks or pure I/O |

What is hard, and what makes each component correct:

* **Queue, workers, runs.** Leases run out under slow workers; two workers hold
  one job; workers crash, are stopped (the attempt is given back) or hand a job
  to the transcription lane; two jobs of one submission are recorded at once;
  consoles write back rows read earlier. Correct means: one run per job, no
  fork in the history of runs, the AI phase is queued with the run that calls
  for it, the attempts are limited, a finished job stays finished, no row ever
  breaks `GradingJob`'s validator (transitions use `model_copy`, which does not
  validate), and every job ends.
* **Trial runs.** Two tabs post together, web processes and runners clear away
  the same rows, runners die. Correct: one run in flight per learner, none
  executed twice, a result never overwritten by clearing away, and a waiting
  learner is answered even when every runner is down.
* **Relay and skills.** Events are delivered again, late and out of order, and a
  handler may raise. Correct: no published grading is lost, an earlier
  submission never displaces a later one, the mastery is that of the
  observations, every event is published.
* **Finalization.** An hourly sweep, bulk finalizations and graders close the same
  grades, while regrades, the AI phase and review requests come in; each reads in
  one statement and saves in another, without locks. Correct: a run is finalized
  once and for good, reviews, finalizations and answers agree, nothing is closed
  unread that must be read, and a grade that is due closes in the end.
* **Editor and intake.** Autosaves, a press of the button, a file beside the
  editor and the sweep go through the same `accept` at once; replies get lost and
  processes die between its steps. Correct: one submission per content and
  version with its files, a true record of who handed it in, and what was saved
  in time is handed in.
* **Uploads and purge.** The page resends what it got no answer for, while the
  server may still be at work on it; sessions expire, the database fails after the
  file has moved, the purge dies between deleting and marking. Correct: a
  submission has its video until the retention has passed, an upload becomes one
  submission, nothing is orphaned, the video is the file, what is purged says so.
* **Scoring.** A second phase continues a run whose weights were already
  redistributed and whose gate was decided without it; a review keeps only what
  differs from the machine. Correct: two phases give what one would have given, one
  answer is enough for a grade, a reviewed total is the rubric's, and a total that
  was shown stays.
* **Tasks.** Every form reads, rebuilds and writes a task in up to four
  transactions without a lock. Correct: the version a submission names is the one
  its learner read, what no instructor has seen is not published, a correction
  answered with success can be given to learners, and saving content changes no
  setting. Where two of these fall short is in section 5.

`PROJECT.json` lists each of these hazards at its line of code with the
properties that cover it, or the reason why none does.

## 2. Modules

| Module | What it is |
| --- | --- |
| `GradingService` | abstract specification: what the queue promises to those who put jobs in |
| `GradingQueue` | intake, queue, workers, runs, outbox and console; instantiates `GradingService` with a refinement mapping |
| `GradingQueueProofs` | its theorems |
| `RunService` | abstract specification: what a learner who asks for trial runs can count on |
| `TrialRuns`, `TrialRunsProofs` | trial runs; instantiates `RunService` with a refinement mapping; with theorems |
| `SkillRelay`, `SkillRelayProofs` | the relay and the skill records behind the outbox, with theorems |
| `Finalization`, `FinalizationProofs` | reviews, review requests, the sweep and bulk finalization, with theorems |
| `EditorIntake`, `EditorIntakeProofs` | editor, autosave, intake and automatic submission, with theorems |
| `ResumableUpload`, `ResumableUploadProofs` | upload sessions, the video store and the purge, with theorems |
| `Scoring`, `ScoringProofs` | how answers become a grade, in two phases, and what a review makes of it, with theorems |
| `TaskAuthoring`, `TaskAuthoringProofs` | one task, its versions, drafts, instructors and learners, with theorems |
| `MC...` | instances for TLC, one module per component |

The modules of different components are not instantiated in one another: they meet
where one commits what another reads, and each states at that border what it takes
from the other. A submission of `EditorIntake` is an `Accept` of `GradingQueue`
(submission, key, job and event are one commit); the events of `SkillRelay` are the
outbox of `GradingQueue`; the runs of `Finalization` come in the order
`LatestIsCurrent` grants where no results cross; the runs of `Scoring` are what `Grade` of `GradingQueue`
returns, and `HasAiWork` decides what that module leaves open.

`PROJECT.json` maps each definition to the lines it stands for. Definitions
introduced by "A slip the runs must notice" are no part of the specification:
they are faulty variants of the definition after them, used to see that each
checked property depends on the code being as it is.

### GradingQueue

A step is one database transaction, one stretch of a worker between two
transactions, or time passing. PostgreSQL runs at READ COMMITTED: a transaction
that takes a row lock and checks again under it is one step; one that reads
without a lock and writes later is two.

| Code | Model |
| --- | --- |
| `grading_jobs` row: document and columns | `job[key]`, with `doc` telling whether the document has fallen behind the columns |
| `available_at`, back-off, `release_waiting` | `ready`, set by `Wake`; a grading start may be in the future or not |
| `lease_expires_at` against now | `lease`: none, live, expired; `LeaseExpires` lets time pass |
| worker process | `working[w]`: idle, grading, graded or recording, with the reserved job, the attempt number `held_by` compares, and the run in hand |
| `SqlJobQueue.reserve`: exhausted rows fail, then queued, then orphaned | `ReserveQueued`, `ReserveOrphaned`, `ReserveNothing` |
| `run_once` and its endings | `Grade`, `RecordRead` then `RecordCommit` or `RecordConflict`, `RecordFailure`, `RecordRelease`, `RecordHandOff`, `LeaseLost`, `Crash` |
| `_keeping_lease` thread | `RenewLease`, at any moment of the grading |
| `retry_failed`, `reschedule_waiting` | `RetryRead`/`RetryWrite`, `RescheduleRead`/`RescheduleWrite` |
| `created_at` of a run | `at`, a clock that all workers read: later than the runs saved, no earlier than those in other hands, and not the order of commits |
| what `session.merge` finds to have changed | a retry writes the whole row, or leaves columns it believes unchanged (`kept`); a rescheduling writes the document and `available_at` |

What the pipeline computes is abstracted to a run and the fact that matters
later, whether the AI phase has work left. `_record_success` reads `latest_for`
without a lock and supersedes what it read under one; `RecordConflict` is the
exception that `supersede` raises when the run was superseded meanwhile, and
what follows from it: `run_once` calls `_record_success` outside its `try`, the
process exits, and systemd starts it again. The AI phase's job is made by
`_ai_job` with the default number of attempts while the intake passes its own;
both are three as configured, and the model has one `MaxAttempts`.

### TrialRuns

`runs` is the table, `tabs` the transactions of learners' POSTs and `runners`
the runner processes. The two transactions that begin with `expire_stale` (a
POST and a runner's `reserve`) keep the rows they expired locked until they
commit or roll back, and what they expired is invisible to others until then:
`expired` is what such a transaction has locked. `expire_stale` uses SKIP
LOCKED, so nobody waits for these locks. The partial unique index that permits
one run in flight per learner is `Collides`, and a collision rolls back the
POST's expiry as well (`PostCollides`). Times are abstracted to what the code
distinguishes: a request is recent (inside the 3 s cooldown), settled, or stale
(waiting for more than 30 s); a lease is live or expired. As the lease of 120 s
outlasts the cooldown, a lease that has run out belongs to a settled request. A
poll (`View`) is one short transaction and one step. Row locks are PostgreSQL's;
with SQLite, used in development, there is one runner and no such interleaving.

`RunService` knows none of this. It has the state of each request, whose it is,
`owed`, the requests that were started and whose result may still come, and
`accepted`, those whose result came while they were running and is to be written: in
the model what a runner executes (`Owed`), and what `_finish` has read as still held
(`Accepted`). There a request in flight may be given up at any time, one that is over
purged. A result is accepted only while the request is running, delivered only if
accepted, and once; a failure that was committed in between is replaced (section 5).

Two things seen in the model and harmless: a stale request that a POST has
locked when a runner clears away is skipped, and taken by that runner if the
POST is refused; and of two tabs the second may pass the cooldown check when the
first tab's run finishes between its check and its insert.

### SkillRelay

One learner and one knowledge component; others have rows of their own. An event
is a run's stamp (`occurred_at`), its submission, and whether it counts
(provisional and trial gradings, those without outcomes for the component or of
low confidence do not). `obs` is `skill_observations`, one row per task;
`mastery` is the set of observations that was folded, of which the mastery
value, its counts and its evidence are functions. `drain` reads a batch in one
transaction (`DrainRead`), calls the subscriber event by event, each in a
transaction of its own, and marks what was delivered in a last one
(`MarkPublished`). The subscriber's transaction lists the observations
(`ApplyRead`), and writes the observation and the refolded mastery later
(`ApplyWrite`). `HandlerFails` and `Crash` may come anywhere in between.
`absorbed` is a history variable: nothing reads it but a property.

### Finalization

The submissions of one course. `runs[s]` is the sequence of a submission's runs in
the order of `created_at`, taken for the order in which they are recorded: what
`LatestIsCurrent` of the queue says unless two results of the submission crossed. A run is
reduced to what it leaves to a person (`Kind`: `routing`, `unscored_criteria`,
`awaiting_human`), `pending` and `failed` count the AI jobs, and `due` the runs that
have outlived the grace, oldest first.

| Code | Model |
| --- | --- |
| `_apply`, called by `sweep_deadlines` and `finalize_task(s)` | `CloserRead` (the rows with their requests), `CloserCheck` (`jobs.awaiting`), `CloserCommit`, or `CloserCollides`: the whole course is rolled back |
| `auto_finalizable`, `bulk_finalizable`, `blocks_finalization`, `results_after_review` | `Closable` |
| `_submission_view`, then `request_review`'s own transaction | `AskView`, `AskSave` |
| `_load` of the review console, `_save_review` in another transaction | `GraderLoad`, `GraderCheck` (409 is `GraderRefused`), `GraderSave`, or `GraderCollides` |
| `_record_success`, `_record_failure`, `retry_failed` as far as they matter here | `RecordTests`, `RecordProvisional`, `RecordAi`, `AiGivesUp`, `RetryAi` |

The unique index on `finalizations.grading_run_id` is the only thing that two
writers meet at. In the model the second to commit collides; in the database it is
the second to insert, which differs in who wins and not in what can come out. The
rows of all tasks are read, and their AI jobs looked up, at one moment each; no
property relates two submissions. Left out: who is a grader (that only an
instructor may correct a review), the levels and comments, blind marks, the audit
records written along, and instructors who change the grace or
`results_after_review` of a task.

### EditorIntake

One learner and one task. `screen` and `dirty` are the script's variables; `calls`
holds up to two web requests and the sweep, each at the next thing it reads or
writes.

| Code | Model |
| --- | --- |
| `ide.js`: `markDirty`, `save`, the submit button, lost answers | `Type`, `SendSave`, `SendSubmit`, `LoseReply`; `Failed` is what makes an autosave due again |
| `_submission_gate` | `Refuse`, `Pass`: the only look at the window |
| `SubmissionService.accept` | `Find` (the key is there), or `PutFiles` then `Commit` or `Collide` (unique key at the flush) |
| the routes after `accept` | `AfterAccept`, `AfterFound`, `Stamp` (`make_buffer` takes the time), `SaveBuffer` |
| `close_editor_tasks`, `_close_one` | `SweepRead`, the same accept steps, `Mark` in a transaction of its own |

Content is a text with its task version, the material of `content_idempotency_key`.
Blank answers, which the sweep passes over and the button refuses, and files that
are rejected are left out; the timer's look-back of 24 hours is not exceeded.

### ResumableUpload

A file is a sequence of units, a unit being what one write makes visible. `page` is
the script of `task.html` in each tab, `remembered` the upload that `localStorage`
keeps and that every tab offers to resume, `file` the part
files and the video store in one function, `calls` the requests at work with the
file their handle is open on: on POSIX a handle follows a file that is moved and
writes to nothing once it is unlinked (`Repoint`); and with the tab that hears their
answer (`heard`). `cut` is a history variable: the uploads on which two requests may
have met, because a connection broke while the server worked on (`CutOff`) or
because a tab took an upload up while another was at it (`Resume`). `unheard` is
another: a commit that took effect and was reported as failed (`CommitUnheard`), which
makes the handlers delete the file like any other exception. `dropped` a third: the
files of the requests that a dying student web was serving.

| Code | Model |
| --- | --- |
| `sendChunk`, `askOffset`, `finish`, the resume button, a reload | `SendChunk`, `Broken`, `Ask`, `SendFinish`, `Resume`, `Leave`; `CutOff` is a broken connection whose request goes on |
| `append`: compare, open, write | `Check`, `Open`, `Write`, `Wrote` |
| `finish_upload`: `adopt`, `record_streamed`, `discard` | `Hash`, `Move`, `Look`, `Commit`, `Discard`, with `CommitFails`, `CommitUnheard` and `Restart` in between |
| `submit_video` | `SubmitVideo`, `Streamed`, then the same record |
| `get`'s ttl, `sweep` | `Expire`, `SweepExpired` |
| `plan_video_purge`, `purge_videos` | `Plan`, `Delete`/`DeleteFails`, `Mark`, `PurgeDies` |

### Scoring

Pure functions, driven by three steps: the tests answer, the AI answers, an
instructor puts a level on every criterion of a form. `Run` is `GradingPipeline.run` from
the scores to the routing, with its `RuntimeError` and the `ValueError` of `aggregate` as
`Rejected`; where an extraction failed (`unread`) a run without scores is made all the
same. `Judge` is its loop over the criteria, which consults the gate before
each; `RequiresReview` is the routing by confidence, weight (`Heavy`) and nearness to the
boundary (`Low`, `High`). `OnBase` and `AtOnce` are the two ways it is called. `Finalize` keeps of the form
the levels that differ from the machine's (`Differs`), and `Reviewed` finds the total
from what was kept, as `_reviewed_evaluation` does; `given`, the form itself, is history,
read by the property only. Which knowledge components a run speaks for
(`derive_kc_outcomes`) and the rounding and clamping of totals are left out. The loop (`Judging`) and the
sums (`Upto`) are functions of how many criteria have been gone through. Weights are integers with
sum `Weight` and ratios exact fractions, so the tolerance of the floating-point
comparison plays no part. Evaluators answer with a level or with nothing; a raising
one counts as nothing. Confidence is whether it suffices (`sure`).

### TaskAuthoring

`task` is the row of `tasks`, which holds what is not content (here: withdrawn, and
a schedule), `versions` the rows of `task_versions`. A content is a text, the tests
(typed or generated), an author and a provenance; a form that does not hold the tests
takes over those of the latest version, read or unread. `desk[i]` is the request an
instructor's console is working on, with what it has read.

| Code | Model |
| --- | --- |
| forms: revise, restore, generate tests, approve a draft, bundle, add | `Revise`, `Restore`, `GenerateTests`, `Approve`, `Import`, `Add` |
| `save_task`, first transaction: compares with `latest_version` | `Number` |
| second transaction: `get_task`, then `save_task`, `save_version` | `Carry`, `Commit`, or `Refuse` (409 or 500) |
| `_save_revision`'s write of the schedule, `_place_in_unit`, `delete_draft` | `Settle`, `Place`, `RemoveDraft` |
| `withdraw`, `set_task_schedule`, `delete` | `Withdraw`, `Schedule`, `Delete`, then `WriteSetting`, `Remove` |
| course page, `_task_and_course`, `accept` | `Open`, `Gate`, `Submit` |

`Rebuilt` is the `Task` that `save_task` builds, field by field: the withdrawal, which
no specification holds, is carried over (`KeptWithdrawal`), the schedule unless the
specification names one (`KeptDue`). SQLAlchemy writes a row only where it believes it
changed, so `Commit` leaves the row where what was built is what was read. Three
fields are history, which no action decides by: `touched` names the settings that
others have changed since a request began, `reopened` says that the task was deleted
while a page was open, and `late` that a deletion overlapped a submission, which
passed the gate before the task was removed, or came after the submissions were
counted.

## 3. Runs

| Run | Instance | Shows |
| --- | --- | --- |
| `queue_regrade` | one submission, hand-in and regrade, two interchangeable workers | `OneRunPerJob`, `AiPhasePromised`, `NoForkedHistory`, `LatestIsCurrent`, `NoConflict` |
| `queue_console` | one submission, two workers, two instructors and an editor, one stop | types, validator, attempts, `DoneIsFinal`, `LeaseRespected`, and that the queue implements `GradingService` |
| `queue_deployed` | the three workers of `deploy/systemd`, a submission to transcribe | `EveryJobSettles`, under fairness |
| `trial_runs` | two learners, three tabs, two runners, one crash | `OneInFlight`, `ExecutedOnce`, `EveryRunEnds`, and that trial runs implement `RunService` |
| `skill_relay` | three submissions of two tasks, three gradings in any order, a failing handler, a crash | `MasteryFollows`, `NothingLost`, `SubmissionsAdvance`, `EveryEventPublished` |
| `finalization` | a submission with two runs and one withheld until it is read; the sweep, one bulk finalization, one grader | `RecordsAgree`, `ClosedAsAllowed`, `FinalForGood`, `DueGradesClose` |
| `editor_intake` | two texts, two versions, two requests at once beside the sweep; two crashes, two lost replies | `SubmissionsSound`, `MarksTell`, `SavedIsHandedIn` |
| `uploads` | two tabs, a video of two units in pieces of one, two requests at once, one slot; one broken connection or doubled resumption, one fault | `VideoKept`, `OneOfAnUpload`, `NoOrphans`, `VideoIsTheFile`, `PurgeIsMarked` |
| `scoring` | three criteria of unequal weight, three levels, every assignment of evaluators | `TwoPhasesAgree`, `AnAnswerIsAGrade`, `ReviewedIsTheRubric`, `ShownStays` |
| `authoring` | two instructors, a learner, two texts, two schedules, three versions, three requests | `PinnedContent`, `AnsweredIsPublished`, `SettingsSurvive` |
| `ai_and_human`, `upload_overlap` | the smallest instance of each | the findings of section 5 |

**Bounds.** `MaxAttempts = 2` has a first, a last and a forbidden attempt; two
workers hold one job together, a third adds no new relation between two holders;
`MaxClock` is beyond the number of runs that can be saved, so stamps may tie and
be reversed between workers; one stop gives back an attempt. A press of a console
counts when it writes, so with one press all three consoles still read together and
write one after the other. For trial runs two
requests are enough for a collision in the index and for a refused POST that
holds locks; the invariant was in addition checked with three, and the proofs
hold for any number. For the relay three gradings are a replaced one, a
replacing one and one of another task, with a batch of two, so a batch boundary
lies between them. For finalization two runs are a superseded one and the latest,
of any kind but "review", which the other submission has; a third party to a
collision adds nothing to two. In the editor's run two requests and the sweep are
three writers of one key, and two versions a correction that is published between
the page and the sweep. In the uploads' run two tabs and two requests are
all that can meet on one upload, with a first and a last piece; half-written pieces
are in `upload_overlap`, whose piece has two units, and in the proofs. One fault
strikes anywhere; the proofs hold for any number of all of these. Three criteria in scoring are one
before a cut, the cut and one after it, in every assignment, with a weight above
`Heavy` and totals inside and outside the boundary; the proofs hold for any rubric and
any policy. Three requests of instructors are two that overlap and one that precedes or
follows, enough to delete a task and add it again under an open page, or to change a
setting during a save; the proofs hold for any number.
Workers named alike are symmetric where no property or fairness tells them apart. Deadlock is not checked, since each system may come to
rest: all work done, all bounds used up.

**Fairness, and why the code justifies it.** Workers, runners and the relay are
restarted by systemd and loop, so an enabled step of theirs that stays enabled is
taken (`Work`, `Reserving`, `Deliver`). Time passes (`Wake`, `LeaseExpires`,
`Settle`, `GrowStale`); a lease runs out only if nobody renews it, so its expiry
is fair for abandoned jobs only. The page of a learner who waits keeps asking
(`View`). A timer starts the sweep every hour
(`Closing(Sweep)`); no learner, grader or instructor need ever act, so
`DueGradesClose` lets a contested grade wait. A web request that was received is
worked on (`Serve`), and a timer starts `aijudge-ide-close` every minute
(`SweepStep`): that is all `SavedIsHandedIn` needs. The purge is a command; the weekly
preview tells an operator what is due, and `PurgeIsMarked` assumes that whoever is told
runs it, again after it died (`Purging`). Nothing is asked of crashes, stops, lease renewals, console operations
or new work; `EveryRunEnds` asks nothing of the runners' execution either. The
bounds on stops, crashes and failing handlers are real assumptions of liveness:
a worker stopped for ever, each stop giving the attempt back, would never end
its job, and a handler that always raises is never done with its event.

## 4. Proofs

The theorems hold for every value of the constants under the named assumptions
of each module. For each module: the inductive invariant holds initially, one
lemma for each action shows that it is kept, and the properties follow.

* **GradingQueue.** `QueueInv` (types, validator, attempts, what a process may
  hold, the recording transaction still owns the job, no fork) holds with any
  number of instructors and editors, as does all that follows. What goes beyond
  single rows needs more: `OneRunPerJob` is preserved because a finished job cannot
  be attempted, and this needs `RunsRecorded`: the job of a saved run is done, unless
  a retry revived it. A stale write revives a job only if what the instructor holds
  was read as failed (`CopiesFailed`) and another retry had it finished since; the
  history variable `revived` records when that happens, and the properties say that
  nothing else does it (section 5). `charged`, another, counts the attempts begun and
  not given back since a console wrote the row; the fields of the row that the code
  decides by agree with it (`AttemptsCounted`). `QueueImplementsService` proves the
  refinement: every step of the queue is a step of `GradingService`, or a stutter.
  `SequenceInv` is about the runs of a submission. What a worker can still record
  was made later than everything saved, and what it is about to supersede is the
  latest (`RunsFollow`); this is lost only when a result is recorded while another
  worker holds a run of the same submission and its own job, and `crossed` records
  that. `LatestIsCurrent` and `NoConflict` follow for all other submissions, with
  regrades, retries and reschedulings, whatever their number and that of the workers.
* **TrialRuns.** `RunsInv` adds to the properties that who numbers a
  request numbers it alone, that later rows are absent, and that no row is
  locked twice: only then does clearing away never touch a row that someone
  else is ending (the theorem `ExpiryKeepsResults`). `TrialRunsImplementService`
  proves the refinement of `RunService`. It needs `OwedIsOpen` on top: what a runner
  executes is still running, was given up, or is purged, hence the write of `_finish`,
  which looks at nothing, can replace a failure but never a result nor an expiry; and what a POST inserts has never been owed, as its number is new. A POST or
  reservation is one step of the service although its expiry is read earlier, since
  the rows it locked are in flight still when it commits.
* **SkillRelay.** `RelayInv` says that what the subscriber listed is what there
  is when it writes (`ListedIsCurrent`), that what is about to be marked has had
  its effect, and that stamps name runs. It needs `SingleRelay`, the deployment:
  of two relays, each folding what it listed, the later one would forget the
  observation of the other (`_apply_one` lists without a lock).
* **Finalization.** `FinalInv` adds to the checked properties that whatever is
  decided or in hand concerns recorded runs, that the rows a closer took stay
  allowed (a run keeps its kind and does not become less due), and that a review
  which leaves the finalization alone finds it there. A request may come at any
  moment, so nothing is said of requests for these rows.
* **EditorIntake.** `IntakeInv` adds to the properties that the content is in the
  store before the rows that name it, and that the sweep marks only what it made.
* **ResumableUpload.** `UploadInv` adds what a request has at each stage (`Formed`:
  before the move its key has no file, between the move and the record it has one and
  no submission), that keys are chosen once, and that the purge holds only what
  retention allows. The hardest step is `Unlink`: that the failing, repeated or
  colliding request takes away its own file and nobody else's. `VideoIsTheFile` needs
  more, and `WholeInv` says it: the only request whose answer a tab hears is the one
  it waits for, and any other was cut off (`Awaited`); one tab at a time is at work
  on an upload, unless another took it up meanwhile (`OneAtIt`); a handle leads to the
  file of its upload, or the upload was cut off and its file moved
  (`HandlesFollow`); what an upload that was never cut off has received is the
  beginning of the video (`Received`), a piece is written where the file ends
  (`Sending`), and the page finishes when the file is whole (`Finishing`). Without
  `HandlesFollow` a late request of another upload could write to the file;
  without `Awaited` or `OneAtIt` two requests could write one piece, as they do after a
  cut (section 5). The steps follow that order: what an action does to one request
  (`GoesOn`), to a file, to the page.
* **Scoring.** `ScoringInv` says that a run is what its phase makes of the answers
  and that the second phase comes only where the first left it something; the
  properties are then facts about the functions, for any rubric of positive weights
  and any number of levels. A sum or a loop over the criteria is a recursive
  function, so that it exists, is of its type, and obeys its laws is shown first, by
  taking a least counterexample in a well-founded order: sums over disjoint criteria
  add up, and asking goes through the criteria without undoing a score. Then the
  argument follows the code: a cut leaves the 0 that caused it, hence a score; so
  no reweighting divides by nothing, and scored, cut and awaiting weights come to
  the whole (`AnAnswerIsAGrade`). Where something is left to the AI the gate has cut
  nothing, hence the first run's scores are the tests' answers and the second phase
  begins like the first (`TwoPhasesAgree`). Where nothing is left nobody is asked; a
  shown total is such a one (`ShownStays`). `RunsAreValid` justifies what `Run` leaves
  out: the validators of `GradingRun` and `renormalize`'s own conditions, which
  no run breaks, as a spread weight is positive and never exceeds the whole.
* **TaskAuthoring.** `AuthoringInv` adds what a request knows (`Fits`): a field of the
  row that nobody else has changed is still as it was read, then as it was built, and
  after the schedule was written back the withdrawal at least. Whoever writes adds
  what changed to the others' `touched`, which keeps this true through any
  interleaving (`OthersFit`). `PagesHold` says that the version of a page, or of a
  request that was let in, is still there with its content unless the task was
  deleted, `Counted` that a deletion's count covers what came before it; every version
  is published exactly if its provenance allows.

Only model-checked is liveness under fairness, which is outside the logic of the
provers: `EveryJobSettles`, `EveryRunEnds`, `EveryEventPublished`, `DueGradesClose`,
`SavedIsHandedIn` and `PurgeIsMarked`. Every invariant and every action property of the
passing runs is stated by a theorem. No module declares a recursive operator.

## 5. Where the code departs from what it says of itself

Each run named here finds the shortest way to the state described in
`PROJECT.json` with the words of the repository it contradicts.

* `ai_and_human`: with a criterion for the AI, one for a human and none for the
  tests, the first phase fails on the sum of the weights, at every attempt; whether or
  not the text could be read.
* `upload_overlap`: a piece that is resent while its first request is still being
  served is appended twice. Two tabs that resume one upload can do the same.

Seen in the models without a run of their own.

Queue, trial runs, skills, finalization:

* Two jobs of one submission recorded at the same time may both find no earlier run;
  neither supersedes the other. The exception of a lost supersession race ends the
  worker process, where a comment (`repositories.py:582-583`) has the job retried as a
  transient failure.
* Overlapping retries of two instructors send a finished job back to the queue; a
  change of the grading start may undo a reservation in the document while its columns
  keep the lease, and with it the count of its attempts.
* `_finish` of the trial runs has a late result dropped so that a run shown as failed
  does not become done (`runner.py:323-327`), but looks in one step and writes in the
  next: a failure committed between them is replaced. `RunService` says how far the
  promise goes: a result that comes after the failure is dropped.
* Redelivered events may bring back a grading that a regrade replaced; two relays at
  once would make a mastery that lacks an observation; a batch of a hundred events
  whose handler always raises keeps every later event from being read.
* A review request saved between the read of a bulk finalization, or of the sweep, and
  its commit does not hold the grade open; a request on a run that a regrade superseded
  stays open; a finalization may land on a run superseded since it was read; an
  assistant's review may follow an instructor's on a grade finalized in between.

Editor, intake and uploads:

* What is typed while a submission is on its way counts as saved when the answer
  comes (`ide.js:843`), and is not saved before the next change, where ADR 0026:117
  lets at most the last ten seconds be lost.
* The loser of a race for a key fails with an error, where `repositories.py:161-162`
  says that the caller reads again; its stored files stay behind.
* A sweep that comes again after a correction was published hands the same buffer in
  a second time, as a submission of the new version. A crash between the submission
  and its link leaves an automatic submission unmarked for good.
* Autosaves may arrive out of order; the row keeps the one that arrived last.
* `append_upload` counts the active uploads before it has the body and takes its slot
  after, so the cap can be exceeded; an append after `discard` or `sweep` makes a
  `.part` file that nothing removes; a record that fails after the move has cost the
  learner the upload; a commit that took effect but raised, its answer being lost,
  leaves a submission whose video the handler has deleted (`app.py:1205-1207`,
  `1312-1314`); a finish whose answer was lost is uploaded again as a new one; a
  crash between the move and the record orphans the file.
* Between the purge's deletion and its mark a download finds 404, not 410.

Scoring and authoring:

* If the deterministic evaluators named by the criteria all fail, the job fails and
  the AI phase never runs. A criterion cut by the gate counts as adjusted in every
  review.
* `delete` counts the submissions in one transaction and deletes in another; one
  accepted in between keeps a version that is gone (`tasks.py:41` promises deletion
  only without submissions).
* `_save_revision` and `set_task_schedule` write back the whole task they read: a
  withdrawal or a schedule set meanwhile is undone, and a write in flight brings a
  deleted task back. Generated tests still make versions in review, a state that
  ADR 0019:73 says no longer exists.
* The docstring of `add_test_cases` (`task_data.py:388-401`) keeps generated tests from
  the learners until an instructor approves them. An approved draft
  (`drafts.py:437-457`), or a correction saved from a form without the test fields
  (`manage/tasks.py:747-788`), takes over the tests of the latest version, one in
  review as well, and publishes them under a provenance that needs no approval.
* The statement for which tests are generated is read before the model is asked; a
  correction saved meanwhile is missing from the version that goes to review.
* Version ids follow from the key and the number. A page that was opened before its
  task was deleted and added again submits against the new content.

## 6. Not modelled

`PROJECT.json` gives the reason for each component that is left out:

* Identity and sessions, grade book and statistics, audit: single transactions or
  read-only queries, each correct or not by itself.
* LLM gateway, sandbox, drafting: I/O against services and containers; what they
  return is a choice of the environment in the modules above.
* The web consoles' pages, code similarity, analytics, offline evaluation and the
  deployment tools are the larger half of the repository's lines: rendering, forms
  and sequential computation over data. That is why the map covers a small share of
  the implementation, though most of what runs concurrently.

Within modelled parts: measurement observations of the worker; sources and outcomes of
trial runs; the history of skill points and the rebuild of the skill records by
`aijudge-admin`, which reads runs in one transaction and replays them in another while
the relay goes on; rejected, converted and blank files of the intake; drafts of new
tasks, copying and moving of tasks, rubrics and knowledge components; the agreement of
several AI evaluators.

Starvation: `reserve` looks at queued jobs before orphaned ones, so an orphan
waits while new work keeps coming. `EveryJobSettles` is checked with finitely
many submissions and says nothing of endless arrivals.

## 7. What could follow

1. `SkillRelay`: the rebuild command, and the relay as the consumer of
   `GradingQueue`'s outbox.
2. `Finalization` over the runs of `GradingQueue` instead of its own, with its graders
   told apart.
3. `TaskAuthoring` for two tasks of a unit: moving, copying, positions.
