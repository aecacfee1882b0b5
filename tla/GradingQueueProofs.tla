------------------------- MODULE GradingQueueProofs -------------------------
(* Theorems of GradingQueue for every value of its constants.              *)
EXTENDS GradingQueue, TLAPS

-----------------------------------------------------------------------------
(* The transitions of a job row keep it typed, readable and within the     *)
(* limit of attempts.                                                      *)

Good(j, row) == row \in Row /\ Readable(j, row) /\ WithinLimit(row)

LEMMA AbsentRowGood ==
    ASSUME NEW j \in JobKey
    PROVE  Good(j, AbsentRow)
BY ConstantsAssumption
   DEF Good, AbsentRow, Row, JobState, Lease, JobLane, Document, Readable, WithinLimit

LEMMA NewRowGood ==
    ASSUME NEW j \in JobKey, NEW ready \in BOOLEAN, NEW base \in Run \union {None},
           j.phase = "ai" <=> base # None
    PROVE  Good(j, NewRow(ready, base))
<1> DEFINE row == NewRow(ready, base)
<1>1. AbsentRow \in Row
  BY DEF AbsentRow, Row, JobState, Lease, JobLane, Document
<1>2. row \in Row
  BY <1>1 DEF NewRow, Row, JobState
<1>3. Readable(j, row)
  BY DEF NewRow, AbsentRow, Readable
<1>4. WithinLimit(row)
  BY ConstantsAssumption DEF NewRow, AbsentRow, WithinLimit
<1> QED BY <1>2, <1>3, <1>4 DEF Good

LEMMA ReservedGood ==
    ASSUME NEW j \in JobKey, NEW row, Good(j, row), NEW w \in Workers,
           row.state \in {"queued", "running"}, row.attempts < MaxAttempts
    PROVE  Good(j, Reserved(row, w))
<1>1. row \in Row /\ row.attempts \in Nat /\ row.attempts + 1 \in Nat
  BY DEF Good, Row
<1>2. Reserved(row, w) \in Row
  BY <1>1 DEF Reserved, Row, JobState, JobLane, Lease, Document
<1>3. Readable(j, Reserved(row, w))
  BY <1>1, ConstantsAssumption DEF Good, Reserved, Row, Readable
<1>4. WithinLimit(Reserved(row, w))
  BY <1>1, ConstantsAssumption DEF Good, Reserved, Row, WithinLimit
<1> QED BY <1>2, <1>3, <1>4 DEF Good

LEMMA GivenUpGood ==
    ASSUME NEW j \in JobKey, NEW row, Good(j, row), row.state = "running"
    PROVE  Good(j, GivenUp(row))
<1>1. GivenUp(row) \in Row
  BY DEF Good, GivenUp, Row, JobState, Lease
<1>2. Readable(j, GivenUp(row))
  BY DEF Good, GivenUp, Row, Readable
<1>3. WithinLimit(GivenUp(row))
  BY DEF Good, GivenUp, Row, WithinLimit
<1> QED BY <1>1, <1>2, <1>3 DEF Good

LEMMA FailedGood ==
    ASSUME NEW j \in JobKey, NEW row, NEW permanent \in BOOLEAN, Good(j, row),
           row.state = "running"
    PROVE  Good(j, Failed(row, permanent))
<1>1. CASE permanent \/ row.attempts >= MaxAttempts
  BY <1>1, GivenUpGood DEF Failed
<1>2. CASE ~(permanent \/ row.attempts >= MaxAttempts)
  <2> DEFINE again == [row EXCEPT !.state = "queued", !.ready = FALSE,
                                  !.lease = "none", !.worker = None]
  <2>1. Failed(row, permanent) = again
    BY <1>2 DEF Failed
  <2>2. again \in Row
    BY DEF Good, Row, JobState, Lease
  <2>3. Readable(j, again)
    BY DEF Good, Row, Readable
  <2>4. row.attempts < MaxAttempts
    BY <1>2, ConstantsAssumption DEF Good, Row
  <2>5. WithinLimit(again)
    BY <2>4 DEF Good, Row, WithinLimit
  <2> QED BY <2>1, <2>2, <2>3, <2>5 DEF Good
<1> QED BY <1>1, <1>2

LEMMA ReleasedGood ==
    ASSUME NEW j \in JobKey, NEW row, Good(j, row), row.state = "running",
           row.doc = "current"
    PROVE  /\ Good(j, Released(row))
           /\ Good(j, MovedTo(row, "transcription"))
           /\ Released(row).attempts = row.attempts - 1
           /\ MovedTo(row, "transcription").attempts = row.attempts - 1
<1> DEFINE fewer == IF row.attempts > 0 THEN row.attempts - 1 ELSE 0
<1>1. row \in Row /\ fewer \in Nat /\ fewer < MaxAttempts /\ fewer = row.attempts - 1
  BY ConstantsAssumption DEF Good, Row, WithinLimit
<1>2. Released(row) = [row EXCEPT !.state = "queued", !.attempts = fewer,
                                  !.ready = TRUE, !.lease = "none", !.worker = None]
  BY DEF Released
<1> HIDE DEF fewer
<1>3. Released(row) \in Row /\ Readable(j, Released(row))
  BY <1>1, <1>2 DEF Good, Row, JobState, Lease, Readable
<1>4. /\ Released(row).attempts = fewer /\ Released(row).state = "queued"
      /\ Released(row).doc = "current"
  BY <1>1, <1>2 DEF Row
<1>5. WithinLimit(Released(row))
  BY <1>1, <1>4, ConstantsAssumption DEF WithinLimit
<1>6. MovedTo(row, "transcription") \in Row
  BY <1>3 DEF MovedTo, Row, JobLane
<1>7. Readable(j, MovedTo(row, "transcription"))
  BY <1>3 DEF MovedTo, Row, Readable
<1>8. WithinLimit(MovedTo(row, "transcription"))
  BY <1>3, <1>5 DEF MovedTo, Row, WithinLimit
<1>9. MovedTo(row, "transcription").attempts = Released(row).attempts
  BY <1>3 DEF MovedTo, Row
<1> QED BY <1>1, <1>3, <1>4, <1>5, <1>6, <1>7, <1>8, <1>9 DEF Good

LEMMA CompletedGood ==
    ASSUME NEW j \in JobKey, NEW row, NEW run \in Run, Good(j, row),
           row.state = "running"
    PROVE  Good(j, Completed(row, run))
<1>1. Completed(row, run) \in Row
  BY DEF Good, Completed, Row, JobState, Lease
<1>2. Readable(j, Completed(row, run))
  BY ConstantsAssumption DEF Good, Completed, Row, Readable
<1>3. WithinLimit(Completed(row, run))
  BY DEF Good, Completed, Row, WithinLimit
<1> QED BY <1>1, <1>2, <1>3 DEF Good

LEMMA RetriedGood ==
    ASSUME NEW j \in JobKey, NEW row \in Row, NEW listed \in JobLane,
           j.phase = "ai" <=> row.base # None
    PROVE  /\ Good(j, Retried(row))
           /\ Good(j, [Retried(row) EXCEPT !.listed = listed])
<1> DEFINE new == Retried(row)
<1>1. new \in Row
  BY DEF Retried, Row, JobState, JobLane, Lease, Document
<1>2. Readable(j, new)
  BY DEF Retried, Row, Readable
<1>3. WithinLimit(new)
  BY ConstantsAssumption DEF Retried, Row, WithinLimit
<1> HIDE DEF new
<1>4. Good(j, [new EXCEPT !.listed = listed])
  BY <1>1, <1>2, <1>3 DEF Good, Row, Readable, WithinLimit
<1> QED BY <1>1, <1>2, <1>3, <1>4 DEF Good, new

\* Changes that leave state and worker alone.
LEMMA TouchedGood ==
    ASSUME NEW j \in JobKey, NEW row, NEW ready \in BOOLEAN, Good(j, row)
    PROVE  /\ Good(j, [row EXCEPT !.ready = ready])
           /\ row.state = "running" => Good(j, [row EXCEPT !.lease = "expired"])
           /\ row.state = "running" => Good(j, LeaseExtended(row))
           /\ Good(j, Rescheduled(row, ready))
<1>1. Good(j, [row EXCEPT !.ready = ready])
  BY DEF Good, Row, Readable, WithinLimit
<1>2. row.state = "running" => /\ Good(j, [row EXCEPT !.lease = "expired"])
                               /\ Good(j, LeaseExtended(row))
  BY DEF Good, Row, Lease, LeaseExtended, Readable, WithinLimit
<1>3. Good(j, Rescheduled(row, ready))
  <2> DEFINE new == Rescheduled(row, ready)
  <2>1. new \in Row /\ Readable(j, new)
    BY DEF Good, Row, Document, JobLane, Readable, Rescheduled
  <2>2. WithinLimit(new)
    BY ConstantsAssumption DEF Good, Row, WithinLimit, Rescheduled
  <2> QED BY <2>1, <2>2 DEF Good
<1> QED BY <1>1, <1>2, <1>3

-----------------------------------------------------------------------------
(* QueueInv, arranged by variable                                          *)

JobsGood ==
    /\ job \in [JobKey -> Row] /\ \A j \in JobKey : Good(j, job[j])
    /\ charged = [j \in JobKey |-> job[j].attempts]

ProcessesGood == working \in [Workers -> Process] /\ ProcessesOK

HistoryGood ==
    /\ saved \subseteq Run /\ outbox \subseteq Run
    /\ superseded \subseteq Run \X Run
    /\ NoForkedHistory
    /\ crossed \subseteq Submissions

ConsoleGood ==
    /\ stale \in [Instructors \union Editors -> [JobKey -> Row]]
    /\ CopiesReadable
    /\ stops \in Nat /\ presses \in Nat
    /\ revived \subseteq JobKey

Parts == /\ JobsGood /\ ProcessesGood /\ RecorderHolds
         /\ HistoryGood /\ ConsoleGood

LEMMA QueueInvParts == QueueInv <=> Parts
<1>1. ASSUME job \in [JobKey -> Row]
      PROVE  charged = [j \in JobKey |-> job[j].attempts]
                <=> /\ charged \in [JobKey -> Nat]
                    /\ \A j \in JobKey : charged[j] = job[j].attempts
  BY <1>1 DEF Row
<1> QED BY <1>1
        DEF QueueInv, Parts, TypeOK, RowsReadable, AttemptsCounted, JobsGood, Good,
            ProcessesGood, HistoryGood, ConsoleGood

LEMMA RowChanged ==
    ASSUME JobsGood, NEW x \in JobKey, NEW row, Good(x, row),
           job' = [job EXCEPT ![x] = row],
           \/ charged' = [charged EXCEPT ![x] = row.attempts]
           \/ charged' = charged /\ row.attempts = job[x].attempts
    PROVE  JobsGood'
BY DEF JobsGood, Good

LEMMA JobsUnchanged ==
    ASSUME JobsGood, UNCHANGED <<job, charged>>
    PROVE  JobsGood'
BY DEF JobsGood, Good

LEMMA ProcessChanged ==
    ASSUME ProcessesGood, NEW w \in Workers, NEW me \in Process, ProcessOK(me),
           working' = [working EXCEPT ![w] = me]
    PROVE  ProcessesGood'
BY DEF ProcessesGood, ProcessesOK

LEMMA IdleOK == Idle \in Process /\ ProcessOK(Idle)
BY DEF Idle, Process, Stage, ProcessOK

\* What held_by compares is the same in two rows.
SameReservation(row, new) ==
    /\ new.state = row.state /\ new.doc = row.doc
    /\ new.worker = row.worker /\ new.attempts = row.attempts

LEMMA RecordersUndisturbed ==
    ASSUME RecorderHolds,
           \A v \in Workers : working'[v].stage = "recording" =>
                /\ working'[v] = working[v]
                /\ SameReservation(job[working[v].job], job'[working[v].job])
    PROVE  RecorderHolds'
BY DEF RecorderHolds, Held, SameReservation

LEMMA UnlockedRecorders ==
    ASSUME NEW j, ~Locked(j), NEW v \in Workers, working[v].stage = "recording"
    PROVE  working[v].job # j
BY DEF Locked

\* A locked job is running, and its recorder is alone.
LEMMA OneRecorder ==
    ASSUME RecorderHolds, NEW v \in Workers, NEW w \in Workers,
           working[v].stage = "recording", Held(w), working[w].job = working[v].job
    PROVE  v = w
BY DEF RecorderHolds, Held

LEMMA HistoryUnchanged ==
    ASSUME HistoryGood, UNCHANGED <<saved, superseded, outbox, crossed>>
    PROVE  HistoryGood'
BY DEF HistoryGood, NoForkedHistory

LEMMA ConsoleUnchanged ==
    ASSUME ConsoleGood, UNCHANGED <<stale, stops, presses, revived>>
    PROVE  ConsoleGood'
BY DEF ConsoleGood, CopiesReadable

-----------------------------------------------------------------------------
(* QueueInv is inductive: one lemma per action                             *)

LEMMA InitInv == Init => QueueInv
<1> SUFFICES ASSUME Init PROVE Parts
  BY QueueInvParts
<1>1. JobsGood
  <2>1. AbsentRow.attempts = 0
    BY DEF AbsentRow
  <2> QED BY <2>1, AbsentRowGood DEF Init, JobsGood, Good
<1>2. ProcessesGood
  BY IdleOK DEF Init, ProcessesGood, ProcessesOK
<1>3. RecorderHolds
  BY DEF Init, RecorderHolds, Idle
<1>4. HistoryGood
  BY DEF Init, HistoryGood, NoForkedHistory
<1>5. AbsentRow \in Row /\ AbsentRow.state = "absent"
  BY AbsentRowGood DEF Good, AbsentRow, Row, JobState, Lease, JobLane, Document
<1>6. ConsoleGood
  BY <1>5 DEF Init, ConsoleGood, CopiesReadable, NoCopies
<1> QED BY <1>1, <1>2, <1>3, <1>4, <1>6 DEF Parts

\* A write to a row that nobody has reserved.
LEMMA UnreservedWrite ==
    ASSUME QueueInv, NEW x \in JobKey, NEW row, Good(x, row),
           row.attempts = job[x].attempts,
           job[x].state # "running", job' = [job EXCEPT ![x] = row],
           UNCHANGED <<working, saved, superseded, outbox, stale, stops, presses, history>>
    PROVE  QueueInv'
<1>1. Parts
  BY QueueInvParts
<1>2. JobsGood'
  BY <1>1, RowChanged DEF Parts, history
<1>3. ProcessesGood'
  BY <1>1 DEF Parts, ProcessesGood, ProcessesOK
<1>4. RecorderHolds'
  <2> SUFFICES ASSUME NEW v \in Workers, working[v].stage = "recording"
               PROVE  SameReservation(job[working[v].job], job'[working[v].job])
    BY <1>1, RecordersUndisturbed DEF Parts
  <2>1. Held(v) /\ working[v].job # x
    BY <1>1 DEF Parts, RecorderHolds, Held
  <2>2. job'[working[v].job] = job[working[v].job]
    BY <1>1, <2>1 DEF Parts, JobsGood, ProcessesGood, ProcessesOK, ProcessOK
  <2> QED BY <2>2 DEF SameReservation
<1>5. HistoryGood' /\ ConsoleGood'
  BY <1>1, HistoryUnchanged, ConsoleUnchanged DEF Parts, history
<1>6. Parts'
  BY <1>2, <1>3, <1>4, <1>5 DEF Parts
<1> QED BY <1>6, QueueInvParts, PTL

LEMMA AcceptInv ==
    ASSUME QueueInv, NEW s \in Submissions, NEW ready \in BOOLEAN, Accept(s, ready)
    PROVE  QueueInv'
<1>1. FirstJob(s) \in JobKey /\ FirstJob(s).phase # "ai"
  BY ConstantsAssumption DEF FirstJob, JobKey, Phase
<1>2. Good(FirstJob(s), NewRow(ready, None))
  BY <1>1, NewRowGood
<1>3. NewRow(ready, None).attempts = job[FirstJob(s)].attempts
  BY <1>1, QueueInvParts
     DEF Parts, JobsGood, Good, WithinLimit, Accept, NewRow, AbsentRow
<1> QED BY <1>1, <1>2, <1>3, UnreservedWrite DEF Accept

LEMMA RegradeInv ==
    ASSUME QueueInv, NEW s \in Submissions, NEW reason \in Reasons, Regrade(s, reason)
    PROVE  QueueInv'
<1> DEFINE j == [FirstJob(s) EXCEPT !.reason = reason]
<1>1. j \in JobKey /\ j.phase # "ai"
  BY DEF FirstJob, JobKey, Phase
<1>2. Good(j, NewRow(TRUE, None))
  BY <1>1, NewRowGood
<1>3. job[j].state = "absent" /\ job' = [job EXCEPT ![j] = NewRow(TRUE, None)]
  BY DEF Regrade
<1>4. NewRow(TRUE, None).attempts = job[j].attempts
  BY <1>1, <1>3, QueueInvParts
     DEF Parts, JobsGood, Good, WithinLimit, NewRow, AbsentRow
<1> QED BY <1>1, <1>2, <1>3, <1>4, UnreservedWrite DEF Regrade

LEMMA WakeInv ==
    ASSUME QueueInv, NEW j \in JobKey, Wake(j)
    PROVE  QueueInv'
<1>1. Good(j, job[j])
  BY QueueInvParts DEF Parts, JobsGood
<1>2. Good(j, [job[j] EXCEPT !.ready = TRUE])
  BY <1>1, TouchedGood
<1>3. job' = [job EXCEPT ![j] = [job[j] EXCEPT !.ready = TRUE]]
  BY DEF Wake
<1>4. [job[j] EXCEPT !.ready = TRUE].attempts = job[j].attempts
  BY <1>1 DEF Good, Row
<1> QED BY <1>2, <1>3, <1>4, UnreservedWrite DEF Wake

\* A new lease on the row of a reservation that stays.
LEMMA LeaseWrite ==
    ASSUME QueueInv, NEW j \in JobKey, NEW row, Good(j, row),
           SameReservation(job[j], row), job' = [job EXCEPT ![j] = row],
           UNCHANGED <<working, saved, superseded, outbox, stale, stops, presses, history>>
    PROVE  QueueInv'
<1>1. Parts
  BY QueueInvParts
<1>2. JobsGood'
  BY <1>1, RowChanged DEF Parts, history, SameReservation
<1>3. ProcessesGood'
  BY <1>1 DEF Parts, ProcessesGood, ProcessesOK
<1>4. RecorderHolds'
  <2> SUFFICES ASSUME NEW v \in Workers, working[v].stage = "recording"
               PROVE  SameReservation(job[working[v].job], job'[working[v].job])
    BY <1>1, RecordersUndisturbed DEF Parts
  <2>1. working[v].job \in JobKey
    BY <1>1 DEF Parts, ProcessesGood, ProcessesOK, ProcessOK
  <2> QED BY <1>1, <2>1 DEF SameReservation, Parts, JobsGood
<1>5. HistoryGood' /\ ConsoleGood'
  BY <1>1, HistoryUnchanged, ConsoleUnchanged DEF Parts, history
<1>6. Parts'
  BY <1>2, <1>3, <1>4, <1>5 DEF Parts
<1> QED BY <1>6, QueueInvParts, PTL

LEMMA LeaseExpiresInv ==
    ASSUME QueueInv, NEW j \in JobKey, LeaseExpires(j)
    PROVE  QueueInv'
<1> DEFINE row == [job[j] EXCEPT !.lease = "expired"]
<1>1. Good(j, job[j]) /\ job[j] \in Row
  BY QueueInvParts DEF Parts, JobsGood, Good
<1>2. Good(j, row)
  BY <1>1, TouchedGood DEF LeaseExpires
<1>3. SameReservation(job[j], row)
  BY <1>1 DEF SameReservation, Row
<1>4. job' = [job EXCEPT ![j] = row]
  BY DEF LeaseExpires
<1> QED BY <1>2, <1>3, <1>4, LeaseWrite DEF LeaseExpires

LEMMA RenewLeaseInv ==
    ASSUME QueueInv, NEW w \in Workers, RenewLease(w)
    PROVE  QueueInv'
<1> DEFINE j == working[w].job
           row == LeaseExtended(job[j])
<1>1. j \in JobKey
  BY QueueInvParts
     DEF Parts, ProcessesGood, ProcessesOK, ProcessOK, RenewLease, Attempting
<1>2. Good(j, job[j]) /\ job[j] \in Row
  BY <1>1, QueueInvParts DEF Parts, JobsGood, Good
<1>3. Good(j, row)
  BY <1>1, <1>2, TouchedGood DEF RenewLease, Held
<1>4. SameReservation(job[j], row)
  BY <1>2 DEF SameReservation, LeaseExtended, Row
<1>5. job' = [job EXCEPT ![j] = row]
  BY DEF RenewLease
<1> QED BY <1>1, <1>3, <1>4, <1>5, LeaseWrite DEF RenewLease

\* A worker's step that leaves every row of another's reservation in place.
LEMMA WorkerStep ==
    ASSUME QueueInv, NEW w \in Workers, NEW me \in Process, ProcessOK(me),
           me.stage # "recording",
           working' = [working EXCEPT ![w] = me],
           JobsGood', HistoryGood',
           \A v \in Workers \ {w} : working[v].stage = "recording" =>
                job'[working[v].job] = job[working[v].job],
           UNCHANGED <<stale, presses, revived>>, stops' \in Nat
    PROVE  QueueInv'
<1>1. Parts
  BY QueueInvParts
<1>2. ProcessesGood'
  BY <1>1, ProcessChanged DEF Parts
<1>3. RecorderHolds'
  <2> SUFFICES ASSUME NEW v \in Workers, working'[v].stage = "recording"
               PROVE  /\ working'[v] = working[v]
                      /\ SameReservation(job[working[v].job], job'[working[v].job])
    BY <1>1, RecordersUndisturbed DEF Parts
  <2>1. v # w /\ working'[v] = working[v]
    BY <1>1 DEF Parts, ProcessesGood
  <2> QED BY <2>1 DEF SameReservation
<1>4. ConsoleGood'
  BY <1>1 DEF Parts, ConsoleGood, CopiesReadable
<1>5. Parts'
  BY <1>2, <1>3, <1>4 DEF Parts
<1> QED BY <1>5, QueueInvParts, PTL

\* The process gives up what it was doing and touches no table.
LEMMA BackToIdle ==
    ASSUME QueueInv, NEW w \in Workers, working' = [working EXCEPT ![w] = Idle],
           UNCHANGED <<job, saved, superseded, outbox, stale, stops, presses, history>>
    PROVE  QueueInv'
<1>1. Parts
  BY QueueInvParts
<1>2. JobsGood'
  BY <1>1, JobsUnchanged DEF Parts, history
<1>3. HistoryGood' /\ stops' \in Nat
  BY <1>1, HistoryUnchanged DEF Parts, ConsoleGood, history
<1>4. Idle.stage # "recording"
  BY DEF Idle
<1> QED BY <1>2, <1>3, <1>4, IdleOK, WorkerStep DEF history

\* What a worker holds just after a reservation.
LEMMA StartOnOK ==
    ASSUME QueueInv, NEW w \in Workers, NEW j \in JobKey, StartOn(w, j)
    PROVE  \E me \in Process : /\ ProcessOK(me) /\ me.stage # "recording"
                               /\ working' = [working EXCEPT ![w] = me]
<1> DEFINE me == [Idle EXCEPT !.stage = "grading", !.job = j,
                              !.attempts = job[j].attempts + 1]
<1>1. job[j].attempts \in Nat /\ job[j].attempts + 1 \in Nat
  BY QueueInvParts DEF Parts, JobsGood, Row
<1>2. me \in Process
  BY <1>1, IdleOK DEF Process, Stage
<1>3. me.stage = "grading" /\ me.job = j
  BY DEF Idle
<1>4. ProcessOK(me)
  BY <1>3 DEF ProcessOK
<1>5. working' = [working EXCEPT ![w] = me]
  BY DEF StartOn
<1> QED BY <1>2, <1>3, <1>4, <1>5

LEMMA ReserveQueuedInv ==
    ASSUME QueueInv, NEW w \in Workers, NEW j \in JobKey, ReserveQueued(w, j)
    PROVE  QueueInv'
<1>1. Parts
  BY QueueInvParts
<1>2. job[j].state = "queued" /\ ~Locked(j)
  BY DEF ReserveQueued, Waiting
<1>3. Good(j, Reserved(job[j], w))
  BY <1>1, <1>2, ReservedGood DEF Parts, JobsGood, Good, WithinLimit
<1>4. JobsGood'
  <2>1. Reserved(job[j], w).attempts = charged[j] + 1
    BY <1>1 DEF Parts, JobsGood, Row, Reserved
  <2>2. /\ job' = [job EXCEPT ![j] = Reserved(job[j], w)]
        /\ charged' = [charged EXCEPT ![j] = Reserved(job[j], w).attempts]
    BY <1>1, <2>1 DEF ReserveQueued, Charge, Parts, JobsGood
  <2> QED BY <1>1, <1>3, <2>2, RowChanged DEF Parts
<1>5. PICK me \in Process : /\ ProcessOK(me) /\ me.stage # "recording"
                            /\ working' = [working EXCEPT ![w] = me]
  BY StartOnOK DEF ReserveQueued
<1>6. ASSUME NEW v \in Workers \ {w}, working[v].stage = "recording"
      PROVE  job'[working[v].job] = job[working[v].job]
  BY <1>1, <1>2, <1>6, UnlockedRecorders
     DEF ReserveQueued, Parts, JobsGood, ProcessesGood, ProcessesOK, ProcessOK
<1>7. HistoryGood' /\ stops' \in Nat
  BY <1>1, HistoryUnchanged DEF ReserveQueued, Parts, ConsoleGood
<1> QED BY <1>4, <1>5, <1>6, <1>7, WorkerStep DEF ReserveQueued

\* Rows met by a reservation: running, lease gone, and nobody recording them.
LEMMA OrphanedGood ==
    ASSUME QueueInv, NEW w \in Workers, NEW k \in Orphaned(w)
    PROVE  /\ k \in JobKey /\ ~Locked(k) /\ job[k].state = "running"
           /\ Good(k, GivenUp(job[k])) /\ GivenUp(job[k]).attempts = job[k].attempts
           /\ k \notin Exhausted(w) => Good(k, Reserved(job[k], w))
<1>1. k \in JobKey /\ ~Locked(k) /\ job[k].state = "running"
  BY DEF Orphaned
<1>2. Good(k, job[k]) /\ job[k].attempts \in Nat /\ job[k].doc \in Document
  BY <1>1, QueueInvParts DEF Parts, JobsGood, Good, Row
<1>3. Good(k, GivenUp(job[k])) /\ GivenUp(job[k]).attempts = job[k].attempts
  BY <1>1, <1>2, GivenUpGood DEF Good, Row, GivenUp
<1>4. ASSUME k \notin Exhausted(w) PROVE job[k].attempts < MaxAttempts
  BY <1>1, <1>2, <1>4, ConstantsAssumption
     DEF Exhausted, Document, Good, WithinLimit
<1> QED BY <1>1, <1>2, <1>3, <1>4, ReservedGood

LEMMA ReserveOrphanedInv ==
    ASSUME QueueInv, NEW w \in Workers, NEW j \in JobKey,
           NEW failing \in SUBSET Exhausted(w), ReserveOrphaned(w, j, failing)
    PROVE  QueueInv'
<1>1. Parts
  BY QueueInvParts
<1>2. j \in Orphaned(w) /\ j \notin Exhausted(w) /\ failing \subseteq Orphaned(w)
  BY DEF ReserveOrphaned, Exhausted
<1>3. \A k \in JobKey : Good(k, job'[k])
  BY <1>1, <1>2, OrphanedGood DEF ReserveOrphaned, Parts, JobsGood
<1>4. JobsGood'
  <2>1. Reserved(job[j], w).attempts = charged[j] + 1
    BY <1>1 DEF Parts, JobsGood, Row, Reserved
  <2>2. charged' = [charged EXCEPT ![j] = @ + 1]
    BY DEF ReserveOrphaned, Charge
  <2>3. \A k \in JobKey : charged'[k] = job'[k].attempts
    BY <1>1, <1>2, <2>1, <2>2, OrphanedGood DEF ReserveOrphaned, Parts, JobsGood
  <2>4. charged' = [k \in JobKey |-> charged'[k]]
    BY <1>1, <2>2 DEF Parts, JobsGood
  <2> QED BY <1>3, <2>3, <2>4 DEF ReserveOrphaned, JobsGood, Good
<1>5. PICK me \in Process : /\ ProcessOK(me) /\ me.stage # "recording"
                            /\ working' = [working EXCEPT ![w] = me]
  BY StartOnOK DEF ReserveOrphaned
<1>6. ASSUME NEW v \in Workers \ {w}, working[v].stage = "recording"
      PROVE  job'[working[v].job] = job[working[v].job]
  <2>1. working[v].job \in JobKey /\ Locked(working[v].job)
    BY <1>1, <1>6 DEF Parts, ProcessesGood, ProcessesOK, ProcessOK, Locked
  <2>2. working[v].job # j /\ working[v].job \notin failing
    BY <1>2, <2>1, OrphanedGood
  <2> QED BY <2>1, <2>2 DEF ReserveOrphaned
<1>7. HistoryGood' /\ stops' \in Nat
  BY <1>1, HistoryUnchanged DEF ReserveOrphaned, Parts, ConsoleGood
<1> QED BY <1>4, <1>5, <1>6, <1>7, WorkerStep DEF ReserveOrphaned

LEMMA ReserveNothingInv ==
    ASSUME QueueInv, NEW w \in Workers, ReserveNothing(w)
    PROVE  QueueInv'
<1>1. Parts
  BY QueueInvParts
<1>2. Exhausted(w) \subseteq Orphaned(w)
  BY DEF Exhausted
<1>3. \A k \in JobKey : Good(k, job'[k])
  BY <1>1, <1>2, OrphanedGood DEF ReserveNothing, Parts, JobsGood
<1>4. JobsGood'
  <2>1. \A k \in JobKey : charged'[k] = job'[k].attempts
    BY <1>1, <1>2, OrphanedGood DEF ReserveNothing, Parts, JobsGood, history
  <2>2. charged' = [k \in JobKey |-> charged'[k]]
    BY <1>1 DEF ReserveNothing, Parts, JobsGood, history
  <2> QED BY <1>3, <2>1, <2>2 DEF ReserveNothing, JobsGood, Good
<1>5. ASSUME NEW v \in Workers, working[v].stage = "recording"
      PROVE  job'[working[v].job] = job[working[v].job]
  <2>1. working[v].job \in JobKey /\ Locked(working[v].job)
    BY <1>1, <1>5 DEF Parts, ProcessesGood, ProcessesOK, ProcessOK, Locked
  <2>2. working[v].job \notin Exhausted(w)
    BY <1>2, <2>1, OrphanedGood
  <2> QED BY <2>1, <2>2 DEF ReserveNothing
<1>6. /\ HistoryGood' /\ stops' \in Nat
      /\ working[w] \in Process /\ ProcessOK(working[w])
      /\ working[w].stage # "recording"
      /\ working' = [working EXCEPT ![w] = working[w]]
  BY <1>1, HistoryUnchanged
     DEF ReserveNothing, Parts, ConsoleGood, ProcessesGood, ProcessesOK, history
<1> QED BY <1>4, <1>5, <1>6, WorkerStep DEF ReserveNothing, history

LEMMA GradeInv ==
    ASSUME QueueInv, NEW w \in Workers, NEW ai \in BOOLEAN, NEW at \in 1 .. MaxClock,
           Grade(w, ai, at)
    PROVE  QueueInv'
<1> DEFINE j == working[w].job
           run == [job |-> j, at |-> at, ai |-> ai]
           me == [working[w] EXCEPT !.stage = "graded", !.run = run]
<1>1. Parts
  BY QueueInvParts
<1>2. working[w] \in Process /\ j \in JobKey /\ working[w].stage = "grading"
  BY <1>1 DEF Grade, Parts, ProcessesGood, ProcessesOK, ProcessOK
<1>3. run \in Run
  BY <1>2 DEF Run
<1>4. me \in Process
  BY <1>2, <1>3 DEF Process, Stage
<1>5. me.stage = "graded" /\ me.job = j /\ me.run = run
  BY <1>2 DEF Process
<1>6. ai => j.phase = "deterministic"
  BY DEF Grade
<1>7. ProcessOK(me)
  BY <1>2, <1>3, <1>5, <1>6 DEF ProcessOK
<1>8. working' = [working EXCEPT ![w] = me]
  BY <1>1 DEF Grade, Parts, ProcessesGood
<1>9. JobsGood' /\ HistoryGood' /\ stops' \in Nat
  BY <1>1, JobsUnchanged, HistoryUnchanged DEF Grade, Parts, ConsoleGood, history
<1> HIDE DEF me, run
<1> QED BY <1>4, <1>5, <1>7, <1>8, <1>9, WorkerStep DEF Grade, history

LEMMA RecordReadInv ==
    ASSUME QueueInv, NEW w \in Workers, NEW prev \in saved \union {None},
           RecordRead(w, prev)
    PROVE  QueueInv'
<1> DEFINE me == [working[w] EXCEPT !.stage = "recording", !.prev = prev]
<1>1. Parts
  BY QueueInvParts
<1>2. working[w] \in Process /\ ProcessOK(working[w]) /\ working[w].stage = "graded"
  BY <1>1 DEF RecordRead, Parts, ProcessesGood, ProcessesOK
<1>3. me \in Process
  BY <1>1, <1>2 DEF Process, Stage, Parts, HistoryGood
<1>4. /\ me.stage = "recording" /\ me.job = working[w].job
      /\ me.run = working[w].run /\ me.attempts = working[w].attempts
  BY <1>2 DEF Process
<1>5. ProcessOK(me)
  BY <1>2, <1>4 DEF ProcessOK
<1>6. working' = [working EXCEPT ![w] = me]
  BY <1>1 DEF RecordRead, Parts, ProcessesGood
<1> HIDE DEF me
<1>7. ProcessesGood'
  BY <1>1, <1>3, <1>5, <1>6, ProcessChanged DEF Parts
<1>8. RecorderHolds'
  <2> SUFFICES ASSUME NEW v \in Workers, working'[v].stage = "recording"
               PROVE  Held(v)'
    BY DEF RecorderHolds
  <2>1. CASE v = w
    BY <1>1, <1>4, <1>6, <2>1 DEF RecordRead, Held, Parts, ProcessesGood
  <2>2. CASE v # w
    BY <1>1, <1>6, <2>2 DEF RecordRead, Held, Parts, ProcessesGood, RecorderHolds
  <2> QED BY <2>1, <2>2
<1>9. JobsGood' /\ HistoryGood' /\ ConsoleGood'
  BY <1>1, JobsUnchanged, HistoryUnchanged, ConsoleUnchanged DEF RecordRead, Parts, history
<1>10. Parts'
  BY <1>7, <1>8, <1>9 DEF Parts
<1> QED BY <1>10, QueueInvParts, PTL

\* What a recording worker has in hand when it commits.
LEMMA RecorderFacts ==
    ASSUME QueueInv, NEW w \in Workers, working[w].stage = "recording"
    PROVE  /\ working[w].job \in JobKey /\ working[w].run \in Run
           /\ working[w].run.job = working[w].job
           /\ working[w].run.ai => working[w].job.phase = "deterministic"
           /\ working[w].prev \in Run \union {None}
           /\ job[working[w].job].state = "running"
           /\ Held(w)
BY QueueInvParts
   DEF Parts, ProcessesGood, ProcessesOK, ProcessOK, Process, RecorderHolds, Held

LEMMA RecordCommitInv ==
    ASSUME QueueInv, NEW w \in Workers, RecordCommit(w)
    PROVE  QueueInv'
<1> DEFINE j == working[w].job
           run == working[w].run
           prev == working[w].prev
           next == FollowUp(j)
<1>1. Parts
  BY QueueInvParts
<1>2. working[w].stage = "recording"
  BY DEF RecordCommit
<1>3. /\ j \in JobKey /\ run \in Run /\ run.job = j
      /\ run.ai => j.phase = "deterministic"
      /\ prev \in Run \union {None} /\ job[j].state = "running" /\ Held(w)
  BY <1>2, RecorderFacts
<1>4. next \in JobKey /\ next.phase = "ai"
  BY <1>3 DEF FollowUp, JobKey, Phase
<1>5. Good(j, Completed(job[j], run)) /\ Good(next, NewRow(TRUE, run))
  BY <1>1, <1>3, <1>4, CompletedGood, NewRowGood, ConstantsAssumption DEF Parts, JobsGood
<1>6. \A k \in JobKey : job'[k] =
            IF k = j THEN Completed(job[k], run)
            ELSE IF k = next /\ run.ai /\ job[k].state = "absent"
                 THEN NewRow(TRUE, run)
            ELSE job[k]
  BY DEF RecordCommit, RowsWithResult
<1>7. JobsGood'
  <2>1. \A k \in JobKey : Good(k, job'[k])
    BY <1>1, <1>5, <1>6 DEF Parts, JobsGood
  <2>2. DOMAIN job' = JobKey /\ job' = [k \in JobKey |-> job'[k]]
    BY DEF RecordCommit, RowsWithResult
  <2>3. Completed(job[j], run).attempts = job[j].attempts
    BY <1>1, <1>3 DEF Completed, Row, Parts, JobsGood
  <2>4. NewRow(TRUE, run).attempts = 0
    BY DEF NewRow, AbsentRow
  <2>5. \A k \in JobKey : job'[k].attempts = job[k].attempts
    BY <1>1, <1>4, <1>6, <2>3, <2>4 DEF Parts, JobsGood, Good, WithinLimit
  <2>6. charged' = [k \in JobKey |-> job'[k].attempts]
    BY <1>1, <2>5 DEF RecordCommit, Parts, JobsGood
  <2> QED BY <2>1, <2>2, <2>6 DEF JobsGood, Good
<1>8. HistoryGood'
  <2>1. /\ saved' \subseteq Run /\ outbox' \subseteq Run
        /\ crossed' \subseteq Submissions
    BY <1>1, <1>3 DEF RecordCommit, Parts, HistoryGood, JobKey
  <2>2. CASE prev = None
    BY <1>1, <2>1, <2>2 DEF RecordCommit, Parts, HistoryGood, NoForkedHistory
  <2>3. CASE prev # None
    <3>1. superseded' = superseded \union {<<prev, run>>} /\ prev \in Run
      BY <1>3, <2>3 DEF RecordCommit
    <3>2. \A p \in superseded : p[1] # prev
      BY <2>3 DEF RecordCommit, Supersedable, Open
    <3>3. \A p, q \in superseded' : p[1] = q[1] => p = q
      BY <1>1, <3>1, <3>2 DEF Parts, HistoryGood, NoForkedHistory
    <3>4. superseded' \subseteq Run \X Run
      BY <1>1, <1>3, <3>1 DEF Parts, HistoryGood
    <3> QED BY <2>1, <3>3, <3>4 DEF HistoryGood, NoForkedHistory
  <2> QED BY <2>2, <2>3
<1>9. ASSUME NEW v \in Workers \ {w}, working[v].stage = "recording"
      PROVE  job'[working[v].job] = job[working[v].job]
  <2>1. /\ working[v].job \in JobKey /\ job[working[v].job].state = "running"
        /\ working[v].job # j
    BY <1>1, <1>3, <1>9, RecorderFacts, OneRecorder DEF Parts
  <2> QED BY <1>6, <2>1
<1>10. Idle.stage # "recording" /\ stops' \in Nat
  BY <1>1 DEF Idle, RecordCommit, Parts, ConsoleGood
<1> QED BY <1>7, <1>8, <1>9, <1>10, IdleOK, WorkerStep DEF RecordCommit

\* A worker that still holds its job hands the row back as row.
LEMMA ReturnInv ==
    ASSUME QueueInv, NEW w \in Workers, NEW row, Attempting(w), Return(w, row),
           stops' \in Nat,
           (/\ Good(working[w].job, job[working[w].job])
            /\ job[working[w].job].state = "running"
            /\ job[working[w].job].doc = "current")
                => /\ Good(working[w].job, row)
                   /\ \/ /\ row.attempts = job[working[w].job].attempts
                         /\ charged' = charged
                      \/ /\ row.attempts = job[working[w].job].attempts - 1
                         /\ Charge(working[w].job, -1)
    PROVE  QueueInv'
<1> DEFINE j == working[w].job
<1>1. Parts
  BY QueueInvParts
<1>2. j \in JobKey /\ ~Locked(j) /\ Held(w)
  BY <1>1
     DEF Return, Parts, ProcessesGood, ProcessesOK, ProcessOK, Attempting
<1>3. /\ Good(j, row)
      /\ \/ charged' = charged /\ row.attempts = job[j].attempts
         \/ row.attempts = job[j].attempts - 1 /\ Charge(j, -1)
  BY <1>1, <1>2 DEF Parts, JobsGood, Held
<1>4. JobsGood'
  <2>1. charged[j] = job[j].attempts /\ job[j].attempts \in Nat
    BY <1>1, <1>2 DEF Parts, JobsGood, Row
  <2>2. \/ charged' = [charged EXCEPT ![j] = row.attempts]
        \/ charged' = charged /\ row.attempts = job[j].attempts
    <3>1. CASE charged' = charged /\ row.attempts = job[j].attempts
      BY <3>1
    <3>2. CASE row.attempts = job[j].attempts - 1 /\ Charge(j, -1)
      <4>1. charged[j] + (-1) = row.attempts
        BY <2>1, <3>2
      <4> QED BY <3>2, <4>1 DEF Charge
    <3> QED BY <1>3, <3>1, <3>2
  <2> QED BY <1>1, <1>2, <1>3, <2>2, RowChanged DEF Return, Parts
<1>5. ASSUME NEW v \in Workers \ {w}, working[v].stage = "recording"
      PROVE  job'[working[v].job] = job[working[v].job]
  BY <1>1, <1>2, <1>5, UnlockedRecorders
     DEF Return, Parts, JobsGood, ProcessesGood, ProcessesOK, ProcessOK
<1>6. HistoryGood'
  BY <1>1, HistoryUnchanged DEF Return, Parts
<1>7. Idle.stage # "recording"
  BY DEF Idle
<1> QED BY <1>4, <1>5, <1>6, <1>7, IdleOK, WorkerStep DEF Return

LEMMA AttemptEndsInv ==
    ASSUME QueueInv, NEW w \in Workers,
           \/ \E permanent \in BOOLEAN : RecordFailure(w, permanent)
           \/ RecordRelease(w)
           \/ RecordHandOff(w)
    PROVE  QueueInv'
<1> DEFINE j == working[w].job
<1>1. stops \in Nat /\ j \in JobKey /\ Attempting(w)
  BY QueueInvParts
     DEF Parts, ConsoleGood, ProcessesGood, ProcessesOK, ProcessOK, Attempting,
         RecordFailure, RecordRelease, RecordHandOff
<1>2. ASSUME NEW permanent \in BOOLEAN, RecordFailure(w, permanent)
      PROVE  QueueInv'
  <2>1. Return(w, Failed(job[j], permanent)) /\ stops' \in Nat
    BY <1>1, <1>2 DEF RecordFailure
  <2>3. charged' = charged
    BY <1>2 DEF RecordFailure
  <2>2. Good(j, job[j]) /\ job[j].state = "running" /\ job[j].doc = "current"
            => /\ Good(j, Failed(job[j], permanent))
               /\ Failed(job[j], permanent).attempts = job[j].attempts
    BY <1>1, FailedGood DEF Failed, GivenUp, Good, Row
  <2> QED BY <1>1, <2>1, <2>2, <2>3, ReturnInv
<1>3. CASE RecordRelease(w)
  <2>1. Return(w, Released(job[j])) /\ stops' \in Nat
    BY <1>1, <1>3 DEF RecordRelease
  <2>2. Good(j, job[j]) /\ job[j].state = "running" /\ job[j].doc = "current"
            => /\ Good(j, Released(job[j]))
               /\ Released(job[j]).attempts = job[j].attempts - 1
    BY <1>1, ReleasedGood
  <2>3. Charge(j, -1)
    BY <1>3 DEF RecordRelease
  <2> QED BY <1>1, <2>1, <2>2, <2>3, ReturnInv
<1>4. CASE RecordHandOff(w)
  <2>1. Return(w, MovedTo(job[j], "transcription")) /\ stops' \in Nat
    BY <1>1, <1>4 DEF RecordHandOff
  <2>2. Good(j, job[j]) /\ job[j].state = "running" /\ job[j].doc = "current"
            => /\ Good(j, MovedTo(job[j], "transcription"))
               /\ MovedTo(job[j], "transcription").attempts = job[j].attempts - 1
    BY <1>1, ReleasedGood
  <2>3. Charge(j, -1)
    BY <1>4 DEF RecordHandOff
  <2> QED BY <1>1, <2>1, <2>2, <2>3, ReturnInv
<1> QED BY <1>2, <1>3, <1>4

LEMMA GoesIdleInv ==
    ASSUME QueueInv, NEW w \in Workers, RecordConflict(w) \/ LeaseLost(w) \/ Crash(w)
    PROVE  QueueInv'
BY BackToIdle DEF RecordConflict, LeaseLost, Crash

LEMMA ReadBackInv ==
    ASSUME QueueInv, NEW i \in Instructors \union Editors, NEW wanted \in SUBSET JobKey,
           \A j \in wanted : job[j].state # "absent", ReadBack(i, wanted)
    PROVE  QueueInv'
<1> DEFINE copies == [j \in JobKey |-> IF j \in wanted THEN job[j] ELSE AbsentRow]
<1>1. Parts
  BY QueueInvParts
<1>2. AbsentRow \in Row /\ AbsentRow.state = "absent"
  BY AbsentRowGood DEF Good, AbsentRow, Row, JobState, Lease, JobLane, Document
<1>3. stale' = [stale EXCEPT ![i] = copies]
  BY DEF ReadBack
<1>4. copies \in [JobKey -> Row]
  BY <1>1, <1>2 DEF Parts, JobsGood
<1>5. \A j \in JobKey : copies[j].state # "absent" =>
            (j.phase = "ai" <=> copies[j].base # None)
  BY <1>1, <1>2 DEF Parts, JobsGood, Good, Readable
<1> HIDE DEF copies
<1>6. ConsoleGood'
  BY <1>1, <1>3, <1>4, <1>5 DEF ReadBack, Parts, ConsoleGood, CopiesReadable, history
<1>7. JobsGood' /\ ProcessesGood' /\ RecorderHolds' /\ HistoryGood'
  BY <1>1, JobsUnchanged, HistoryUnchanged
     DEF ReadBack, Parts, ProcessesGood, ProcessesOK, RecorderHolds, Held, history
<1>8. Parts'
  BY <1>6, <1>7 DEF Parts
<1> QED BY <1>8, QueueInvParts, PTL

LEMMA WriteBackInv ==
    ASSUME QueueInv, NEW i \in Instructors \union Editors, NEW written,
           \A j \in HasRead(i) : Good(j, written[j]) /\ written[j].attempts = 0,
           WriteBack(i, written), revived' \subseteq JobKey
    PROVE  QueueInv'
<1>1. Parts
  BY QueueInvParts
<1>2. \A j \in JobKey : job'[j] = IF j \in HasRead(i) THEN written[j] ELSE job[j]
  BY DEF WriteBack
<1>3. JobsGood'
  <2>1. \A j \in JobKey : Good(j, job'[j])
    BY <1>1, <1>2 DEF Parts, JobsGood
  <2>2. job' = [j \in JobKey |-> job'[j]]
    BY DEF WriteBack
  <2>3. charged' = [j \in JobKey |-> job'[j].attempts]
    BY <1>1, <1>2 DEF WriteBack, Parts, JobsGood
  <2> QED BY <2>1, <2>2, <2>3 DEF JobsGood, Good
<1>4. RecorderHolds'
  <2> SUFFICES ASSUME NEW v \in Workers, working[v].stage = "recording"
               PROVE  job'[working[v].job] = job[working[v].job]
    BY <1>1, RecordersUndisturbed DEF WriteBack, Parts, SameReservation
  <2>1. working[v].job \in JobKey /\ Locked(working[v].job)
    BY <1>1 DEF Parts, ProcessesGood, ProcessesOK, ProcessOK, Locked
  <2> QED BY <1>2, <2>1 DEF WriteBack
<1>5. ConsoleGood'
  <2>1. AbsentRow \in Row /\ AbsentRow.state = "absent"
    BY AbsentRowGood DEF Good, AbsentRow, Row, JobState, Lease, JobLane, Document
  <2>2. NoCopies \in [JobKey -> Row] /\ \A j \in JobKey : NoCopies[j].state = "absent"
    BY <2>1 DEF NoCopies
  <2> HIDE DEF NoCopies
  <2>3. stale' = [stale EXCEPT ![i] = NoCopies] /\ presses' \in Nat /\ stops' \in Nat
    BY <1>1 DEF WriteBack, Parts, ConsoleGood
  <2> QED BY <1>1, <2>2, <2>3 DEF Parts, ConsoleGood, CopiesReadable
<1>6. ProcessesGood' /\ HistoryGood'
  BY <1>1, HistoryUnchanged DEF WriteBack, Parts, ProcessesGood, ProcessesOK
<1>7. Parts'
  BY <1>3, <1>4, <1>5, <1>6 DEF Parts
<1> QED BY <1>7, QueueInvParts, PTL

LEMMA ConsoleInv ==
    ASSUME QueueInv, Console
    PROVE  QueueInv'
<1>1. Parts
  BY QueueInvParts
<1>2. ASSUME NEW i \in Instructors, RetryRead(i)
      PROVE  QueueInv'
  BY <1>2, ReadBackInv DEF RetryRead
<1>3. ASSUME NEW i \in Instructors, NEW kept \in SUBSET HasRead(i), RetryWrite(i, kept)
      PROVE  QueueInv'
  <2> DEFINE written == [j \in JobKey |->
                IF j \in kept
                THEN [Retried(stale[i][j]) EXCEPT !.listed = job[j].listed]
                ELSE Retried(stale[i][j])]
  <2>1. ASSUME NEW j \in HasRead(i)
        PROVE  Good(j, written[j]) /\ written[j].attempts = 0
    <3>1. j \in JobKey /\ stale[i][j] \in Row /\ job[j].listed \in JobLane
      BY <1>1, <2>1 DEF Parts, ConsoleGood, JobsGood, Row, HasRead
    <3>2. j.phase = "ai" <=> stale[i][j].base # None
      BY <1>1, <2>1, <3>1 DEF Parts, ConsoleGood, CopiesReadable, HasRead
    <3>3. /\ Retried(stale[i][j]).attempts = 0
          /\ [Retried(stale[i][j]) EXCEPT !.listed = job[j].listed].attempts = 0
      BY <3>1 DEF Retried, Row
    <3> QED BY <3>1, <3>2, <3>3, RetriedGood
  <2>2. WriteBack(i, written) /\ revived' \subseteq JobKey
    BY <1>1, <1>3 DEF RetryWrite, Parts, ConsoleGood, HasRead
  <2> HIDE DEF written
  <2> QED BY <2>1, <2>2, WriteBackInv
<1>4. ASSUME NEW e \in Editors, RescheduleRead(e)
      PROVE  QueueInv'
  BY <1>4, ReadBackInv DEF RescheduleRead
<1>5. ASSUME NEW e \in Editors, NEW ready \in BOOLEAN, RescheduleWrite(e, ready)
      PROVE  QueueInv'
  <2> DEFINE written == [j \in JobKey |-> Rescheduled(job[j], ready)]
  <2>1. \A j \in JobKey : Good(j, written[j]) /\ written[j].attempts = 0
    BY <1>1, TouchedGood DEF Parts, JobsGood, Rescheduled, Row
  <2>2. WriteBack(e, written) /\ revived' \subseteq JobKey
    BY <1>1, <1>5 DEF RescheduleWrite, Parts, ConsoleGood
  <2>3. \A j \in HasRead(e) : j \in JobKey
    BY DEF HasRead
  <2> HIDE DEF written
  <2> QED BY <2>1, <2>2, <2>3, WriteBackInv
<1> QED BY <1>2, <1>3, <1>4, <1>5 DEF Console

LEMMA NextInv ==
    ASSUME QueueInv, [Next]_vars
    PROVE  QueueInv'
<1>1. CASE Intake
  BY <1>1, AcceptInv, RegradeInv DEF Intake
<1>2. ASSUME NEW j \in JobKey, Wake(j) \/ LeaseExpires(j)
      PROVE  QueueInv'
  BY <1>2, WakeInv, LeaseExpiresInv
<1>3. ASSUME NEW w \in Workers, Work(w)
      PROVE  QueueInv'
  <2>1. CASE Reserve(w)
    BY <2>1, ReserveQueuedInv, ReserveOrphanedInv, ReserveNothingInv DEF Reserve
  <2>2. CASE \E ai \in BOOLEAN, at \in 1 .. MaxClock : Grade(w, ai, at)
    BY <2>2, GradeInv
  <2>3. CASE \E prev \in saved \union {None} : RecordRead(w, prev)
    BY <2>3, RecordReadInv
  <2>4. CASE RecordCommit(w)
    BY <2>4, RecordCommitInv
  <2>5. CASE \/ \E permanent \in BOOLEAN : RecordFailure(w, permanent)
             \/ RecordHandOff(w)
    BY <2>5, AttemptEndsInv
  <2>6. CASE RecordConflict(w) \/ LeaseLost(w)
    BY <2>6, GoesIdleInv
  <2> QED BY <1>3, <2>1, <2>2, <2>3, <2>4, <2>5, <2>6 DEF Work
<1>4. ASSUME NEW w \in Workers, RenewLease(w) \/ RecordRelease(w) \/ Crash(w)
      PROVE  QueueInv'
  BY <1>4, RenewLeaseInv, AttemptEndsInv, GoesIdleInv
<1>5. CASE Console
  BY <1>5, ConsoleInv
<1>6. CASE UNCHANGED vars
  BY <1>6 DEF vars, QueueInv, TypeOK, RowsReadable, CopiesReadable,
              AttemptsCounted, ProcessesOK, RecorderHolds, Held, NoForkedHistory
<1> QED BY <1>1, <1>2, <1>3, <1>4, <1>5, <1>6 DEF Next

\* The invariant holds whatever the number of workers, instructors and editors.
THEOREM QueueInvariant == Spec => []QueueInv
<1>1. QueueInv /\ [Next]_vars => QueueInv'
  BY NextInv
<1> QED BY InitInv, <1>1, PTL DEF Spec

-----------------------------------------------------------------------------
(* HistoryInv is inductive                                                 *)

\* A step that finishes no job, revives none, adds none and re-bases none.
CalmRow(row, new) ==
    /\ row.state \in {"done", "failed"} => new.state = row.state
    /\ row.state \in {"queued", "running"} => new.state \in {"queued", "running", "failed"}
    /\ row.state = "absent" => new.state = "absent"
    /\ new.base = row.base

Calm ==
    /\ saved' = saved /\ revived' = revived
    /\ \A j \in JobKey : CalmRow(job[j], job'[j])
    /\ \A i \in Instructors : stale'[i] = stale[i]

LEMMA SameRowCalm == \A row : CalmRow(row, row)
BY DEF CalmRow

LEMMA OneRowCalm ==
    ASSUME QueueInv, NEW x \in JobKey, NEW row, CalmRow(job[x], row),
           job' = [job EXCEPT ![x] = row], UNCHANGED <<saved, stale, revived>>
    PROVE  Calm
BY SameRowCalm DEF Calm, QueueInv, TypeOK

LEMMA NoRowCalm ==
    ASSUME UNCHANGED <<job, saved, revived>>, \A i \in Instructors : stale'[i] = stale[i]
    PROVE  Calm
BY SameRowCalm DEF Calm

\* The transitions of unfinished rows are calm.
LEMMA TransitionsCalm ==
    ASSUME NEW row \in Row, NEW w \in Workers, NEW permanent \in BOOLEAN,
           row.state \in {"queued", "running"}
    PROVE  /\ CalmRow(row, Reserved(row, w))
           /\ CalmRow(row, Released(row))
           /\ CalmRow(row, MovedTo(row, "transcription"))
           /\ CalmRow(row, GivenUp(row))
           /\ CalmRow(row, Failed(row, permanent))
           /\ CalmRow(row, LeaseExtended(row))
           /\ CalmRow(row, [row EXCEPT !.lease = "expired"])
           /\ CalmRow(row, [row EXCEPT !.ready = TRUE])
<1>1. /\ CalmRow(row, Reserved(row, w)) /\ CalmRow(row, GivenUp(row))
      /\ CalmRow(row, LeaseExtended(row))
  BY DEF CalmRow, Row, Reserved, GivenUp, LeaseExtended
<1>2. /\ CalmRow(row, [row EXCEPT !.lease = "expired"])
      /\ CalmRow(row, [row EXCEPT !.ready = TRUE])
  BY DEF CalmRow, Row
<1>3. CalmRow(row, Released(row))
  BY DEF CalmRow, Row, Released
<1>4. CalmRow(row, MovedTo(row, "transcription"))
  BY DEF CalmRow, Row, Released, MovedTo
<1>5. CalmRow(row, Failed(row, permanent))
  <2>1. CASE permanent \/ row.attempts >= MaxAttempts
    BY <1>1, <2>1 DEF Failed
  <2>2. CASE ~(permanent \/ row.attempts >= MaxAttempts)
    BY <2>2 DEF Failed, CalmRow, Row
  <2> QED BY <2>1, <2>2
<1> QED BY <1>1, <1>2, <1>3, <1>4, <1>5

\* Intake adds one row to those that were absent.
LEMMA IntakeAddsRow ==
    ASSUME Intake
    PROVE  /\ \E x \in JobKey, ready \in BOOLEAN :
                /\ job[x].state = "absent"
                /\ job' = [job EXCEPT ![x] = NewRow(ready, None)]
           /\ UNCHANGED <<saved, stale, revived>>
<1>1. ASSUME NEW s \in Submissions, NEW ready \in BOOLEAN, Accept(s, ready)
      PROVE  /\ FirstJob(s) \in JobKey /\ job[FirstJob(s)].state = "absent"
             /\ job' = [job EXCEPT ![FirstJob(s)] = NewRow(ready, None)]
             /\ UNCHANGED <<saved, stale, revived>>
  BY <1>1, ConstantsAssumption DEF Accept, history, FirstJob, JobKey, Phase
<1>2. ASSUME NEW s \in Submissions, NEW reason \in Reasons, Regrade(s, reason)
      PROVE  LET x == [FirstJob(s) EXCEPT !.reason = reason]
             IN  /\ x \in JobKey /\ job[x].state = "absent"
                 /\ job' = [job EXCEPT ![x] = NewRow(TRUE, None)]
                 /\ UNCHANGED <<saved, stale, revived>>
  BY <1>2 DEF Regrade, history, FirstJob, JobKey, Phase
<1> QED BY <1>1, <1>2 DEF Intake

LEMMA CalmTime ==
    ASSUME QueueInv, NEW j \in JobKey, Wake(j) \/ LeaseExpires(j)
    PROVE  Calm
<1>1. job[j] \in Row
  BY DEF QueueInv, TypeOK
<1>2. CASE Wake(j)
  <2>1. job' = [job EXCEPT ![j] = [job[j] EXCEPT !.ready = TRUE]] /\ job[j].state = "queued"
    BY <1>2 DEF Wake
  <2>2. CalmRow(job[j], [job[j] EXCEPT !.ready = TRUE])
    BY <1>1, <2>1 DEF CalmRow, Row
  <2> QED BY <1>2, <2>1, <2>2, OneRowCalm DEF Wake, history
<1>3. CASE LeaseExpires(j)
  <2>1. job' = [job EXCEPT ![j] = [job[j] EXCEPT !.lease = "expired"]] /\ job[j].state = "running"
    BY <1>3 DEF LeaseExpires
  <2>2. CalmRow(job[j], [job[j] EXCEPT !.lease = "expired"])
    BY <1>1, <2>1 DEF CalmRow, Row
  <2> QED BY <1>3, <2>1, <2>2, OneRowCalm DEF LeaseExpires, history
<1> QED BY <1>2, <1>3

LEMMA CalmReserve ==
    ASSUME QueueInv, NEW w \in Workers, Reserve(w)
    PROVE  Calm
<1>1. \A k \in JobKey : job[k] \in Row
  BY DEF QueueInv, TypeOK
<1>2. \A k \in Orphaned(w) : k \in JobKey /\ job[k].state = "running"
  BY DEF Orphaned
<1>3. ASSUME NEW j \in JobKey, ReserveQueued(w, j)
      PROVE  Calm
  <2>1. job[j].state = "queued"
    BY <1>3 DEF ReserveQueued, Waiting
  <2>2. CalmRow(job[j], Reserved(job[j], w))
    BY <1>1, <2>1, TransitionsCalm
  <2> QED BY <1>3, <2>2, OneRowCalm DEF ReserveQueued
<1>4. ASSUME NEW j \in JobKey, NEW failing \in SUBSET Exhausted(w),
             ReserveOrphaned(w, j, failing)
      PROVE  Calm
  <2>1. j \in Orphaned(w) /\ failing \subseteq Orphaned(w)
    BY <1>4 DEF ReserveOrphaned, Exhausted
  <2>2. \A k \in JobKey : CalmRow(job[k], job'[k])
    BY <1>1, <1>2, <1>4, <2>1, TransitionsCalm, SameRowCalm DEF ReserveOrphaned
  <2> QED BY <1>4, <2>2 DEF ReserveOrphaned, Calm
<1>5. CASE ReserveNothing(w)
  <2>1. Exhausted(w) \subseteq Orphaned(w)
    BY DEF Exhausted
  <2>2. \A k \in JobKey : CalmRow(job[k], job'[k])
    BY <1>1, <1>2, <1>5, <2>1, TransitionsCalm, SameRowCalm DEF ReserveNothing
  <2> QED BY <1>5, <2>2 DEF ReserveNothing, Calm, history
<1> QED BY <1>3, <1>4, <1>5 DEF Reserve

LEMMA CalmReturn ==
    ASSUME QueueInv, NEW w \in Workers, RenewLease(w) \/ RecordRelease(w)
                \/ RecordHandOff(w) \/ \E permanent \in BOOLEAN : RecordFailure(w, permanent)
    PROVE  Calm
<1> DEFINE j == working[w].job
<1>1. j \in JobKey /\ job[j] \in Row /\ job[j].state = "running"
  BY QueueInvParts
     DEF Parts, JobsGood, ProcessesGood, ProcessesOK, ProcessOK, Attempting, Held,
         RenewLease, RecordRelease, RecordHandOff, RecordFailure, Return
<1>2. ASSUME NEW row, CalmRow(job[j], row), Return(w, row)
      PROVE  Calm
  BY <1>1, <1>2, OneRowCalm DEF Return
<1>3. CASE RenewLease(w)
  BY <1>1, <1>3, TransitionsCalm, OneRowCalm DEF RenewLease, history
<1>4. CASE RecordRelease(w)
  BY <1>1, <1>2, <1>4, TransitionsCalm DEF RecordRelease
<1>5. CASE RecordHandOff(w)
  BY <1>1, <1>2, <1>5, TransitionsCalm DEF RecordHandOff
<1>6. ASSUME NEW permanent \in BOOLEAN, RecordFailure(w, permanent)
      PROVE  Calm
  BY <1>1, <1>2, <1>6, TransitionsCalm DEF RecordFailure
<1> QED BY <1>3, <1>4, <1>5, <1>6

LEMMA CalmInMemory ==
    ASSUME NEW w \in Workers,
           \/ \E ai \in BOOLEAN, at \in 1 .. MaxClock : Grade(w, ai, at)
           \/ \E prev \in saved \union {None} : RecordRead(w, prev)
           \/ RecordConflict(w) \/ LeaseLost(w) \/ Crash(w)
    PROVE  Calm
BY NoRowCalm DEF Grade, RecordRead, RecordConflict, LeaseLost, Crash, history

LEMMA CalmReschedule ==
    ASSUME QueueInv, NEW e \in Editors,
           RescheduleRead(e) \/ \E ready \in BOOLEAN : RescheduleWrite(e, ready)
    PROVE  Calm
<1>1. \A i \in Instructors : i # e /\ i \in Instructors \union Editors
  BY ConstantsAssumption
<1>2. CASE RescheduleRead(e)
  BY <1>1, <1>2, NoRowCalm DEF RescheduleRead, ReadBack, QueueInv, TypeOK, history
<1>3. ASSUME NEW ready \in BOOLEAN, RescheduleWrite(e, ready)
      PROVE  Calm
  <2>1. \A j \in JobKey : CalmRow(job[j], Rescheduled(job[j], ready))
    BY DEF CalmRow, QueueInv, TypeOK, Row, Rescheduled
  <2>2. \A j \in JobKey : CalmRow(job[j], job'[j])
    BY <1>3, <2>1, SameRowCalm DEF RescheduleWrite, WriteBack
  <2>3. \A i \in Instructors : stale'[i] = stale[i]
    BY <1>1, <1>3 DEF RescheduleWrite, WriteBack, QueueInv, TypeOK
  <2> QED BY <1>3, <2>2, <2>3 DEF Calm, RescheduleWrite, WriteBack
<1> QED BY <1>2, <1>3

\* Every step is calm, an intake, the record of a result, or half of a retry.
LEMMA NextCalm ==
    ASSUME QueueInv, [Next]_vars
    PROVE  \/ Calm
           \/ Intake
           \/ \E w \in Workers : RecordCommit(w)
           \/ \E i \in Instructors : RetryRead(i)
           \/ \E i \in Instructors : \E kept \in SUBSET HasRead(i) : RetryWrite(i, kept)
<1>1. CASE UNCHANGED vars
  BY <1>1, NoRowCalm DEF vars
<1>2. ASSUME NEW w \in Workers, Work(w)
      PROVE  Calm \/ RecordCommit(w)
  BY <1>2, CalmReserve, CalmReturn, CalmInMemory DEF Work
<1>3. ASSUME NEW w \in Workers, RenewLease(w) \/ RecordRelease(w) \/ Crash(w)
      PROVE  Calm
  BY <1>3, CalmReturn, CalmInMemory
<1>4. CASE Console
  BY <1>4, CalmReschedule DEF Console
<1> QED BY <1>1, <1>2, <1>3, <1>4, CalmTime DEF Next

History == OneRunPerJob /\ RunsRecorded /\ CopiesFailed /\ AiBaseSaved /\ AiPhasePromised

LEMMA CopyTyped ==
    ASSUME QueueInv, NEW i \in Instructors \union Editors, NEW j \in HasRead(i)
    PROVE  j \in JobKey /\ stale[i][j] \in Row
BY DEF QueueInv, TypeOK, HasRead

\* What a write-back of a retry makes of the rows.
LEMMA RetryWrites ==
    ASSUME QueueInv, CopiesFailed, NEW i \in Instructors,
           NEW kept \in SUBSET HasRead(i), RetryWrite(i, kept)
    PROVE  /\ \A j \in HasRead(i) : /\ job'[j].state = "queued"
                                    /\ job'[j].base = job[j].base
                                    /\ stale[i][j].state = "failed"
           /\ \A j \in JobKey \ HasRead(i) : job'[j] = job[j]
           /\ saved' = saved /\ stale' = [stale EXCEPT ![i] = NoCopies]
           /\ revived' = revived \union {j \in HasRead(i) : job[j].state = "done"}
<1>1. ASSUME NEW j \in HasRead(i)
      PROVE  /\ job'[j].state = "queued" /\ job'[j].base = stale[i][j].base
             /\ stale[i][j].state = "failed" /\ stale[i][j].base = job[j].base
  <2>1. j \in JobKey /\ stale[i][j] \in Row
    BY CopyTyped
  <2>2. job'[j] = IF j \in kept
                  THEN [Retried(stale[i][j]) EXCEPT !.listed = job[j].listed]
                  ELSE Retried(stale[i][j])
    BY <2>1 DEF RetryWrite, WriteBack
  <2>3. /\ Retried(stale[i][j]).state = "queued"
        /\ Retried(stale[i][j]).base = stale[i][j].base
        /\ [Retried(stale[i][j]) EXCEPT !.listed = job[j].listed].state = "queued"
        /\ [Retried(stale[i][j]) EXCEPT !.listed = job[j].listed].base = stale[i][j].base
    BY <2>1 DEF Retried, Row
  <2> QED BY <2>2, <2>3 DEF CopiesFailed
<1> QED BY <1>1 DEF RetryWrite, WriteBack

LEMMA CalmKeepsHistory ==
    ASSUME QueueInv, History, Calm
    PROVE  History'
<1>1. \A r \in saved : r.job \in JobKey /\ FollowUp(r.job) \in JobKey
  BY DEF QueueInv, TypeOK, Run, FollowUp, JobKey, Phase
<1>4. AiBaseSaved'
  BY DEF History, AiBaseSaved, Calm, CalmRow
<1>5. \A j \in JobKey : job[j].state # "absent" => job'[j].state # "absent"
  <2>1. \A j \in JobKey : job[j].state \in JobState
    BY DEF QueueInv, TypeOK, Row
  <2> QED BY <2>1 DEF Calm, CalmRow, JobState
<1>2. RunsRecorded'
  BY <1>1, <1>5 DEF History, RunsRecorded, Calm, CalmRow
<1>3. CopiesFailed'
  <2>1. \A i \in Instructors : HasRead(i)' = HasRead(i)
    BY DEF Calm, HasRead
  <2>2. \A i \in Instructors : \A j \in HasRead(i) : j \in JobKey
    BY DEF HasRead
  <2> QED BY <1>5, <2>1, <2>2 DEF History, CopiesFailed, Calm, CalmRow
<1>6. AiPhasePromised'
  BY <1>1, <1>5 DEF History, AiPhasePromised, Calm, CalmRow
<1> QED BY <1>2, <1>3, <1>4, <1>6 DEF History, OneRunPerJob, Calm

LEMMA IntakeKeepsHistory ==
    ASSUME QueueInv, History, Intake
    PROVE  History'
<1>1. PICK x \in JobKey, ready \in BOOLEAN :
            /\ job[x].state = "absent"
            /\ job' = [job EXCEPT ![x] = NewRow(ready, None)]
  BY IntakeAddsRow
<1>2. \A k \in JobKey : k # x => job'[k] = job[k]
  BY <1>1 DEF QueueInv, TypeOK
<1>3. /\ job'[x].base = None /\ job'[x].state = "queued"
      /\ saved' = saved /\ stale' = stale /\ revived' = revived
  BY <1>1, IntakeAddsRow DEF QueueInv, TypeOK, NewRow, AbsentRow
<1>4. \A r \in saved : r.job \in JobKey /\ FollowUp(r.job) \in JobKey
  BY DEF QueueInv, TypeOK, Run, FollowUp, JobKey, Phase
<1>5. RunsRecorded' /\ AiPhasePromised'
  BY <1>1, <1>2, <1>3, <1>4 DEF History, RunsRecorded, AiPhasePromised
<1>6. CopiesFailed' /\ AiBaseSaved'
  BY <1>1, <1>2, <1>3 DEF History, CopiesFailed, HasRead, AiBaseSaved
<1> QED BY <1>3, <1>5, <1>6 DEF History, OneRunPerJob

LEMMA RetryReadKeepsHistory ==
    ASSUME QueueInv, History, NEW i \in Instructors, RetryRead(i)
    PROVE  History'
<1>1. UNCHANGED <<job, saved, revived>>
  BY DEF RetryRead, ReadBack, history
<1>2. \A k \in Instructors, j \in JobKey :
            \/ stale'[k][j] = stale[k][j]
            \/ stale'[k][j] = job[j] /\ job[j].state = "failed"
            \/ stale'[k][j].state = "absent"
  BY DEF RetryRead, ReadBack, QueueInv, TypeOK, AbsentRow
<1>3. CopiesFailed'
  BY <1>1, <1>2 DEF History, CopiesFailed, HasRead
<1>4. OneRunPerJob' /\ RunsRecorded' /\ AiBaseSaved' /\ AiPhasePromised'
  BY <1>1 DEF History, OneRunPerJob, RunsRecorded, AiBaseSaved, AiPhasePromised
<1> QED BY <1>3, <1>4 DEF History

\* The rows a retry writes back continue the runs they continued; those that
\* were done are revived from now on.
LEMMA RetryWriteKeepsHistory ==
    ASSUME QueueInv, History, NEW i \in Instructors,
           NEW kept \in SUBSET HasRead(i), RetryWrite(i, kept)
    PROVE  History'
<1>1. ASSUME NEW j \in JobKey
      PROVE  /\ job'[j].base = job[j].base
             /\ job[j].state # "absent" => job'[j].state # "absent"
             /\ job[j].state = "done" => job'[j] = job[j] \/ j \in revived'
  BY RetryWrites DEF History
<1>2. /\ saved' = saved /\ revived \subseteq revived'
      /\ stale' = [stale EXCEPT ![i] = NoCopies]
      /\ \A r \in saved : r.job \in JobKey /\ FollowUp(r.job) \in JobKey
  BY RetryWrites DEF History, QueueInv, TypeOK, Run, FollowUp, JobKey, Phase
<1>3. OneRunPerJob' /\ RunsRecorded' /\ AiBaseSaved' /\ AiPhasePromised'
  BY <1>1, <1>2 DEF History, OneRunPerJob, RunsRecorded, AiBaseSaved, AiPhasePromised
<1>4. CopiesFailed'
  <2>1. \A j \in JobKey : NoCopies[j].state = "absent"
    BY DEF NoCopies, AbsentRow
  <2> HIDE DEF NoCopies
  <2> SUFFICES ASSUME NEW k \in Instructors, NEW j \in HasRead(k)'
               PROVE  /\ stale'[k][j].state = "failed"
                      /\ stale'[k][j].base = job'[j].base
                      /\ job'[j].state # "absent"
    BY DEF CopiesFailed
  <2>2. j \in JobKey /\ k # i /\ stale'[k] = stale[k] /\ j \in HasRead(k)
    BY <1>2, <2>1 DEF HasRead, QueueInv, TypeOK
  <2> QED BY <1>1, <2>2 DEF History, CopiesFailed
<1> QED BY <1>3, <1>4 DEF History

\* Only a det job asks for an AI job, so the AI job names the det job.
LEMMA FollowUpInjective ==
    ASSUME NEW j \in JobKey, NEW k \in JobKey,
           j.phase = "deterministic", k.phase = "deterministic",
           FollowUp(j) = FollowUp(k)
    PROVE  j = k
BY DEF JobKey, FollowUp

\* A saved run that had asked for the AI job would be a run of j itself, and
\* then j would be finished or revived.
LEMMA FollowUpAbsent ==
    ASSUME QueueInv, History, NEW j \in JobKey,
           job[j].state = "running", j.phase = "deterministic"
    PROVE  /\ FollowUp(j) \in JobKey
           /\ job[FollowUp(j)].state = "absent" \/ j \in revived
<1> DEFINE next == FollowUp(j)
           b == job[next].base
<1>1. next \in JobKey /\ next.phase = "ai"
  BY DEF FollowUp, JobKey, Phase
<1> SUFFICES ASSUME job[next].state # "absent" PROVE j \in revived
  BY <1>1
<1>2. b # None
  BY <1>1 DEF QueueInv, RowsReadable, Readable
<1>3. b \in saved /\ b.ai /\ FollowUp(b.job) = next
  BY <1>1, <1>2 DEF History, AiBaseSaved
<1>4. /\ b.job \in JobKey /\ b.job.phase = "deterministic"
      /\ job[b.job].state = "done" \/ b.job \in revived
  BY <1>3 DEF History, RunsRecorded, QueueInv, TypeOK, Run
<1>5. b.job = j
  BY <1>3, <1>4, FollowUpInjective
<1> QED BY <1>4, <1>5

\* What the record of a success does to rows and runs.
LEMMA CommitWrites ==
    ASSUME QueueInv, NEW w \in Workers, RecordCommit(w)
    PROVE  LET j == working[w].job
               run == working[w].run
               next == FollowUp(j)
           IN  /\ j \in JobKey /\ next \in JobKey /\ next.phase = "ai"
               /\ run \in Run /\ run.job = j /\ run.ai \in BOOLEAN
               /\ run.ai => j.phase = "deterministic"
               /\ job[j].state = "running"
               /\ job'[j].state = "done" /\ job'[j].base = job[j].base
               /\ \A k \in JobKey \ {j} :
                     IF k = next /\ run.ai /\ job[k].state = "absent"
                     THEN job'[k].state = "queued" /\ job'[k].base = run
                     ELSE job'[k] = job[k]
               /\ saved' = saved \union {run}
               /\ UNCHANGED <<stale, revived>>
<1> DEFINE j == working[w].job
           run == working[w].run
           next == FollowUp(j)
<1>1. /\ j \in JobKey /\ run \in Run /\ run.job = j
      /\ run.ai => j.phase = "deterministic"
      /\ job[j].state = "running"
  BY RecorderFacts DEF RecordCommit
<1>2. /\ next \in JobKey /\ next.phase = "ai" /\ run.ai \in BOOLEAN
      /\ job[j] \in Row
  BY <1>1 DEF FollowUp, JobKey, Phase, Run, QueueInv, TypeOK
<1>3. \A k \in JobKey : job'[k] =
            IF k = j THEN Completed(job[k], run)
            ELSE IF k = next /\ run.ai /\ job[k].state = "absent"
                 THEN NewRow(TRUE, run)
            ELSE job[k]
  BY DEF RecordCommit, RowsWithResult
<1>4. job'[j].state = "done" /\ job'[j].base = job[j].base
  BY <1>1, <1>2, <1>3 DEF Completed, Row
<1>5. NewRow(TRUE, run).state = "queued" /\ NewRow(TRUE, run).base = run
  BY DEF NewRow, AbsentRow
<1>6. saved' = saved \union {run} /\ UNCHANGED <<stale, revived>>
  BY DEF RecordCommit
<1> QED BY <1>1, <1>2, <1>3, <1>4, <1>5, <1>6

LEMMA CommitKeepsHistory ==
    ASSUME QueueInv, History, NEW w \in Workers, RecordCommit(w)
    PROVE  History'
<1> DEFINE j == working[w].job
           run == working[w].run
           next == FollowUp(j)
<1>1. /\ j \in JobKey /\ next \in JobKey /\ next.phase = "ai"
      /\ run \in Run /\ run.job = j
      /\ run.ai => j.phase = "deterministic"
      /\ job[j].state = "running"
      /\ job'[j].state = "done" /\ job'[j].base = job[j].base
      /\ saved' = saved \union {run} /\ stale' = stale /\ revived' = revived
  BY CommitWrites
<1>2. \A k \in JobKey \ {j} :
            IF k = next /\ run.ai /\ job[k].state = "absent"
            THEN job'[k].state = "queued" /\ job'[k].base = run
            ELSE job'[k] = job[k]
  BY CommitWrites
<1>3. ASSUME NEW k \in JobKey, job[k].state # "absent"
      PROVE  /\ job'[k].state # "absent" /\ job'[k].base = job[k].base
             /\ job[k].state = "done" => job'[k].state = "done"
  BY <1>1, <1>2, <1>3
<1>4. \A r \in saved : r.job \in JobKey /\ FollowUp(r.job) \in JobKey
  BY DEF QueueInv, TypeOK, Run, FollowUp, JobKey, Phase
<1>5. \A r \in saved : r.job = j => j \in revived
  BY <1>1 DEF History, RunsRecorded
<1>6. run.ai => /\ job'[next].state # "absent"
                /\ job'[next].base = run \/ j \in revived
  <2> SUFFICES ASSUME run.ai
               PROVE  /\ job'[next].state # "absent"
                      /\ job'[next].base = run \/ j \in revived
    OBVIOUS
  <2>1. next # j
    BY <1>1
  <2>2. CASE job[next].state = "absent"
    BY <1>1, <1>2, <2>1, <2>2
  <2>3. CASE job[next].state # "absent"
    BY <1>1, <1>3, <2>3, FollowUpAbsent
  <2> QED BY <2>2, <2>3
<1>7. OneRunPerJob'
  BY <1>1, <1>5 DEF History, OneRunPerJob
<1>8. RunsRecorded'
  BY <1>1, <1>3, <1>4 DEF History, RunsRecorded
<1>9. CopiesFailed'
  <2>1. \A i \in Instructors : \A k \in HasRead(i) : k \in JobKey
    BY DEF HasRead
  <2> QED BY <1>1, <1>3, <2>1 DEF History, CopiesFailed, HasRead
<1>10. AiBaseSaved'
  <2> SUFFICES ASSUME NEW k \in JobKey, job'[k].base # None
               PROVE  /\ job'[k].base \in saved \union {run}
                      /\ job'[k].base.ai /\ FollowUp(job'[k].base.job) = k
    BY <1>1 DEF AiBaseSaved
  <2>1. CASE job'[k].base = job[k].base
    BY <2>1 DEF History, AiBaseSaved
  <2>2. CASE job'[k].base # job[k].base
    <3>1. k = next /\ run.ai /\ job'[k].base = run
      BY <1>1, <1>2, <2>2
    <3> QED BY <1>1, <3>1
  <2> QED BY <2>1, <2>2
<1>11. AiPhasePromised'
  <2> SUFFICES ASSUME NEW r \in saved \union {run}, r.ai
               PROVE  /\ job'[FollowUp(r.job)].state # "absent"
                      /\ job'[FollowUp(r.job)].base = r \/ r.job \in revived
    BY <1>1 DEF AiPhasePromised
  <2>1. CASE r = run
    BY <1>1, <1>6, <2>1
  <2>2. CASE r \in saved
    BY <1>3, <1>4, <2>2 DEF History, AiPhasePromised
  <2> QED BY <2>1, <2>2
<1> QED BY <1>7, <1>8, <1>9, <1>10, <1>11 DEF History

\* Nothing but a rescheduling writes what an editor has read.
LEMMA AsleepStep ==
    ASSUME QueueInv, CopiesAsleep, [Next]_vars
    PROVE  CopiesAsleep'
<1>1. ASSUME stale' = stale
      PROVE  CopiesAsleep'
  BY <1>1 DEF CopiesAsleep, HasRead
<1>2. \A e \in Editors : e \notin Instructors
  BY ConstantsAssumption
<1>3. ASSUME NEW i \in Instructors, NEW copies, stale' = [stale EXCEPT ![i] = copies]
      PROVE  CopiesAsleep'
  BY <1>2, <1>3 DEF CopiesAsleep, HasRead, QueueInv, TypeOK
<1>4. ASSUME NEW e \in Editors, NEW copies, stale' = [stale EXCEPT ![e] = copies],
             \A j \in JobKey : copies[j].state \in {"absent", "queued"}
      PROVE  CopiesAsleep'
  BY <1>4 DEF CopiesAsleep, HasRead, QueueInv, TypeOK
<1>5. \A j \in JobKey : NoCopies[j].state = "absent"
  BY DEF NoCopies, AbsentRow
<1>6. CASE Intake
  BY <1>1, <1>6 DEF Intake, Accept, Regrade
<1>7. ASSUME NEW j \in JobKey, Wake(j) \/ LeaseExpires(j)
      PROVE  CopiesAsleep'
  BY <1>1, <1>7 DEF Wake, LeaseExpires
<1>8. ASSUME NEW w \in Workers, Work(w) \/ RenewLease(w) \/ RecordRelease(w) \/ Crash(w)
      PROVE  CopiesAsleep'
  <2>1. stale' = stale
    BY <1>8 DEF Work, Reserve, ReserveQueued, ReserveOrphaned, ReserveNothing, Grade,
                RecordRead, RecordCommit, RecordConflict, RecordFailure, RecordHandOff,
                LeaseLost, RenewLease, RecordRelease, Crash, Return
  <2> QED BY <1>1, <2>1
<1>9. CASE Console
  <2>1. ASSUME NEW i \in Instructors, RetryRead(i)
        PROVE  CopiesAsleep'
    BY <1>3, <2>1 DEF RetryRead, ReadBack
  <2>2. ASSUME NEW i \in Instructors, NEW kept \in SUBSET HasRead(i), RetryWrite(i, kept)
        PROVE  CopiesAsleep'
    BY <1>3, <2>2 DEF RetryWrite, WriteBack
  <2>3. ASSUME NEW e \in Editors, RescheduleRead(e)
        PROVE  CopiesAsleep'
    <3> DEFINE wanted == {j \in JobKey : /\ job[j].state = "queued" /\ ~job[j].ready
                                        /\ job[j].attempts = 0
                                        /\ j.reason = "submission"}
               copies == [j \in JobKey |-> IF j \in wanted THEN job[j] ELSE AbsentRow]
    <3>1. stale' = [stale EXCEPT ![e] = copies]
      BY <2>3 DEF RescheduleRead, ReadBack
    <3>2. \A j \in JobKey : copies[j].state \in {"absent", "queued"}
      BY DEF AbsentRow
    <3> HIDE DEF copies
    <3> QED BY <1>4, <3>1, <3>2
  <2>4. ASSUME NEW e \in Editors, NEW ready \in BOOLEAN, RescheduleWrite(e, ready)
        PROVE  CopiesAsleep'
    <3>1. stale' = [stale EXCEPT ![e] = NoCopies]
      BY <2>4 DEF RescheduleWrite, WriteBack
    <3> HIDE DEF NoCopies
    <3> QED BY <1>4, <1>5, <3>1
  <2> QED BY <1>9, <2>1, <2>2, <2>3, <2>4 DEF Console
<1>10. CASE UNCHANGED vars
  BY <1>1, <1>10 DEF vars
<1> QED BY <1>6, <1>7, <1>8, <1>9, <1>10 DEF Next

LEMMA HistoryInvStep ==
    ASSUME HistoryInv, [Next]_vars
    PROVE  HistoryInv'
<1>1. QueueInv /\ History /\ CopiesAsleep
  BY DEF HistoryInv, History
<1>2. QueueInv' /\ CopiesAsleep'
  BY <1>1, NextInv, AsleepStep
<1>3. History'
  BY <1>1, NextCalm, CalmKeepsHistory, IntakeKeepsHistory, CommitKeepsHistory,
     RetryReadKeepsHistory, RetryWriteKeepsHistory
<1> QED BY <1>2, <1>3 DEF HistoryInv, History

LEMMA HistoryInvInit == Init => HistoryInv
<1> SUFFICES ASSUME Init PROVE HistoryInv
  OBVIOUS
<1>1. QueueInv
  BY InitInv
<1>2. CopiesFailed /\ CopiesAsleep /\ AiBaseSaved
  BY DEF Init, CopiesFailed, CopiesAsleep, HasRead, AiBaseSaved, NoCopies, AbsentRow
<1> QED BY <1>1, <1>2 DEF Init, HistoryInv, OneRunPerJob, RunsRecorded, AiPhasePromised

\* The inductive invariant of jobs and their runs, with any number of
\* instructors and editors writing rows back.
THEOREM HistoryInvariant == Spec => []HistoryInv
<1>1. HistoryInv /\ [Next]_vars => HistoryInv'
  BY HistoryInvStep
<1> QED BY HistoryInvInit, <1>1, PTL DEF Spec

-----------------------------------------------------------------------------
(* The properties                                                          *)

\* The tables and processes hold values of their types, always.
THEOREM TypesCorrect == Spec => []TypeOK
BY QueueInvariant, PTL DEF QueueInv

\* No row ever fails the validator that reads it, whatever the consoles do.
THEOREM RowsStayReadable == Spec => []RowsReadable
BY QueueInvariant, PTL DEF QueueInv

\* Until a console writes its row back no job is begun more often than
\* max_attempts times, attempts given back not counted: whoever dies or races.
THEOREM AttemptsBounded == Spec => []AttemptsWithinLimit
<1>1. QueueInv => AttemptsWithinLimit
  BY DEF QueueInv, AttemptsCounted, WithinLimit, AttemptsWithinLimit
<1> QED BY <1>1, QueueInvariant, PTL

\* supersede's row lock keeps the history of each submission from forking.
THEOREM HistoryNeverForks == Spec => []NoForkedHistory
BY QueueInvariant, PTL DEF QueueInv

\* Each job leaves one run, but for those a retry revived after they were done.
THEOREM GradedOnce == Spec => []OneRunPerJob
<1>1. HistoryInv => OneRunPerJob
  BY DEF HistoryInv
<1> QED BY <1>1, HistoryInvariant, PTL

\* No provisional result waits for an AI phase that nobody queued, and the AI
\* phase builds on a saved run that asked for it.
THEOREM AiPhaseComes == Spec => [](AiPhasePromised /\ AiBaseSaved)
<1>1. HistoryInv => AiPhasePromised /\ AiBaseSaved
  BY DEF HistoryInv
<1> QED BY <1>1, HistoryInvariant, PTL

\* Nothing but the write-back of a retry touches a finished job.
LEMMA DoneStays ==
    ASSUME HistoryInv, [Next]_vars, NEW j \in JobKey, job[j].state = "done"
    PROVE  \/ job'[j].state = "done"
           \/ \E i \in Instructors : WritesBack(i, j, {"failed"})
<1>1. CASE Calm
  BY <1>1 DEF Calm, CalmRow
<1>2. CASE Intake
  BY <1>2, IntakeAddsRow DEF HistoryInv, QueueInv, TypeOK
<1>3. ASSUME NEW w \in Workers, RecordCommit(w)
      PROVE  job'[j] = job[j]
  BY <1>3, RecorderFacts DEF RecordCommit, RowsWithResult, HistoryInv
<1>4. ASSUME NEW i \in Instructors, RetryRead(i)
      PROVE  job'[j] = job[j]
  BY <1>4 DEF RetryRead, ReadBack
<1>5. ASSUME NEW i \in Instructors, NEW kept \in SUBSET HasRead(i), RetryWrite(i, kept)
      PROVE  job'[j] = job[j] \/ WritesBack(i, j, {"failed"})
  BY <1>5, RetryWrites DEF WritesBack, HistoryInv, QueueInv, TypeOK
<1> QED BY <1>1, <1>2, <1>3, <1>4, <1>5, NextCalm DEF HistoryInv

\* A finished job is final, unless a retry writes back what it had read of it
\* when it had failed.
THEOREM FinishedForGood == Spec => DoneIsFinal
<1> DEFINE Kept == \A j \in JobKey : job[j].state = "done" =>
                        \/ job'[j].state = "done"
                        \/ \E i \in Instructors : WritesBack(i, j, {"failed"})
<1>1. HistoryInv /\ [Next]_vars => Kept
  BY DoneStays
<1>2. Kept => [\A j \in JobKey : job[j].state = "done" =>
                    \/ job'[j].state = "done"
                    \/ \E i \in Instructors : WritesBack(i, j, {"failed"})]_vars
  OBVIOUS
<1> QED BY <1>1, <1>2, HistoryInvariant, PTL DEF Spec, DoneIsFinal

\* What LeaseRespected allows a step to do to a row whose lease is live.
Respects(j) ==
    \/ job'[j] \in {job[j], [job[j] EXCEPT !.lease = "expired"]}
    \/ \E w \in Workers : working[w].job = j /\ Held(w) /\ working'[w] = Idle
    \/ \E i \in Instructors : WritesBack(i, j, {"failed"})
    \/ \E e \in Editors : WritesBack(e, j, {"queued"})

LEMMA ReserveRespects ==
    ASSUME QueueInv, NEW w \in Workers, Reserve(w), NEW j \in JobKey,
           job[j].state = "running", job[j].lease = "live"
    PROVE  Respects(j)
<1>1. j \notin Waiting(w) /\ j \notin Orphaned(w) /\ j \notin Exhausted(w)
  BY DEF Waiting, Orphaned, Exhausted
<1>2. ASSUME NEW k \in JobKey, ReserveQueued(w, k)
      PROVE  job'[j] = job[j]
  BY <1>1, <1>2 DEF ReserveQueued, QueueInv, TypeOK
<1>3. ASSUME NEW k \in JobKey, NEW failing \in SUBSET Exhausted(w),
             ReserveOrphaned(w, k, failing)
      PROVE  job'[j] = job[j]
  BY <1>1, <1>3 DEF ReserveOrphaned
<1>4. CASE ReserveNothing(w)
  BY <1>1, <1>4 DEF ReserveNothing, Respects
<1> QED BY <1>2, <1>3, <1>4 DEF Reserve, Respects

LEMMA TimeRespects ==
    ASSUME QueueInv, NEW k \in JobKey, Wake(k) \/ LeaseExpires(k), NEW j \in JobKey,
           job[j].state = "running", job[j].lease = "live"
    PROVE  Respects(j)
<1>1. CASE Wake(k)
  BY <1>1 DEF Wake, Respects, QueueInv, TypeOK
<1>2. CASE LeaseExpires(k)
  BY <1>2 DEF LeaseExpires, Respects, QueueInv, TypeOK
<1> QED BY <1>1, <1>2

LEMMA ReturnRespects ==
    ASSUME QueueInv, NEW w \in Workers, NEW row, Return(w, row), NEW j \in JobKey
    PROVE  Respects(j)
<1>1. CASE working[w].job = j
  BY <1>1 DEF Return, Held, Respects, QueueInv, TypeOK
<1>2. CASE working[w].job # j
  BY <1>2 DEF Return, Respects, QueueInv, TypeOK
<1> QED BY <1>1, <1>2

LEMMA RenewRespects ==
    ASSUME QueueInv, NEW w \in Workers, RenewLease(w), NEW j \in JobKey,
           job[j].lease = "live"
    PROVE  Respects(j)
<1>1. job[j] \in Row /\ LeaseExtended(job[j]) = job[j]
  BY DEF QueueInv, TypeOK, Row, LeaseExtended
<1> QED BY <1>1 DEF RenewLease, Respects, QueueInv, TypeOK

LEMMA CommitRespects ==
    ASSUME QueueInv, NEW w \in Workers, RecordCommit(w), NEW j \in JobKey,
           job[j].state = "running"
    PROVE  Respects(j)
<1>1. Held(w) /\ working'[w] = Idle
  BY DEF RecordCommit, QueueInv, TypeOK, RecorderHolds
<1>2. CASE working[w].job = j
  BY <1>1, <1>2 DEF Held, Respects
<1>3. CASE working[w].job # j
  BY <1>3 DEF RecordCommit, RowsWithResult, Respects
<1> QED BY <1>2, <1>3

LEMMA ConsoleRespects ==
    ASSUME HistoryInv, Console, NEW j \in JobKey
    PROVE  Respects(j)
<1>1. QueueInv /\ CopiesFailed /\ CopiesAsleep
  BY DEF HistoryInv
<1>2. ASSUME NEW i \in Instructors, RetryRead(i)
      PROVE  Respects(j)
  BY <1>2 DEF RetryRead, ReadBack, Respects
<1>3. ASSUME NEW i \in Instructors, NEW kept \in SUBSET HasRead(i), RetryWrite(i, kept)
      PROVE  Respects(j)
  <2>1. job'[j] = job[j] \/ WritesBack(i, j, {"failed"})
    BY <1>1, <1>3, RetryWrites DEF WritesBack, QueueInv, TypeOK
  <2> QED BY <2>1 DEF Respects
<1>4. ASSUME NEW e \in Editors, RescheduleRead(e)
      PROVE  Respects(j)
  BY <1>4 DEF RescheduleRead, ReadBack, Respects
<1>5. ASSUME NEW e \in Editors, NEW ready \in BOOLEAN, RescheduleWrite(e, ready)
      PROVE  Respects(j)
  <2>1. stale' = [stale EXCEPT ![e] = NoCopies] /\ e \in DOMAIN stale
    BY <1>1, <1>5 DEF RescheduleWrite, WriteBack, QueueInv, TypeOK
  <2>2. stale'[e] = NoCopies
    BY <2>1
  <2>3. j \in HasRead(e) => stale[e][j].state = "queued"
    BY <1>1 DEF CopiesAsleep
  <2>4. j \notin HasRead(e) => job'[j] = job[j]
    BY <1>5 DEF RescheduleWrite, WriteBack
  <2> QED BY <2>2, <2>3, <2>4 DEF Respects, WritesBack
<1> QED BY <1>2, <1>3, <1>4, <1>5 DEF Console

\* Nobody takes a job away from a worker whose lease is live, nor undoes the
\* lease under it, but a console that writes back what it read earlier.
THEOREM LeasesAreRespected == Spec => LeaseRespected
<1> DEFINE Kept == \A j \in JobKey :
                        job[j].state = "running" /\ job[j].lease = "live" => Respects(j)
<1>1. HistoryInv /\ [Next]_vars => Kept
  <2> SUFFICES ASSUME HistoryInv, [Next]_vars, NEW j \in JobKey,
                      job[j].state = "running", job[j].lease = "live"
               PROVE  Respects(j)
    OBVIOUS
  <2>1. QueueInv
    BY DEF HistoryInv
  <2>2. CASE UNCHANGED vars
    BY <2>2 DEF vars, Respects
  <2>3. CASE Intake
    BY <2>1, <2>3, IntakeAddsRow DEF Respects, QueueInv, TypeOK
  <2>4. ASSUME NEW k \in JobKey, Wake(k) \/ LeaseExpires(k)
        PROVE  Respects(j)
    BY <2>1, <2>4, TimeRespects
  <2>5. ASSUME NEW w \in Workers, Work(w) \/ RenewLease(w) \/ RecordRelease(w) \/ Crash(w)
        PROVE  Respects(j)
    <3>1. CASE Reserve(w) \/ RecordCommit(w) \/ RenewLease(w)
      BY <2>1, <3>1, ReserveRespects, CommitRespects, RenewRespects
    <3>2. CASE (\E permanent \in BOOLEAN : RecordFailure(w, permanent))
               \/ RecordHandOff(w) \/ RecordRelease(w)
      BY <2>1, <3>2, ReturnRespects DEF RecordFailure, RecordHandOff, RecordRelease
    <3>3. CASE (\E ai \in BOOLEAN, at \in 1 .. MaxClock : Grade(w, ai, at))
               \/ (\E prev \in saved \union {None} : RecordRead(w, prev))
               \/ RecordConflict(w) \/ LeaseLost(w) \/ Crash(w)
      BY <3>3 DEF Grade, RecordRead, RecordConflict, LeaseLost, Crash, Respects
    <3> QED BY <2>5, <3>1, <3>2, <3>3 DEF Work
  <2>6. CASE Console
    BY <2>6, ConsoleRespects
  <2> QED BY <2>2, <2>3, <2>4, <2>5, <2>6 DEF Next
<1>2. Kept => [\A j \in JobKey :
        job[j].state = "running" /\ job[j].lease = "live" =>
            \/ job'[j] \in {job[j], [job[j] EXCEPT !.lease = "expired"]}
            \/ \E w \in Workers : working[w].job = j /\ Held(w) /\ working'[w] = Idle
            \/ \E i \in Instructors : WritesBack(i, j, {"failed"})
            \/ \E e \in Editors : WritesBack(e, j, {"queued"})]_vars
  BY DEF Respects
<1> QED BY <1>1, <1>2, HistoryInvariant, PTL DEF Spec, LeaseRespected

-----------------------------------------------------------------------------
(* The queue implements GradingService                                     *)

status == [j \in JobKey |-> Status(j)]

results == [j \in JobKey |-> {r \in saved : r.job = j}]

noticed == [i \in Instructors |-> HasRead(i)]

LEMMA ServiceInit == Init => Service!Init
BY DEF Init, Service!Init, Status, AbsentRow, HasRead, NoCopies

LEMMA NothingNoticed ==
    ASSUME \A i \in Instructors : stale'[i] = stale[i], saved' = saved
    PROVE  results' = results /\ noticed' = noticed
BY DEF results, noticed, HasRead

\* A calm step gives up the jobs that became failed, or is not seen at all.
LEMMA CalmGivesUp ==
    ASSUME QueueInv, Calm
    PROVE  \E S \in SUBSET JobKey : Service!GiveUp(S)
<1> DEFINE S == {j \in JobKey : Status(j) = "pending" /\ Status(j)' = "failed"}
<1>1. \A j \in JobKey : job[j] \in Row
  BY DEF QueueInv, TypeOK
<1>2. \A j \in JobKey : Status(j)' = IF j \in S THEN "failed" ELSE Status(j)
  BY <1>1 DEF Calm, CalmRow, Row, JobState, Status
<1>3. results' = results /\ noticed' = noticed
  BY NothingNoticed DEF Calm
<1>4. Service!GiveUp(S)
  BY <1>2, <1>3 DEF Service!GiveUp, results, noticed
<1> QED BY <1>4

LEMMA IntakeAccepts ==
    ASSUME QueueInv, Intake
    PROVE  \E j \in JobKey : Service!Accept(j)
<1>1. PICK x \in JobKey, ready \in BOOLEAN :
            /\ job[x].state = "absent"
            /\ job' = [job EXCEPT ![x] = NewRow(ready, None)]
  BY IntakeAddsRow
<1>2. \A k \in JobKey : job'[k] = IF k = x THEN NewRow(ready, None) ELSE job[k]
  BY <1>1 DEF QueueInv, TypeOK
<1>3. \A k \in JobKey : Status(k)' = IF k = x THEN "pending" ELSE Status(k)
  BY <1>2 DEF Status, NewRow, AbsentRow
<1>4. Status(x) = "absent"
  BY <1>1 DEF Status
<1>5. results' = results /\ noticed' = noticed
  BY IntakeAddsRow, NothingNoticed
<1>6. Service!Accept(x)
  BY <1>3, <1>4, <1>5 DEF Service!Accept, results, noticed
<1> QED BY <1>6

\* The read of a retry is the moment the instructor sees what was given up.
LEMMA RetryNotices ==
    ASSUME QueueInv, NEW i \in Instructors, RetryRead(i)
    PROVE  \E S \in SUBSET JobKey : Service!Notice(i, S)
<1> DEFINE S == {j \in JobKey : job[j].state = "failed"}
<1>1. /\ job' = job /\ saved' = saved /\ stale[i] = NoCopies
      /\ stale' = [stale EXCEPT ![i] =
                    [j \in JobKey |-> IF j \in S THEN job[j] ELSE AbsentRow]]
  BY DEF RetryRead, ReadBack
<1>2. noticed[i] = {}
  BY <1>1 DEF noticed, HasRead, NoCopies, AbsentRow
<1>3. HasRead(i)' = S
  BY <1>1 DEF HasRead, AbsentRow, QueueInv, TypeOK
<1>4. \A k \in Instructors \ {i} : HasRead(k)' = HasRead(k)
  BY <1>1 DEF HasRead, QueueInv, TypeOK
<1>5. noticed' = [noticed EXCEPT ![i] = S]
  BY <1>3, <1>4 DEF noticed
<1>6. status' = status /\ results' = results /\ \A j \in S : status[j] = "failed"
  BY <1>1 DEF status, results, Status
<1> HIDE DEF S
<1>7. Service!Notice(i, S)
  BY <1>2, <1>5, <1>6 DEF Service!Notice, status, results, noticed
<1>8. S \in SUBSET JobKey
  BY DEF S
<1> QED BY <1>7, <1>8

LEMMA RetryRevives ==
    ASSUME HistoryInv, NEW i \in Instructors, NEW kept \in SUBSET HasRead(i),
           RetryWrite(i, kept)
    PROVE  Service!Retry(i)
<1>1. QueueInv /\ CopiesFailed
  BY DEF HistoryInv
<1>2. /\ \A j \in HasRead(i) : job'[j].state = "queued"
      /\ \A j \in JobKey \ HasRead(i) : job'[j] = job[j]
      /\ saved' = saved /\ stale' = [stale EXCEPT ![i] = NoCopies]
  BY <1>1, RetryWrites
<1>3. status' = [j \in JobKey |-> IF j \in noticed[i] THEN "pending" ELSE status[j]]
  BY <1>2 DEF status, Status, noticed
<1>4. HasRead(i)' = {} /\ \A k \in Instructors \ {i} : HasRead(k)' = HasRead(k)
  BY <1>1, <1>2 DEF HasRead, NoCopies, AbsentRow, QueueInv, TypeOK
<1>5. noticed' = [noticed EXCEPT ![i] = {}]
  BY <1>4 DEF noticed
<1>6. results' = results
  BY <1>2 DEF results
<1> QED BY <1>3, <1>5, <1>6 DEF Service!Retry, status, results, noticed

\* The record of a success is the arrival of the result.
LEMMA CommitFinishes ==
    ASSUME QueueInv, NEW w \in Workers, RecordCommit(w)
    PROVE  \E j \in JobKey, r \in Run : Service!Finish(j, r)
<1>1. PICK j \in JobKey, run \in Run, next \in JobKey :
            /\ j = working[w].job /\ run = working[w].run /\ next = FollowUp(j)
            /\ run.job = j /\ job[j].state = "running" /\ job'[j].state = "done"
            /\ \A k \in JobKey \ {j} :
                     IF k = next /\ run.ai /\ job[k].state = "absent"
                     THEN job'[k].state = "queued" /\ job'[k].base = run
                     ELSE job'[k] = job[k]
            /\ saved' = saved \union {run} /\ stale' = stale
  BY CommitWrites
<1>2. status[j] = "pending"
  BY <1>1 DEF status, Status
<1>3. \A k \in JobKey : job[k].state = "absent" <=> status[k] = "absent"
  BY DEF status, Status
<1>4. status' = [k \in JobKey |->
            IF k = j THEN "done"
            ELSE IF HasAiWork(run) /\ k = FollowUp(j) /\ status[k] = "absent"
                 THEN "pending"
            ELSE status[k]]
  BY <1>1, <1>3 DEF status, Status, HasAiWork
<1>5. results' = [results EXCEPT ![j] = @ \union {run}]
  BY <1>1 DEF results
<1>6. noticed' = noticed
  BY <1>1 DEF noticed, HasRead
<1>7. Service!Finish(j, run)
  BY <1>2, <1>4, <1>5, <1>6 DEF Service!Finish, status, results, noticed
<1> QED BY <1>7

\* Seen from outside, the queue with its workers, leases, crashes and retries
\* is the service of GradingService: a job's result never goes away, a job is
\* revived only by an instructor who saw it given up, and the AI phase is
\* promised in the step that leaves it work.
THEOREM QueueImplementsService == Spec => ImplementsService
<1>1. HistoryInv /\ [Next]_vars => [Service!Next]_Service!vars
  <2> SUFFICES ASSUME HistoryInv, [Next]_vars
               PROVE  Service!Next
    OBVIOUS
  <2>1. QueueInv
    BY DEF HistoryInv
  <2> QED BY <2>1, NextCalm, CalmGivesUp, IntakeAccepts, CommitFinishes, RetryNotices,
             RetryRevives
      DEF Service!Next
<1> QED BY <1>1, ServiceInit, HistoryInvariant, PTL DEF Spec, ImplementsService, Service!Spec

-----------------------------------------------------------------------------
(* Results that do not cross: the latest run is the current one            *)

\* A worker holds in the next state only what it holds now or has just taken.
Keeps(w) == working[w].stage # "idle" /\ Held(w)' => Held(w)

\* What a step other than RecordCommit makes of a worker.
ProcessStep(w) ==
    LET me == working[w]  new == working'[w] IN
    \/ new = me /\ Keeps(w)
    \/ new.stage \in {"idle", "grading"}
    \/ /\ me.stage = "grading" /\ new.stage = "graded" /\ new.job = me.job
       /\ \A r \in RunsOf(me.job.sub) : r.at < new.run.at
    \/ /\ me.stage = "graded" /\ new.stage = "recording" /\ Held(w)
       /\ new.job = me.job /\ new.run = me.run /\ new.prev \in Previous(me.job.sub)

Quiet ==
    /\ UNCHANGED <<saved, superseded, crossed>>
    /\ \A w \in Workers : ProcessStep(w)

\* A row is a reservation in the next state only if it is the same one now,
\* or is that of an idle worker that takes it.
NoStolenHold ==
    \A j \in JobKey :
        job'[j].state = "running" /\ job'[j].doc = "current" =>
            \/ SameReservation(job[j], job'[j])
            \/ \E v \in Workers : working[v].stage = "idle" /\ job'[j].worker = v

LEMMA HoldsKept ==
    ASSUME QueueInv, NoStolenHold, NEW w \in Workers, working'[w] = working[w]
    PROVE  Keeps(w)
<1> SUFFICES ASSUME working[w].stage # "idle", Held(w)' PROVE Held(w)
  BY DEF Keeps
<1> DEFINE j == working[w].job
<1>1. j \in JobKey
  BY DEF QueueInv, ProcessesOK, ProcessOK
<1>2. /\ job'[j].state = "running" /\ job'[j].doc = "current"
      /\ job'[j].worker = w /\ job'[j].attempts = working[w].attempts
  BY DEF Held
<1>3. SameReservation(job[j], job'[j])
  BY <1>1, <1>2 DEF NoStolenHold
<1> QED BY <1>2, <1>3 DEF SameReservation, Held

LEMMA SameJobsHold ==
    ASSUME job' = job
    PROVE  NoStolenHold
BY DEF NoStolenHold, SameReservation

LEMMA OneRowHold ==
    ASSUME QueueInv, NEW x \in JobKey, NEW row, job' = [job EXCEPT ![x] = row],
           \/ row.state # "running"
           \/ SameReservation(job[x], row)
           \/ \E v \in Workers : working[v].stage = "idle" /\ row.worker = v
    PROVE  NoStolenHold
BY DEF NoStolenHold, SameReservation, QueueInv, TypeOK

LEMMA ReserveHold ==
    ASSUME QueueInv, NEW w \in Workers, Reserve(w)
    PROVE  NoStolenHold
<1>1. \A k \in JobKey : /\ Reserved(job[k], w).worker = w
                        /\ GivenUp(job[k]).state = "failed"
  BY DEF QueueInv, TypeOK, Row, Reserved, GivenUp
<1>2. ASSUME NEW j \in JobKey, ReserveQueued(w, j)
      PROVE  NoStolenHold
  BY <1>1, <1>2, OneRowHold DEF ReserveQueued
<1>3. ASSUME NEW j \in JobKey, NEW failing \in SUBSET Exhausted(w), ReserveOrphaned(w, j, failing)
      PROVE  NoStolenHold
  BY <1>1, <1>3 DEF ReserveOrphaned, NoStolenHold, SameReservation
<1>4. CASE ReserveNothing(w)
  BY <1>1, <1>4 DEF ReserveNothing, NoStolenHold, SameReservation
<1> QED BY <1>2, <1>3, <1>4 DEF Reserve

LEMMA ReturnHold ==
    ASSUME QueueInv, NEW w \in Workers, RecordRelease(w) \/ RecordHandOff(w)
                \/ \E permanent \in BOOLEAN : RecordFailure(w, permanent)
    PROVE  NoStolenHold
<1> DEFINE j == working[w].job
<1>1. j \in JobKey /\ job[j] \in Row
  BY DEF QueueInv, TypeOK, ProcessesOK, ProcessOK, Attempting, RecordRelease,
         RecordHandOff, RecordFailure
<1>2. /\ Released(job[j]).state = "queued"
      /\ MovedTo(job[j], "transcription").state = "queued"
      /\ \A permanent \in BOOLEAN : Failed(job[j], permanent).state \in {"queued", "failed"}
  BY <1>1 DEF Row, Released, MovedTo, Failed, GivenUp
<1>3. ASSUME NEW row, row.state \in {"queued", "failed"}, Return(w, row)
      PROVE  NoStolenHold
  BY <1>1, <1>3, OneRowHold DEF Return
<1> QED BY <1>2, <1>3 DEF RecordRelease, RecordHandOff, RecordFailure

LEMMA CommitHold ==
    ASSUME QueueInv, NEW w \in Workers, RecordCommit(w)
    PROVE  NoStolenHold
BY CommitWrites DEF NoStolenHold, SameReservation

LEMMA ConsoleHold ==
    ASSUME HistoryInv, Console
    PROVE  NoStolenHold
<1>1. QueueInv /\ CopiesFailed
  BY DEF HistoryInv
<1>2. ASSUME NEW i \in Instructors, NEW kept \in SUBSET HasRead(i), RetryWrite(i, kept)
      PROVE  NoStolenHold
  BY <1>1, <1>2, RetryWrites DEF NoStolenHold, SameReservation
<1>3. ASSUME NEW e \in Editors, NEW ready \in BOOLEAN, RescheduleWrite(e, ready)
      PROVE  NoStolenHold
  <2>1. \A j \in JobKey : Rescheduled(job[j], ready).doc = "stale"
    BY <1>1 DEF Rescheduled, QueueInv, TypeOK, Row
  <2> QED BY <1>3, <2>1 DEF RescheduleWrite, WriteBack, NoStolenHold, SameReservation
<1>4. CASE job' = job
  BY <1>4, SameJobsHold
<1> QED BY <1>2, <1>3, <1>4 DEF Console, RetryRead, RescheduleRead, ReadBack

LEMMA QuietReserve ==
    ASSUME QueueInv, NEW w \in Workers, Reserve(w)
    PROVE  Quiet
<1>1. working \in [Workers -> Process] /\ NoStolenHold
  BY ReserveHold DEF QueueInv, TypeOK
<1>2. ASSUME NEW j \in JobKey, StartOn(w, j)
      PROVE  \A v \in Workers : ProcessStep(v)
  <2> TAKE v \in Workers
  <2>1. CASE v = w
    BY <1>1, <1>2, <2>1 DEF StartOn, ProcessStep, Idle
  <2>2. CASE v # w
    BY <1>1, <1>2, <2>2, HoldsKept DEF StartOn, ProcessStep
  <2> QED BY <2>1, <2>2
<1>3. ASSUME NEW j \in JobKey, ReserveQueued(w, j)
      PROVE  Quiet
  BY <1>2, <1>3 DEF ReserveQueued, Quiet
<1>4. ASSUME NEW j \in JobKey, NEW failing \in SUBSET Exhausted(w), ReserveOrphaned(w, j, failing)
      PROVE  Quiet
  BY <1>2, <1>4 DEF ReserveOrphaned, Quiet
<1>5. CASE ReserveNothing(w)
  BY <1>1, <1>5, HoldsKept DEF ReserveNothing, Quiet, ProcessStep, history
<1> QED BY <1>3, <1>4, <1>5 DEF Reserve

LEMMA QuietWork ==
    ASSUME QueueInv, NEW w \in Workers,
           Work(w) \/ RenewLease(w) \/ RecordRelease(w) \/ Crash(w)
    PROVE  Quiet \/ RecordCommit(w)
<1>1. working \in [Workers -> Process]
  BY DEF QueueInv, TypeOK
<1>2. ASSUME NoStolenHold, UNCHANGED <<saved, superseded, crossed>>,
             working' = [working EXCEPT ![w] = Idle]
      PROVE  Quiet
  <2>1. ASSUME NEW v \in Workers, v # w
        PROVE  working'[v] = working[v] /\ Keeps(v)
    BY <1>1, <1>2, <2>1, HoldsKept
  <2> QED BY <1>1, <1>2, <2>1 DEF Quiet, ProcessStep, Idle
<1>3. ASSUME NEW ai \in BOOLEAN, NEW at \in 1 .. MaxClock, Grade(w, ai, at)
      PROVE  Quiet
  <2>1. \A r \in RunsOf(working[w].job.sub) : r.at < at
    BY <1>3 DEF Grade, Now
  <2>2. ASSUME NEW v \in Workers, v # w
        PROVE  working'[v] = working[v] /\ Keeps(v)
    BY <1>1, <1>3, <2>2, SameJobsHold, HoldsKept DEF Grade
  <2>3. ProcessStep(w)
    BY <1>1, <1>3, <2>1 DEF Grade, ProcessStep, Process
  <2> QED BY <1>3, <2>2, <2>3 DEF Grade, Quiet, ProcessStep, history
<1>4. ASSUME NEW prev \in saved \union {None}, RecordRead(w, prev)
      PROVE  Quiet
  <2>1. ASSUME NEW v \in Workers, v # w
        PROVE  working'[v] = working[v] /\ Keeps(v)
    BY <1>1, <1>4, <2>1, SameJobsHold, HoldsKept DEF RecordRead
  <2>2. ProcessStep(w)
    BY <1>1, <1>4 DEF RecordRead, ProcessStep, Process
  <2> QED BY <1>4, <2>1, <2>2 DEF RecordRead, Quiet, ProcessStep, history
<1>5. CASE RecordConflict(w) \/ LeaseLost(w) \/ Crash(w)
  BY <1>2, <1>5, SameJobsHold DEF RecordConflict, LeaseLost, Crash, history
<1>6. CASE \/ RecordRelease(w) \/ RecordHandOff(w)
           \/ \E permanent \in BOOLEAN : RecordFailure(w, permanent)
  BY <1>2, <1>6, ReturnHold DEF RecordRelease, RecordHandOff, RecordFailure, Return
<1>7. CASE RenewLease(w)
  <2> DEFINE j == working[w].job
  <2>1. j \in JobKey /\ job[j] \in Row
    BY <1>7 DEF RenewLease, Attempting, QueueInv, TypeOK, ProcessesOK, ProcessOK
  <2>2. SameReservation(job[j], LeaseExtended(job[j]))
    BY <2>1 DEF SameReservation, LeaseExtended, Row
  <2>3. NoStolenHold
    BY <1>7, <2>1, <2>2, OneRowHold DEF RenewLease
  <2> QED BY <1>7, <2>3, HoldsKept DEF RenewLease, Quiet, ProcessStep, history
<1> QED BY <1>3, <1>4, <1>5, <1>6, <1>7, QuietReserve DEF Work

\* Every step is quiet or records a result.
LEMMA NextQuiet ==
    ASSUME HistoryInv, [Next]_vars
    PROVE  Quiet \/ \E w \in Workers : RecordCommit(w)
<1>1. QueueInv
  BY DEF HistoryInv
<1>2. ASSUME NoStolenHold, UNCHANGED <<working, saved, superseded, crossed>>
      PROVE  Quiet
  BY <1>1, <1>2, HoldsKept DEF Quiet, ProcessStep
<1>3. CASE Intake
  <2>1. PICK x \in JobKey, ready \in BOOLEAN : job' = [job EXCEPT ![x] = NewRow(ready, None)]
    BY <1>3, IntakeAddsRow
  <2>2. NewRow(ready, None).state = "queued"
    BY DEF NewRow, AbsentRow
  <2>3. NoStolenHold
    BY <1>1, <2>1, <2>2, OneRowHold
  <2> QED BY <1>2, <1>3, <2>3 DEF Intake, Accept, Regrade, history
<1>4. ASSUME NEW j \in JobKey, Wake(j) \/ LeaseExpires(j)
      PROVE  Quiet
  <2>1. job[j] \in Row
    BY <1>1 DEF QueueInv, TypeOK
  <2>2. /\ SameReservation(job[j], [job[j] EXCEPT !.ready = TRUE])
        /\ SameReservation(job[j], [job[j] EXCEPT !.lease = "expired"])
    BY <2>1 DEF SameReservation, Row
  <2>3. \/ job' = [job EXCEPT ![j] = [job[j] EXCEPT !.ready = TRUE]]
        \/ job' = [job EXCEPT ![j] = [job[j] EXCEPT !.lease = "expired"]]
    BY <1>4 DEF Wake, LeaseExpires
  <2>4. NoStolenHold
    BY <1>1, <2>2, <2>3, OneRowHold
  <2> QED BY <1>2, <1>4, <2>4 DEF Wake, LeaseExpires, history
<1>5. CASE Console
  <2>1. UNCHANGED <<working, saved, superseded, crossed>>
    BY <1>5 DEF Console, RetryRead, RetryWrite, RescheduleRead, RescheduleWrite, ReadBack,
                WriteBack, history
  <2> QED BY <1>2, <1>5, <2>1, ConsoleHold
<1>6. CASE UNCHANGED vars
  BY <1>2, <1>6, SameJobsHold DEF vars
<1> QED BY <1>1, <1>3, <1>4, <1>5, <1>6, QuietWork DEF Next

\* The part of SequenceInv that is about runs.
Sequence == SupersededSaved /\ PreviousOwn /\ RunsFollow /\ RunsOrdered /\ LatestIsCurrent

\* What a recorder reads while results do not cross.
LEMMA PreviousFound ==
    ASSUME QueueInv, LatestIsCurrent, NEW s \in Submissions, NEW prev \in Previous(s)
    PROVE  /\ prev \in RunsOf(s) \union {None}
           /\ s \notin crossed => IF RunsOf(s) = {} THEN prev = None
                                 ELSE prev \in Latest(s) /\ Open(prev)
<1>1. CASE RunsOf(s) = {}
  BY <1>1 DEF Previous
<1>2. CASE RunsOf(s) # {}
  <2>1. PICK r \in Latest(s) : prev = IF Open(r) THEN r ELSE None
    BY <1>2 DEF Previous
  <2>2. r \in RunsOf(s) /\ r \in saved /\ r.job.sub = s
    BY DEF Latest, RunsOf
  <2>3. s \notin crossed => Open(r)
    BY <2>2 DEF LatestIsCurrent
  <2> QED BY <1>2, <2>1, <2>2, <2>3
<1> QED BY <1>1, <1>2

LEMMA QuietKeepsSequence ==
    ASSUME QueueInv, Sequence, Quiet
    PROVE  Sequence'
<1>1. /\ saved' = saved /\ superseded' = superseded /\ crossed' = crossed
      /\ \A r : Open(r)' = Open(r)
      /\ \A s : RunsOf(s)' = RunsOf(s) /\ Latest(s)' = Latest(s)
  BY DEF Quiet, Open, RunsOf, Latest
<1>2. SupersededSaved' /\ RunsOrdered'
  BY <1>1 DEF Sequence, SupersededSaved, RunsOrdered
<1>3. LatestIsCurrent'
  BY <1>1 DEF Sequence, LatestIsCurrent
<1>4. \A w \in Workers : working[w].stage # "idle" =>
            working[w].job \in JobKey /\ working[w].job.sub \in Submissions
  BY DEF QueueInv, ProcessesOK, ProcessOK, JobKey
<1>5. PreviousOwn'
  <2> SUFFICES ASSUME NEW w \in Workers, working'[w].stage = "recording"
               PROVE  working'[w].prev \in RunsOf(working'[w].job.sub) \union {None}
    BY <1>1 DEF PreviousOwn
  <2>1. CASE working'[w] = working[w]
    BY <2>1 DEF Sequence, PreviousOwn
  <2>2. CASE /\ working[w].stage = "graded" /\ working'[w].job = working[w].job
             /\ working'[w].prev \in Previous(working[w].job.sub)
    BY <1>4, <2>2, PreviousFound DEF Sequence
  <2> QED BY <2>1, <2>2 DEF Quiet, ProcessStep
<1>6. RunsFollow'
  <2> SUFFICES ASSUME NEW w \in Workers, working'[w].stage \in {"graded", "recording"},
                      Held(w)', working'[w].job.sub \notin crossed
               PROVE  LET new == working'[w] IN
                      /\ \A r \in RunsOf(new.job.sub) : r.at < new.run.at
                      /\ new.stage = "recording" =>
                            IF RunsOf(new.job.sub) = {} THEN new.prev = None
                            ELSE new.prev \in Latest(new.job.sub) /\ Open(new.prev)
    BY <1>1 DEF RunsFollow
  <2>1. CASE working'[w] = working[w] /\ Keeps(w)
    BY <2>1 DEF Keeps, Sequence, RunsFollow
  <2>2. CASE /\ working[w].stage = "grading" /\ working'[w].stage = "graded"
             /\ working'[w].job = working[w].job
             /\ \A r \in RunsOf(working[w].job.sub) : r.at < working'[w].run.at
    BY <2>2
  <2>3. CASE /\ working[w].stage = "graded" /\ Held(w)
             /\ working'[w].job = working[w].job /\ working'[w].run = working[w].run
             /\ working'[w].prev \in Previous(working[w].job.sub)
    <3>1. \A r \in RunsOf(working[w].job.sub) : r.at < working[w].run.at
      BY <2>3 DEF Sequence, RunsFollow
    <3> QED BY <1>4, <2>3, <3>1, PreviousFound DEF Sequence
  <2> QED BY <2>1, <2>2, <2>3 DEF Quiet, ProcessStep
<1> QED BY <1>2, <1>3, <1>5, <1>6 DEF Sequence

LEMMA CommitKeepsSequence ==
    ASSUME QueueInv, Sequence, NEW w \in Workers, RecordCommit(w)
    PROVE  Sequence'
<1>0. PICK s, run, prev : /\ s = working[w].job.sub /\ run = working[w].run
                          /\ prev = working[w].prev
  OBVIOUS
<1>1. /\ working[w].stage = "recording" /\ saved' = saved \union {run}
      /\ superseded' = IF prev = None THEN superseded ELSE superseded \union {<<prev, run>>}
      /\ working' = [working EXCEPT ![w] = Idle]
      /\ crossed' = IF Rivals(w) = {} THEN crossed ELSE crossed \union {s}
  BY <1>0 DEF RecordCommit
<1>2. \A v \in Workers : working'[v] = IF v = w THEN Idle ELSE working[v]
  BY <1>1 DEF QueueInv, TypeOK
<1>3. /\ working[w].job \in JobKey /\ s \in Submissions /\ run \in Run
      /\ run.job = working[w].job /\ run.job.sub = s /\ Held(w)
  BY <1>0, <1>1, RecorderFacts DEF JobKey
<1>4. /\ \A r \in saved : r \in Run /\ r.at \in Int /\ r.job.sub \in Submissions
      /\ run.at \in Int /\ None \notin saved /\ None # run
  BY <1>3, ConstantsAssumption DEF QueueInv, TypeOK, Run, JobKey
<1>5. prev \in RunsOf(s) \union {None}
  BY <1>0, <1>1 DEF Sequence, PreviousOwn
<1>6. ASSUME s \notin crossed
      PROVE  /\ \A r \in RunsOf(s) : r.at < run.at
             /\ IF RunsOf(s) = {} THEN prev = None ELSE prev \in Latest(s) /\ Open(prev)
  BY <1>0, <1>1, <1>3, <1>6 DEF Sequence, RunsFollow
<1>7. \A t : RunsOf(t)' = IF t = s THEN RunsOf(t) \union {run} ELSE RunsOf(t)
  BY <1>0, <1>1, <1>3 DEF RunsOf
<1>8. \A t : t # s => Latest(t)' = Latest(t)
  BY <1>7 DEF Latest
<1>9. ASSUME NEW r
      PROVE  Open(r)' <=> Open(r) /\ (r # prev \/ prev = None)
  <2>1. CASE prev = None
    BY <1>1, <2>1 DEF Open
  <2>2. CASE prev # None
    <3>1. superseded' = superseded \union {<<prev, run>>}
      BY <1>1, <2>2
    <3>2. <<prev, run>>[1] = prev
      OBVIOUS
    <3> QED BY <2>2, <3>1, <3>2 DEF Open
  <2> QED BY <2>1, <2>2
<1>10. SupersededSaved'
  <2> SUFFICES ASSUME NEW p \in superseded' PROVE p[1] \in saved \union {run}
    BY <1>1 DEF SupersededSaved
  <2>1. CASE p \in superseded
    BY <2>1 DEF Sequence, SupersededSaved
  <2>2. CASE p = <<prev, run>> /\ prev # None
    BY <1>5, <2>2 DEF RunsOf
  <2> QED BY <1>1, <2>1, <2>2
<1>11. PreviousOwn'
  <2> SUFFICES ASSUME NEW v \in Workers, working'[v].stage = "recording",
                      working'[v].prev # None
               PROVE  /\ working'[v].prev \in saved'
                      /\ working'[v].prev.job.sub = working'[v].job.sub
    BY DEF PreviousOwn, RunsOf
  <2>1. working'[v] = working[v]
    BY <1>2 DEF Idle
  <2> QED BY <1>1, <2>1 DEF Sequence, PreviousOwn, RunsOf
<1>12. \A v \in Workers \ {w} : Keeps(v)
  BY <1>2, CommitHold, HoldsKept
<1>13. RunsFollow'
  <2> SUFFICES ASSUME NEW v \in Workers, working'[v].stage \in {"graded", "recording"},
                      Held(v)', working'[v].job.sub \notin crossed',
                      NEW t, t = working'[v].job.sub
               PROVE  LET me == working'[v] IN
                      /\ \A r \in RunsOf(t)' : r.at < me.run.at
                      /\ me.stage = "recording" =>
                            IF RunsOf(t)' = {} THEN me.prev = None
                            ELSE me.prev \in Latest(t)' /\ \A q : q = me.prev => Open(q)'
    BY DEF RunsFollow, RunsOf, Latest, Open
  <2>1. v # w /\ working'[v] = working[v]
    BY <1>2 DEF Idle
  <2>2. Held(v)
    BY <1>12, <2>1 DEF Keeps
  <2>3. t # s /\ t \notin crossed /\ t = working[v].job.sub
    BY <1>0, <1>1, <2>1, <2>2 DEF Rivals
  <2>4. working[v].prev \in RunsOf(t) => working[v].prev # prev
    BY <1>4, <1>5, <2>3 DEF RunsOf
  <2>5. RunsOf(t)' = RunsOf(t) /\ Latest(t)' = Latest(t) /\ Latest(t) \subseteq RunsOf(t)
    BY <1>7, <1>8, <2>3 DEF Latest
  <2>6. LET me == working[v] IN
        /\ \A r \in RunsOf(t) : r.at < me.run.at
        /\ me.stage = "recording" =>
              IF RunsOf(t) = {} THEN me.prev = None
              ELSE me.prev \in Latest(t) /\ Open(me.prev)
    BY <2>1, <2>2, <2>3 DEF Sequence, RunsFollow
  <2> QED BY <1>9, <2>1, <2>4, <2>5, <2>6
<1>14. RunsOrdered'
  <2> SUFFICES ASSUME NEW q \in saved', NEW r \in saved', q.job.sub = r.job.sub, q.at = r.at,
                      q.job.sub \notin crossed'
               PROVE  q = r
    BY DEF RunsOrdered
  <2>1. q.job.sub \notin crossed
    BY <1>1
  <2>2. \A x \in saved : x.job.sub = s /\ s \notin crossed => x.at < run.at
    BY <1>6 DEF RunsOf
  <2>3. CASE q \in saved /\ r \in saved
    BY <2>1, <2>3 DEF Sequence, RunsOrdered
  <2>4. CASE q = run \/ r = run
    BY <1>1, <1>3, <1>4, <2>1, <2>2, <2>4
  <2> QED BY <1>1, <2>3, <2>4
<1>15. LatestIsCurrent'
  <2> SUFFICES ASSUME NEW r \in saved', r.job.sub \notin crossed'
               PROVE  Open(r)' <=> r \in Latest(r.job.sub)'
    BY DEF LatestIsCurrent
  <2>1. r.job.sub \notin crossed
    BY <1>1
  <2>2. CASE r.job.sub # s
    <3>1. r \in saved /\ r # prev
      BY <1>1, <1>3, <1>4, <1>5, <2>2 DEF RunsOf
    <3> QED BY <1>8, <1>9, <2>1, <2>2, <3>1 DEF Sequence, LatestIsCurrent
  <2>3. CASE r.job.sub = s
    <3>1. \A x \in RunsOf(s) : x.at < run.at /\ x.at \in Int
      BY <1>4, <1>6, <2>1, <2>3 DEF RunsOf
    <3>2. run \notin saved
      BY <1>3, <1>4, <3>1 DEF RunsOf
    <3>3. Latest(s)' = {run}
      BY <1>4, <1>7, <3>1 DEF Latest
    <3>4. Open(run)'
      BY <1>4, <1>5, <1>9, <3>2 DEF Sequence, SupersededSaved, Open, RunsOf
    <3>5. ASSUME r \in saved
          PROVE  ~Open(r)'
      <4>1. r \in RunsOf(s) /\ prev \in Latest(s)
        BY <1>6, <2>1, <2>3, <3>5 DEF RunsOf
      <4>2. CASE r \in Latest(s)
        <5>1. r.at = prev.at /\ prev \in saved /\ prev.job.sub = s
          BY <1>4, <4>1, <4>2 DEF Latest, RunsOf
        <5>2. r = prev
          BY <2>1, <2>3, <3>5, <5>1 DEF Sequence, RunsOrdered
        <5> QED BY <1>4, <1>9, <3>5, <5>2
      <4>3. CASE r \notin Latest(s)
        BY <1>9, <2>1, <2>3, <3>5, <4>3 DEF Sequence, LatestIsCurrent
      <4> QED BY <4>2, <4>3
    <3> QED BY <1>1, <2>3, <3>2, <3>3, <3>4, <3>5
  <2> QED BY <2>2, <2>3
<1> QED BY <1>10, <1>11, <1>13, <1>14, <1>15 DEF Sequence

\* The inductive invariant of results that do not cross: the runs of a
\* submission, those in hand and the clock agree on which comes first.
THEOREM SequenceInvariant == Spec => []SequenceInv
<1>1. Init => Sequence
  BY DEF Init, Sequence, SupersededSaved, PreviousOwn, RunsFollow, RunsOrdered,
         LatestIsCurrent, Idle
<1>2. HistoryInv /\ Sequence /\ [Next]_vars => Sequence'
  <2>1. HistoryInv => QueueInv
    BY DEF HistoryInv
  <2> QED BY <2>1, NextQuiet, QuietKeepsSequence, CommitKeepsSequence
<1>3. QueueInv /\ Sequence => SequenceInv
  BY DEF Sequence, SequenceInv
<1> QED BY <1>1, <1>2, <1>3, QueueInvariant, HistoryInvariant, PTL DEF Spec

\* Unless results crossed no supersession collides, through regrades and
\* retries too, so no worker dies of one.
THEOREM SupersessionNeverCollides == Spec => []NoConflict
<1>1. SequenceInv => NoConflict
  BY DEF SequenceInv, QueueInv, RecorderHolds, RunsFollow, NoConflict
<1> QED BY <1>1, SequenceInvariant, PTL

\* Unless results crossed exactly the latest run of a submission is not
\* superseded: statistics and screens agree.
THEOREM TheLatestIsCurrent == Spec => []LatestIsCurrent
<1>1. SequenceInv => LatestIsCurrent
  BY DEF SequenceInv
<1> QED BY <1>1, SequenceInvariant, PTL

=============================================================================
