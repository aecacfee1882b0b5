------------------------- MODULE FinalizationProofs -------------------------
(***************************************************************************)
(* FinalInv is an inductive invariant of Finalization for any submissions, *)
(* closers, graders and bounds, and with it the safety properties that the *)
(* run of MCFinalization checks.  The grading of a submission changes no   *)
(* decision; a decision is made by CloserCommit and GraderSave only.       *)
(***************************************************************************)
EXTENDS Finalization, TLAPS

\* The parts of a run.
LEMMA RunParts ==
    ASSUME NEW r \in Run
    PROVE  r.sub \in Submissions /\ r.no \in Nat /\ r.no > 0
<1>1. PICK s \in Submissions : r \in [sub : {s}, no : 1 .. MaxRuns[s]]
  BY DEF Run
<1>2. MaxRuns[s] \in Nat
  BY FinalizationAssumption
<1> QED BY <1>1, <1>2

LEMMA InitHolds == Init => FinalInv
<1> SUFFICES ASSUME Init PROVE FinalInv
  OBVIOUS
<1>1. MaxRuns \in [Submissions -> Nat]
  BY FinalizationAssumption
<1>2. runs \in [Submissions -> Seq(Kind)] /\ \A s \in Submissions : Len(runs[s]) = 0
  BY DEF Init
<1>3. TypeOK
  BY <1>1, <1>2 DEF Init, TypeOK, Source, Closer, Idle, Reviewing
<1>4. RecordsAgree /\ ClosedAsAllowed /\ KnownRuns /\ RowsAllowed /\ ClosedStays
  BY DEF Init, RecordsAgree, ClosedAsAllowed, KnownRuns, RowsAllowed, ClosedStays, Idle
<1> QED BY <1>3, <1>4 DEF FinalInv

\* A run that is recorded keeps its kind, and nothing that is decided depends
\* on the runs that come after it.
LEMMA NewRunKeeps ==
    ASSUME FinalInv, NEW s \in Submissions, NEW k \in Kind, NewRun(s, k),
           pending' \in [Submissions -> Nat], UNCHANGED <<failed, due, decisions>>
    PROVE  FinalInv'
<1>1. /\ UNCHANGED <<failed, due, finals, reviewed, requests, asking, closers, graders>>
      /\ runs \in [Submissions -> Seq(Kind)] /\ MaxRuns \in [Submissions -> Nat]
      /\ due \in [Submissions -> Nat]
  BY FinalizationAssumption DEF decisions, FinalInv, TypeOK
<1>2. /\ runs[s] \in Seq(Kind) /\ Len(runs[s]) < MaxRuns[s]
      /\ runs' = [runs EXCEPT ![s] = Append(runs[s], k)]
  BY <1>1 DEF NewRun
<1>3. /\ Append(runs[s], k) \in Seq(Kind)
      /\ Len(Append(runs[s], k)) = Len(runs[s]) + 1
      /\ Len(runs[s]) \in Nat
      /\ \A i \in 1 .. Len(runs[s]) : Append(runs[s], k)[i] = runs[s][i]
  BY <1>2
<1>4. /\ runs'[s] = Append(runs[s], k)
      /\ \A t \in Submissions \ {s} : runs'[t] = runs[t]
  BY <1>1, <1>2
<1>5. TypeOK'
  <2>1. runs' \in [Submissions -> Seq(Kind)]
    BY <1>1, <1>2, <1>3
  <2>2. \A t \in Submissions : Len(runs'[t]) <= MaxRuns[t] /\ due[t] <= Len(runs'[t])
    <3>1. TAKE t \in Submissions
    <3>2. Len(runs[t]) <= MaxRuns[t] /\ due[t] <= Len(runs[t])
      BY DEF FinalInv, TypeOK
    <3>3. CASE t = s
      BY <1>1, <1>2, <1>3, <1>4, <3>2, <3>3
    <3>4. CASE t # s
      BY <1>4, <3>2, <3>4
    <3> QED BY <3>3, <3>4
  <2> QED BY <1>1, <2>1, <2>2 DEF FinalInv, TypeOK
<1>6. ASSUME NEW r \in Run, Recorded(r)
      PROVE  Recorded(r)' /\ KindOf(r)' = KindOf(r)
  <2>1. r.sub \in Submissions /\ r.no \in Nat /\ r.no > 0 /\ r.no <= Len(runs[r.sub])
    BY <1>6, RunParts DEF Recorded
  <2>2. CASE r.sub = s
    BY <1>3, <1>4, <2>1, <2>2 DEF Recorded, KindOf
  <2>3. CASE r.sub # s
    BY <1>4, <2>1, <2>3 DEF Recorded, KindOf
  <2> QED BY <2>2, <2>3
<1>7. KnownRuns'
  <2>1. \A c \in Closers : closers[c].rows \subseteq Run
    BY DEF FinalInv, TypeOK, Closer
  <2>2. \A g \in Graders : graders[g].stage # "idle" => graders[g].run \in Run
    BY DEF FinalInv, TypeOK, Reviewing
  <2> QED BY <1>1, <1>6, <2>1, <2>2 DEF FinalInv, KnownRuns
<1>8. RecordsAgree' /\ ClosedStays'
  BY <1>1 DEF FinalInv, RecordsAgree, ClosedStays
<1>9. ClosedAsAllowed'
  BY <1>1, <1>6 DEF FinalInv, KnownRuns, ClosedAsAllowed, Overdue
<1>10. RowsAllowed'
  <2>1. \A c \in Closers : closers[c].rows \subseteq Run
    BY DEF FinalInv, TypeOK, Closer
  <2> QED BY <1>1, <1>6, <2>1 DEF FinalInv, KnownRuns, RowsAllowed, Finished, Overdue
<1> QED BY <1>5, <1>7, <1>8, <1>9, <1>10 DEF FinalInv

\* The jobs of the AI phase and the time that passes.
LEMMA JobsKeep ==
    ASSUME FinalInv, NEW s \in Submissions, AiGivesUp(s) \/ RetryAi(s) \/ GraceEnds(s)
    PROVE  FinalInv'
<1>1. /\ UNCHANGED <<runs, finals, reviewed, requests, asking, closers, graders>>
      /\ pending' \in [Submissions -> Nat] /\ failed' \in [Submissions -> Nat]
      /\ due' \in [Submissions -> Nat]
      /\ \A t \in Submissions : due[t] <= due'[t] /\ due'[t] <= Len(runs[t])
  <2>1. CASE AiGivesUp(s)
    BY <2>1 DEF AiGivesUp, FinalInv, TypeOK, decisions
  <2>2. CASE RetryAi(s)
    BY <2>2 DEF RetryAi, FinalInv, TypeOK, decisions
  <2>3. CASE GraceEnds(s)
    BY <2>3 DEF GraceEnds, FinalInv, TypeOK, decisions
  <2> QED BY <2>1, <2>2, <2>3
<1>2. TypeOK'
  BY <1>1 DEF FinalInv, TypeOK
<1>3. \A r \in Run : Overdue(r) => Overdue(r)'
  <2>1. TAKE r \in Run
  <2>2. due[r.sub] \in Nat /\ due'[r.sub] \in Nat /\ due[r.sub] <= due'[r.sub] /\ r.no \in Nat
    BY <1>1, RunParts DEF FinalInv, TypeOK
  <2> QED BY <2>2 DEF Overdue
<1>4. RecordsAgree' /\ ClosedStays' /\ KnownRuns'
  BY <1>1 DEF FinalInv, RecordsAgree, ClosedStays, KnownRuns, Recorded
<1>5. ClosedAsAllowed'
  BY <1>1, <1>3 DEF FinalInv, ClosedAsAllowed, KindOf
<1>6. RowsAllowed'
  <2>1. \A c \in Closers : closers[c].rows \subseteq Run
    BY DEF FinalInv, TypeOK, Closer
  <2> QED BY <1>1, <1>3, <2>1 DEF FinalInv, RowsAllowed, Finished, KindOf
<1> QED BY <1>2, <1>4, <1>5, <1>6 DEF FinalInv

\* A closer that reads, checks or rolls back takes closable rows in hand.
LEMMA CloserKeeps ==
    ASSUME FinalInv, NEW c \in Closers, CloserRead(c) \/ CloserCheck(c) \/ CloserCollides(c)
    PROVE  FinalInv'
<1>1. /\ UNCHANGED <<runs, pending, failed, due, finals, reviewed, requests, asking, graders>>
      /\ closers \in [Closers -> Closer]
  BY DEF CloserRead, CloserCheck, CloserCollides, gradings, FinalInv, TypeOK
<1>2. PICK me \in Closer :
        /\ closers' = [closers EXCEPT ![c] = me]
        /\ \A r \in me.rows : Recorded(r) /\ r.sub \notin Held /\ Finished(c, r)
  <2>1. CASE CloserRead(c)
    <3> DEFINE rows == {r \in Run : Latest(r) /\ finals[r] = "none" /\ Closable(c, r)}
    <3>1. \A r \in rows : Recorded(r) /\ r.sub \notin Held /\ Finished(c, r)
      <4>1. TAKE r \in rows
      <4>2. r.no \in Nat /\ r.no = Len(runs[r.sub])
        BY RunParts DEF Latest
      <4> QED BY <4>2 DEF Closable, Recorded
    <3>2. closers' = [closers EXCEPT ![c] = [stage |-> "read", rows |-> rows]]
      BY <2>1 DEF CloserRead
    <3>3. rows \subseteq Run
      OBVIOUS
    <3> HIDE DEF rows
    <3>4. [stage |-> "read", rows |-> rows] \in Closer
      BY <3>3 DEF Closer
    <3> QED BY <3>1, <3>2, <3>4
  <2>2. CASE CloserCheck(c)
    <3> DEFINE rows == {r \in closers[c].rows : pending[r.sub] = 0}
    <3>1. closers' = [closers EXCEPT ![c] = [stage |-> "checked", rows |-> rows]]
      BY <2>2 DEF CloserCheck
    <3>2. rows \subseteq Run /\ \A r \in rows : Recorded(r) /\ r.sub \notin Held /\ Finished(c, r)
      BY <1>1 DEF FinalInv, KnownRuns, RowsAllowed, Closer
    <3> HIDE DEF rows
    <3>3. [stage |-> "checked", rows |-> rows] \in Closer
      BY <3>2 DEF Closer
    <3> QED BY <3>1, <3>2, <3>3
  <2>3. CASE CloserCollides(c)
    <3>1. closers' = [closers EXCEPT ![c] = Idle]
      BY <2>3 DEF CloserCollides
    <3>2. Idle \in Closer /\ Idle.rows = {}
      BY DEF Idle, Closer
    <3> QED BY <3>1, <3>2
  <2> QED BY <2>1, <2>2, <2>3
<1>3. closers'[c] = me /\ \A d \in Closers \ {c} : closers'[d] = closers[d]
  BY <1>1, <1>2
<1>4. TypeOK'
  BY <1>1, <1>2 DEF FinalInv, TypeOK
<1>5. RecordsAgree' /\ ClosedAsAllowed' /\ ClosedStays'
  BY <1>1 DEF FinalInv, RecordsAgree, ClosedAsAllowed, ClosedStays, Overdue, KindOf
<1>6. KnownRuns'
  BY <1>1, <1>2, <1>3 DEF FinalInv, KnownRuns, Recorded
<1>7. RowsAllowed'
  BY <1>1, <1>2, <1>3 DEF FinalInv, RowsAllowed, Finished, Overdue, KindOf
<1> QED BY <1>4, <1>5, <1>6, <1>7 DEF FinalInv

\* The rows that are closed were nobody's, and may be closed by this closer.
LEMMA CommitKeeps ==
    ASSUME FinalInv, NEW c \in Closers, CloserCommit(c)
    PROVE  FinalInv'
<1> DEFINE rows == closers[c].rows
<1>1. /\ UNCHANGED <<runs, pending, failed, due, reviewed, requests, asking, graders>>
      /\ closers' = [closers EXCEPT ![c] = Idle]
      /\ closers \in [Closers -> Closer] /\ rows \subseteq Run
      /\ \A r \in rows : finals[r] = "none"
      /\ finals' = [r \in Run |-> IF r \in rows THEN SourceOf(c) ELSE finals[r]]
      /\ finals \in [Run -> Source]
  BY DEF CloserCommit, gradings, FinalInv, TypeOK, Closer
<1>2. /\ SourceOf(c) \in {"automatic", "bulk"}
      /\ SourceOf(c) = "automatic" <=> c = Sweep
  BY DEF SourceOf
<1>3. /\ closers'[c] = Idle /\ Idle.rows = {} /\ Idle \in Closer
      /\ \A d \in Closers \ {c} : closers'[d] = closers[d]
  BY <1>1 DEF Idle, Closer
<1>4. \A r \in Run : r \in rows => Recorded(r) /\ r.sub \notin Held /\ Finished(c, r)
  BY DEF FinalInv, KnownRuns, RowsAllowed
<1> HIDE DEF rows
<1>5. TypeOK'
  <2>1. finals' \in [Run -> Source]
    BY <1>1, <1>2 DEF Source
  <2>2. closers' \in [Closers -> Closer]
    BY <1>1, <1>3
  <2> QED BY <1>1, <2>1, <2>2 DEF FinalInv, TypeOK
<1>6. RecordsAgree'
  BY <1>1, <1>2 DEF FinalInv, RecordsAgree
<1>7. ClosedAsAllowed'
  <2>1. SUFFICES ASSUME NEW r \in Run
                 PROVE  /\ finals'[r] = "automatic" => Overdue(r) /\ KindOf(r) = "clean"
                        /\ finals'[r] = "bulk" => KindOf(r) # "human"
                        /\ finals'[r] \in {"automatic", "bulk"} => r.sub \notin Held
    BY <1>1 DEF ClosedAsAllowed, Overdue, KindOf
  <2>2. CASE r \in rows
    BY <1>1, <1>2, <1>4, <2>2 DEF Finished
  <2>3. CASE r \notin rows
    BY <1>1, <2>3 DEF FinalInv, ClosedAsAllowed
  <2> QED BY <2>2, <2>3
<1>8. KnownRuns'
  BY <1>1, <1>3, <1>4 DEF FinalInv, KnownRuns, Recorded
<1>9. RowsAllowed'
  BY <1>1, <1>3 DEF FinalInv, RowsAllowed, Finished, Overdue, KindOf
<1>10. ClosedStays'
  <2>1. \A g \in Graders : graders[g].stage = "loaded" => graders[g].run \in Run
    BY DEF FinalInv, TypeOK, Reviewing
  <2> QED BY <1>1, <1>2, <2>1 DEF FinalInv, ClosedStays
<1> QED BY <1>5, <1>6, <1>7, <1>8, <1>9, <1>10 DEF FinalInv

\* The learner's request decides nothing.
LEMMA AskKeeps ==
    ASSUME FinalInv, NEW r \in Run, AskView(r) \/ AskSave(r)
    PROVE  FinalInv'
<1>1. /\ UNCHANGED <<runs, pending, failed, due, finals, reviewed, closers, graders>>
      /\ asking' \subseteq Run
      /\ requests' \in [Run -> {"none", "open", "resolved"}]
      /\ \A q \in Run : requests'[q] = "resolved" => requests[q] = "resolved"
  BY DEF AskView, AskSave, gradings, FinalInv, TypeOK
<1>2. TypeOK'
  BY <1>1 DEF FinalInv, TypeOK
<1>3. RecordsAgree' /\ ClosedAsAllowed' /\ KnownRuns' /\ RowsAllowed' /\ ClosedStays'
  BY <1>1 DEF FinalInv, RecordsAgree, ClosedAsAllowed, KnownRuns, RowsAllowed, ClosedStays,
              Recorded, Finished, Overdue, KindOf
<1> QED BY <1>2, <1>3 DEF FinalInv

\* A grader who loads, or is turned away, decides nothing.
LEMMA GraderMoves ==
    ASSUME FinalInv, NEW g \in Graders,
           \/ \E r \in Run : GraderLoad(g, r)
           \/ GraderCheck(g) \/ GraderRefused(g) \/ GraderCollides(g)
    PROVE  FinalInv'
<1>1. /\ UNCHANGED <<runs, pending, failed, due, finals, reviewed, requests, asking, closers>>
      /\ graders \in [Graders -> Reviewing] /\ finals \in [Run -> Source]
  BY DEF GraderLoad, GraderCheck, GraderRefused, GraderCollides, gradings, FinalInv, TypeOK
<1>2. PICK me \in Reviewing :
        /\ graders' = [graders EXCEPT ![g] = me]
        /\ me.stage # "idle" => me.run \in Run /\ Recorded(me.run)
        /\ me.stage = "loaded" => (me.closed <=> finals[me.run] # "none")
  <2>1. CASE \E r \in Run : GraderLoad(g, r)
    <3>1. PICK r \in Run : GraderLoad(g, r)
      BY <2>1
    <3>2. Recorded(r)
      <4>1. r.no \in Nat /\ r.no = Len(runs[r.sub])
        BY <3>1, RunParts DEF GraderLoad, Latest
      <4> QED BY <4>1 DEF Recorded
    <3>3. [stage |-> "loading", run |-> r] \in Reviewing
      BY DEF Reviewing
    <3> QED BY <3>1, <3>2, <3>3 DEF GraderLoad
  <2>2. CASE GraderCheck(g)
    <3> DEFINE r == graders[g].run
    <3> DEFINE me == [stage |-> "loaded", run |-> r, closed |-> finals[r] # "none"]
    <3>1. r \in Run /\ Recorded(r)
      BY <2>2 DEF GraderCheck, FinalInv, TypeOK, Reviewing, KnownRuns
    <3>2. graders' = [graders EXCEPT ![g] = me]
      BY <2>2 DEF GraderCheck
    <3>3. me \in Reviewing
      BY <3>1 DEF Reviewing
    <3>4. me.stage = "loaded" /\ me.run = r /\ (me.closed <=> finals[r] # "none")
      OBVIOUS
    <3> HIDE DEF me
    <3> QED BY <3>1, <3>2, <3>3, <3>4
  <2>3. CASE GraderRefused(g) \/ GraderCollides(g)
    <3>1. graders' = [graders EXCEPT ![g] = [stage |-> "idle"]]
      BY <2>3 DEF GraderRefused, GraderCollides
    <3>2. [stage |-> "idle"] \in Reviewing
      BY DEF Reviewing
    <3> QED BY <3>1, <3>2
  <2> QED BY <2>1, <2>2, <2>3
<1>3. graders'[g] = me /\ \A h \in Graders \ {g} : graders'[h] = graders[h]
  BY <1>1, <1>2
<1>4. TypeOK'
  BY <1>1, <1>2 DEF FinalInv, TypeOK
<1>5. RecordsAgree' /\ ClosedAsAllowed' /\ RowsAllowed'
  BY <1>1 DEF FinalInv, RecordsAgree, ClosedAsAllowed, RowsAllowed, Finished, Overdue, KindOf
<1>6. KnownRuns' /\ ClosedStays'
  BY <1>1, <1>2, <1>3 DEF FinalInv, KnownRuns, Recorded, ClosedStays
<1> QED BY <1>4, <1>5, <1>6 DEF FinalInv

\* The review is saved with the finalization, or finds one.
LEMMA SaveKeeps ==
    ASSUME FinalInv, NEW g \in Graders, GraderSave(g)
    PROVE  FinalInv'
<1> DEFINE r == graders[g].run
<1> DEFINE closed == graders[g].closed
<1> DEFINE idle == [stage |-> "idle"]
<1>1. /\ UNCHANGED <<runs, pending, failed, due, asking, closers>>
      /\ graders \in [Graders -> Reviewing] /\ finals \in [Run -> Source]
      /\ requests \in [Run -> {"none", "open", "resolved"}]
      /\ graders[g].stage = "loaded"
      /\ reviewed' = reviewed \union {r}
      /\ finals' = [finals EXCEPT ![r] = IF closed THEN finals[r] ELSE "review"]
      /\ requests' = [requests EXCEPT ![r] = Resolved(r)]
      /\ graders' = [graders EXCEPT ![g] = idle]
  BY DEF GraderSave, gradings, FinalInv, TypeOK
<1>2. /\ r \in Run /\ closed \in BOOLEAN /\ Recorded(r)
      /\ closed => finals[r] # "none"
      /\ Resolved(r) \in {"none", "resolved"}
  BY <1>1 DEF Reviewing, FinalInv, KnownRuns, ClosedStays, Resolved
<1>3. /\ idle \in Reviewing /\ idle.stage = "idle"
  BY DEF Reviewing
<1> HIDE DEF r, closed, idle
<1>4. /\ graders'[g] = idle /\ \A h \in Graders \ {g} : graders'[h] = graders[h]
      /\ finals'[r] \in Source \ {"none"}
      /\ finals'[r] = "review" \/ finals'[r] = finals[r]
      /\ \A q \in Run \ {r} : finals'[q] = finals[q] /\ requests'[q] = requests[q]
      /\ finals' \in [Run -> Source]
      /\ requests' \in [Run -> {"none", "open", "resolved"}]
  BY <1>1, <1>2 DEF Source
<1>5. TypeOK'
  BY <1>1, <1>2, <1>3, <1>4 DEF FinalInv, TypeOK
<1>6. RecordsAgree'
  BY <1>1, <1>4 DEF FinalInv, RecordsAgree
<1>7. ClosedAsAllowed'
  BY <1>1, <1>4 DEF FinalInv, ClosedAsAllowed, Overdue, KindOf
<1>8. RowsAllowed'
  BY <1>1 DEF FinalInv, RowsAllowed, Finished, Overdue, KindOf
<1>9. KnownRuns'
  BY <1>1, <1>2, <1>3, <1>4 DEF FinalInv, KnownRuns, Recorded
<1>10. ClosedStays'
  <2>1. \A h \in Graders : graders[h].stage = "loaded" => graders[h].run \in Run
    BY DEF FinalInv, TypeOK, Reviewing
  <2> QED BY <1>3, <1>4, <2>1 DEF FinalInv, ClosedStays
<1> QED BY <1>5, <1>6, <1>7, <1>8, <1>9, <1>10 DEF FinalInv

LEMMA StutterKeeps ==
    ASSUME FinalInv, UNCHANGED vars
    PROVE  FinalInv'
BY DEF vars, FinalInv, TypeOK, RecordsAgree, ClosedAsAllowed, KnownRuns, RowsAllowed, ClosedStays,
       Recorded, Finished, Overdue, KindOf

LEMMA NextKeeps == FinalInv /\ [Next]_vars => FinalInv'
<1> SUFFICES ASSUME FinalInv, [Next]_vars PROVE FinalInv'
  OBVIOUS
<1>1. CASE \E s \in Submissions, k \in Kind :
              RecordTests(s, k) \/ RecordProvisional(s, k) \/ RecordAi(s, k)
  <2>1. PICK s \in Submissions, k \in Kind :
              RecordTests(s, k) \/ RecordProvisional(s, k) \/ RecordAi(s, k)
    BY <1>1
  <2>2. NewRun(s, k) /\ UNCHANGED <<failed, due, decisions>>
    BY <2>1 DEF RecordTests, RecordProvisional, RecordAi
  <2>3. pending' \in [Submissions -> Nat]
    <3>1. pending[s] \in Nat /\ pending \in [Submissions -> Nat]
      BY DEF FinalInv, TypeOK
    <3>2. CASE RecordTests(s, k)
      BY <3>1, <3>2 DEF RecordTests
    <3>3. CASE RecordProvisional(s, k)
      BY <3>1, <3>3 DEF RecordProvisional
    <3>4. CASE RecordAi(s, k)
      BY <3>1, <3>4 DEF RecordAi
    <3> QED BY <2>1, <3>2, <3>3, <3>4
  <2> QED BY <2>2, <2>3, NewRunKeeps
<1>2. CASE \E s \in Submissions : AiGivesUp(s) \/ RetryAi(s) \/ GraceEnds(s)
  BY <1>2, JobsKeep
<1>3. CASE \E c \in Closers : Closing(c)
  BY <1>3, CloserKeeps, CommitKeeps DEF Closing
<1>4. CASE \E r \in Run : AskView(r) \/ AskSave(r)
  BY <1>4, AskKeeps
<1>5. CASE \E g \in Graders :
              \/ \E r \in Run : GraderLoad(g, r)
              \/ GraderCheck(g) \/ GraderRefused(g) \/ GraderCollides(g)
  BY <1>5, GraderMoves
<1>6. CASE \E g \in Graders : GraderSave(g)
  BY <1>6, SaveKeeps
<1>7. CASE UNCHANGED vars
  BY <1>7, StutterKeeps
<1> QED BY <1>1, <1>2, <1>3, <1>4, <1>5, <1>6, <1>7 DEF Next

\* Whatever is finalized, reviewed or in hand agrees, at every moment, among
\* finalize_task, sweep_deadlines and _save_review.
THEOREM FinalizationInvariant == Spec => []FinalInv
<1>1. Init => FinalInv
  BY InitHolds
<1>2. FinalInv /\ [Next]_vars => FinalInv'
  BY NextKeeps
<1> QED BY <1>1, <1>2, PTL DEF Spec

\* Every variable keeps its type, with any number of closers and graders.
THEOREM FinalizationTyped == Spec => []TypeOK
<1>1. FinalInv => TypeOK
  BY DEF FinalInv
<1> QED BY <1>1, FinalizationInvariant, PTL

\* Reviews, finalizations and answered requests tell one story.
THEOREM TablesAgree == Spec => []RecordsAgree
<1>1. FinalInv => RecordsAgree
  BY DEF FinalInv
<1> QED BY <1>1, FinalizationInvariant, PTL

\* The sweep and a bulk finalization close only what they may.
THEOREM OnlyAllowedClosed == Spec => []ClosedAsAllowed
<1>1. FinalInv => ClosedAsAllowed
  BY DEF FinalInv
<1> QED BY <1>1, FinalizationInvariant, PTL

\* Steps that leave the finalizations alone, and the two that do not.
LEMMA NothingReopens ==
    ASSUME FinalInv, [Next]_vars, NEW r \in Run, finals[r] # "none"
    PROVE  finals'[r] = finals[r]
<1>1. CASE \E c \in Closers : CloserCommit(c)
  BY <1>1 DEF CloserCommit
<1>2. CASE \E g \in Graders : GraderSave(g)
  <2>1. PICK g \in Graders : GraderSave(g)
    BY <1>2
  <2>2. /\ finals' = [finals EXCEPT ![graders[g].run] = IF graders[g].closed THEN @ ELSE "review"]
        /\ graders[g].closed \/ finals[graders[g].run] = "none"
        /\ finals \in [Run -> Source]
    BY <2>1 DEF GraderSave, FinalInv, TypeOK
  <2> QED BY <2>2
<1>3. CASE UNCHANGED finals
  BY <1>3
<1>4. \/ \E c \in Closers : CloserCommit(c)
      \/ \E g \in Graders : GraderSave(g)
      \/ UNCHANGED finals
  BY DEF Next, RecordTests, RecordProvisional, RecordAi, AiGivesUp, RetryAi, GraceEnds, Closing,
         CloserRead, CloserCheck, CloserCollides, AskView, AskSave, GraderLoad, GraderCheck,
         GraderRefused, GraderCollides, decisions, vars
<1> QED BY <1>1, <1>2, <1>3, <1>4

\* No step changes a finalization: the grade a learner was told is final stays.
THEOREM FinalStaysFinal == Spec => FinalForGood
<1>1. FinalInv /\ [Next]_vars =>
          [\A r \in Run : finals[r] # "none" => finals'[r] = finals[r]]_vars
  BY NothingReopens
<1> QED BY <1>1, FinalizationInvariant, PTL DEF Spec, FinalForGood

=============================================================================
