-------------------------- MODULE TrialRunsProofs --------------------------
(***************************************************************************)
(* RunsInv is an inductive invariant of TrialRuns, for any learners, tabs, *)
(* runners and bounds, and with it the safety properties that the run of   *)
(* MCTrialRuns checks.  Lemmas first: what the transitions make of a row,  *)
(* and what keeps each part of RunsInv; then one lemma per action.         *)
(***************************************************************************)
EXTENDS TrialRuns, TLAPS

InFlightState == {"queued", "running"}

(* What the transitions make of a row                                      *)

\* An ended row is a readable row of the same learner.
LEMMA EndedRow ==
    ASSUME NEW row \in Row, NEW state \in Finished \union {"purged"}
    PROVE  /\ Ended(row, state) \in Row
           /\ Readable(Ended(row, state))
           /\ Ended(row, state).state = state
           /\ Ended(row, state).learner = row.learner
BY DEF Ended, Row, Readable, RunState, Finished

\* Expiry ends the rows it is given and leaves the others alone.
LEMMA ExpiryEnds ==
    ASSUME TypeOK, NEW S \in SUBSET Request
    PROVE  /\ AfterExpiry(S) \in [Request -> Row]
           /\ \A r \in Request : Readable(AfterExpiry(S)[r])
           /\ \A r \in Request \ S : AfterExpiry(S)[r] = runs[r]
           /\ \A r \in S : /\ AfterExpiry(S)[r].state \in {"expired", "failed"}
                           /\ AfterExpiry(S)[r].learner = runs[r].learner
<1>1. ASSUME NEW r \in S
      PROVE  /\ AfterExpiry(S)[r] \in Row
             /\ Readable(AfterExpiry(S)[r])
             /\ AfterExpiry(S)[r].state \in {"expired", "failed"}
             /\ AfterExpiry(S)[r].learner = runs[r].learner
  <2> DEFINE end == IF runs[r].state = "queued" THEN "expired" ELSE "failed"
  <2>1. end \in Finished /\ end \in {"expired", "failed"}
    BY DEF Finished
  <2>2. AfterExpiry(S)[r] = Ended(runs[r], end) /\ runs[r] \in Row
    BY DEF AfterExpiry, TypeOK
  <2> HIDE DEF end
  <2> QED BY <2>1, <2>2, EndedRow
<1>2. ASSUME NEW r \in Request \ S
      PROVE  AfterExpiry(S)[r] = runs[r]
  BY DEF AfterExpiry
<1>3. AfterExpiry(S) = [r \in Request |-> AfterExpiry(S)[r]]
  BY DEF AfterExpiry
<1> QED BY <1>1, <1>2, <1>3 DEF TypeOK

-----------------------------------------------------------------------------
(* What keeps each part of the invariant                                   *)

\* Nothing enters flight.
LEMMA NothingTakesOff ==
    ASSUME OneInFlight,
           \A r \in Request : runs'[r].state \in InFlightState =>
                /\ runs[r].state \in InFlightState
                /\ runs'[r].learner = runs[r].learner
    PROVE  OneInFlight'
BY DEF OneInFlight, InFlight, InFlightState

HasReq == \A w \in Runners : Executing(w) => runners[w].req \in Request

\* No runner starts to execute and no request returns to the queue.
LEMMA NobodyStarts ==
    ASSUME ExecutedOnce, HasReq,
           \A r \in Request : runs[r].state \notin {"absent", "queued"} =>
                              runs'[r].state \notin {"absent", "queued"},
           \A w \in Runners : Executing(w)' =>
                Executing(w) /\ runners'[w].req = runners[w].req
    PROVE  ExecutedOnce' /\ HasReq'
BY DEF ExecutedOnce, HasReq

\* Locks are only released.
LEMMA LocksReleased ==
    ASSUME LocksExclusive,
           \A t \in Tabs : tabs'[t].expired \subseteq tabs[t].expired,
           \A w \in Runners : runners'[w].expired \subseteq runners[w].expired
    PROVE  /\ LocksExclusive'
           /\ \A r \in Request : Locked(r)' => Locked(r)
BY DEF LocksExclusive, Locked

\* What is locked is untouched, and still in flight.
LEMMA LockedUntouched ==
    ASSUME ExpiryHitsInFlight,
           \A r \in Request : Locked(r)' =>
                Locked(r) /\ runs'[r].state \in {runs[r].state, "running"}
    PROVE  ExpiryHitsInFlight'
BY DEF ExpiryHitsInFlight

\* Absent rows stay absent, and no tab begins.
LEMMA NumbersKept ==
    ASSUME NumberedOnce, Unnumbered, posts' = posts,
           \A r \in Request : runs[r].state = "absent" => runs'[r].state = "absent",
           \A t \in Tabs : tabs'[t].stage # "idle" =>
                tabs[t].stage # "idle" /\ tabs'[t].req = tabs[t].req,
           posts \in 0 .. MaxPosts
    PROVE  NumberedOnce' /\ Unnumbered'
BY TrialRunsAssumption DEF NumberedOnce, Unnumbered, Request

-----------------------------------------------------------------------------
(* The initial state and the actions                                       *)

\* The tables start empty, and no transaction is open.
LEMMA InitInv == Init => RunsInv
<1> SUFFICES ASSUME Init PROVE RunsInv
  OBVIOUS
<1>1. AbsentRow \in Row /\ Readable(AbsentRow) /\ AbsentRow.state = "absent"
  BY DEF AbsentRow, Row, Readable, RunState, Age
<1>2. \A stages : Idle \in Process(stages)
  BY DEF Idle, Process
<1>3. TypeOK
  BY <1>1, <1>2, TrialRunsAssumption DEF Init, TypeOK
<1>4. \A t \in Tabs : tabs[t].stage = "idle" /\ tabs[t].expired = {}
  BY DEF Init, Idle
<1>5. \A w \in Runners : runners[w].stage = "idle" /\ runners[w].expired = {}
  BY DEF Init, Idle
<1>6. \A r \in Request : runs[r].state = "absent"
  BY <1>1 DEF Init
<1> QED
  BY <1>3, <1>4, <1>5, <1>6
     DEF RunsInv, OneInFlight, InFlight, ExecutedOnce, Executing, ExpiryHitsInFlight,
         Locked, NumberedOnce, Unnumbered, LocksExclusive

\* Nothing of the invariant depends on how many runners have died.
LEMMA StutterInv ==
    ASSUME RunsInv, UNCHANGED vars
    PROVE  RunsInv'
BY DEF vars, RunsInv, TypeOK, Readable, OneInFlight, InFlight, ExecutedOnce, Executing,
       ExpiryHitsInFlight, Locked, NumberedOnce, Unnumbered, LocksExclusive

\* A tab takes the next number and locks what it expires.
LEMMA PostExpireInv ==
    ASSUME RunsInv, NEW t \in Tabs, PostExpire(t)
    PROVE  RunsInv'
<1> DEFINE new == [Idle EXCEPT !.stage = "checking", !.req = posts + 1,
                               !.expired = Expirable]
<1>1. /\ tabs' = [tabs EXCEPT ![t] = new] /\ posts' = posts + 1
      /\ posts \in 0 .. MaxPosts /\ posts' \in 0 .. MaxPosts /\ posts' \in Request
      /\ UNCHANGED <<runs, runners, crashes>>
  BY TrialRunsAssumption DEF PostExpire, RunsInv, TypeOK, Request
<1>2. new \in Process({"checking", "inserting"})
  BY <1>1 DEF Idle, Process, Expirable
<1>3. TypeOK'
  BY <1>1, <1>2 DEF RunsInv, TypeOK, Readable
<1>4. /\ new.expired = Expirable /\ new.stage = "checking" /\ new.req = posts + 1
      /\ tabs'[t] = new
      /\ \A u \in Tabs \ {t} : tabs'[u] = tabs[u]
  BY <1>1 DEF Idle, RunsInv, TypeOK
<1> HIDE DEF new
<1>5. OneInFlight' /\ ExecutedOnce' /\ HasReq'
  BY <1>1 DEF RunsInv, OneInFlight, InFlight, ExecutedOnce, Executing, HasReq
<1>6. \A r \in Expirable : ~Locked(r) /\ runs[r].state \in InFlightState
  BY DEF Expirable, IsStale, LeaseLost, InFlightState
<1>7. LocksExclusive'
  BY <1>1, <1>4, <1>6 DEF RunsInv, LocksExclusive, Locked, Expirable
<1>8. ExpiryHitsInFlight'
  BY <1>1, <1>4, <1>6 DEF RunsInv, ExpiryHitsInFlight, Locked, InFlightState
<1>9. NumberedOnce' /\ Unnumbered'
  <2>1. runs[posts + 1].state = "absent"
    BY <1>1 DEF RunsInv, Unnumbered, Request
  <2>2. \A u \in Tabs \ {t} : tabs[u].stage # "idle" =>
            tabs[u].req \in 1 .. posts /\ tabs[u].req # posts + 1
    BY <1>1 DEF RunsInv, NumberedOnce
  <2>3. NumberedOnce'
    BY <1>1, <1>4, <2>1, <2>2 DEF RunsInv, NumberedOnce
  <2>4. Unnumbered'
    BY <1>1 DEF RunsInv, Unnumbered, Request
  <2> QED BY <2>3, <2>4
<1> QED BY <1>3, <1>5, <1>7, <1>8, <1>9 DEF RunsInv, HasReq

\* A tab goes on, or gives up and releases its locks.
LEMMA TabMovesInv ==
    ASSUME RunsInv, NEW t \in Tabs,
           tabs[t].stage # "idle",
           \/ tabs' = [tabs EXCEPT ![t].stage = "inserting"]
           \/ tabs' = [tabs EXCEPT ![t] = Idle],
           UNCHANGED <<runs, runners, posts, crashes>>
    PROVE  RunsInv'
<1>1. /\ tabs' \in [Tabs -> Process({"checking", "inserting"})]
      /\ \A u \in Tabs : tabs'[u].expired \subseteq tabs[u].expired
      /\ \A u \in Tabs : tabs'[u].stage # "idle" =>
            tabs[u].stage # "idle" /\ tabs'[u].req = tabs[u].req
  <2> DEFINE Stages == {"checking", "inserting"}
  <2>1. tabs \in [Tabs -> Process(Stages)]
    BY DEF RunsInv, TypeOK
  <2>2. ASSUME NEW new \in Process(Stages), tabs' = [tabs EXCEPT ![t] = new],
               new.expired \subseteq tabs[t].expired,
               new.stage # "idle" => new.req = tabs[t].req
        PROVE  <1>1
    BY <2>1, <2>2
  <2>3. CASE tabs' = [tabs EXCEPT ![t] = Idle]
    <3>1. Idle \in Process(Stages) /\ Idle.expired = {} /\ Idle.stage = "idle"
      BY DEF Idle, Process
    <3> QED BY <2>2, <2>3, <3>1
  <2>4. CASE tabs' = [tabs EXCEPT ![t].stage = "inserting"]
    <3> DEFINE new == [tabs[t] EXCEPT !.stage = "inserting"]
    <3>1. new \in Process(Stages) /\ new.expired = tabs[t].expired /\ new.req = tabs[t].req
      BY <2>1 DEF Process
    <3>2. tabs' = [tabs EXCEPT ![t] = new]
      BY <2>4
    <3> HIDE DEF new
    <3> QED BY <2>2, <3>1, <3>2
  <2> QED BY <2>3, <2>4
<1>2. TypeOK'
  BY <1>1 DEF RunsInv, TypeOK, Readable
<1>3. OneInFlight' /\ ExecutedOnce' /\ HasReq'
  BY DEF RunsInv, OneInFlight, InFlight, ExecutedOnce, Executing, HasReq
<1>4. LocksExclusive' /\ \A r \in Request : Locked(r)' => Locked(r)
  BY <1>1, LocksReleased DEF RunsInv
<1>5. ExpiryHitsInFlight'
  BY <1>4, LockedUntouched DEF RunsInv
<1>6. NumberedOnce' /\ Unnumbered'
  BY <1>1, NumbersKept DEF RunsInv, TypeOK
<1> QED BY <1>2, <1>3, <1>4, <1>5, <1>6 DEF RunsInv, HasReq

\* The unique index lets a request in only where none is in flight.
LEMMA PostInsertInv ==
    ASSUME RunsInv, NEW t \in Tabs, PostInsert(t)
    PROVE  RunsInv'
<1> DEFINE n == tabs[t].req
           S == tabs[t].expired
           row == [AbsentRow EXCEPT !.state = "queued", !.learner = OwnerOf[t]]
<1>1. /\ tabs[t].stage = "inserting" /\ ~AlreadyPending(t)
      /\ tabs' = [tabs EXCEPT ![t] = Idle]
      /\ UNCHANGED <<runners, posts, crashes>>
  BY DEF PostInsert, Collides
<1>2. n \in 1 .. posts /\ n \in Request /\ runs[n].state = "absent"
  BY <1>1, TrialRunsAssumption DEF RunsInv, NumberedOnce, TypeOK, Request
<1>3. S \in SUBSET Request /\ \A r \in S : runs[r].state \in InFlightState
  BY DEF RunsInv, TypeOK, Process, ExpiryHitsInFlight, Locked, InFlightState
<1>4. /\ AfterExpiry(S) \in [Request -> Row]
      /\ \A r \in Request : Readable(AfterExpiry(S)[r])
      /\ \A r \in Request \ S : AfterExpiry(S)[r] = runs[r]
      /\ \A r \in S : AfterExpiry(S)[r].state \in {"expired", "failed"}
  BY <1>3, ExpiryEnds DEF RunsInv
<1>5. row \in Row /\ Readable(row) /\ row.state = "queued" /\ row.learner = OwnerOf[t]
  BY TrialRunsAssumption DEF AbsentRow, Row, Readable, RunState, Age
<1>6. runs' = [AfterExpiry(S) EXCEPT ![n] = row]
  BY DEF PostInsert
<1> HIDE DEF n, S, row
<1>7. /\ runs' \in [Request -> Row] /\ runs'[n] = row
      /\ \A r \in Request : Readable(runs'[r])
      /\ \A r \in Request \ (S \union {n}) : runs'[r] = runs[r]
      /\ \A r \in S \ {n} : runs'[r].state \in {"expired", "failed"}
  BY <1>2, <1>3, <1>4, <1>5, <1>6
<1>8. /\ tabs' \in [Tabs -> Process({"checking", "inserting"})]
      /\ tabs'[t].stage = "idle" /\ tabs'[t].expired = {}
      /\ \A u \in Tabs \ {t} : tabs'[u] = tabs[u]
  BY <1>1 DEF RunsInv, TypeOK, Process, Idle
<1>9. TypeOK'
  BY <1>1, <1>7, <1>8 DEF RunsInv, TypeOK
<1>10. OneInFlight'
  <2> SUFFICES ASSUME NEW l \in Learners, NEW q \in InFlight(l)', NEW r \in InFlight(l)'
               PROVE  q = r
    BY DEF OneInFlight
  <2>1. \A x \in InFlight(l)' : x # n => x \in InFlight(l) \ S
    BY <1>7 DEF InFlight
  <2>2. n \in InFlight(l)' => l = OwnerOf[t]
    BY <1>5, <1>7 DEF InFlight
  <2>3. InFlight(OwnerOf[t]) \ S = {}
    BY <1>1 DEF AlreadyPending, S
  <2> QED BY <2>1, <2>2, <2>3 DEF RunsInv, OneInFlight
<1>11. ExecutedOnce' /\ HasReq'
  BY <1>1, <1>2, <1>7, NobodyStarts DEF RunsInv, HasReq, Executing
<1>12. LocksExclusive' /\ \A r \in Request : Locked(r)' => Locked(r) /\ r \notin S
  <2>1. LocksExclusive' /\ \A r \in Request : Locked(r)' => Locked(r)
    BY <1>1, <1>8, LocksReleased DEF RunsInv
  <2>2. \A r \in Request : Locked(r)' => r \notin S
    BY <1>1, <1>8 DEF RunsInv, LocksExclusive, Locked, S
  <2> QED BY <2>1, <2>2
<1>13. ExpiryHitsInFlight'
  BY <1>2, <1>7, <1>12 DEF RunsInv, ExpiryHitsInFlight
<1>14. NumberedOnce' /\ Unnumbered'
  <2>1. \A u \in Tabs \ {t} : tabs[u].stage # "idle" => tabs[u].req # n
    BY <1>1 DEF RunsInv, NumberedOnce, n
  <2>2. \A r \in Request \ {n} : runs[r].state = "absent" => runs'[r].state = "absent"
    BY <1>3, <1>7 DEF InFlightState
  <2>3. NumberedOnce'
    BY <1>1, <1>8, <2>1, <2>2, TrialRunsAssumption DEF RunsInv, NumberedOnce, TypeOK, Request
  <2>4. Unnumbered'
    BY <1>1, <1>2, <2>2 DEF RunsInv, Unnumbered, TypeOK, Request
  <2> QED BY <2>3, <2>4
<1> QED BY <1>9, <1>10, <1>11, <1>12, <1>13, <1>14 DEF RunsInv, HasReq

\* A poll expires unlocked rows and commits at once.
LEMMA ViewInv ==
    ASSUME RunsInv, View
    PROVE  RunsInv'
<1>1. runs' = AfterExpiry(Expirable) /\ UNCHANGED <<tabs, runners, posts, crashes>>
  BY DEF View
<1>2. Expirable \in SUBSET Request
      /\ \A r \in Expirable : ~Locked(r) /\ runs[r].state \in InFlightState
  BY DEF Expirable, IsStale, LeaseLost, InFlightState
<1>3. /\ runs' \in [Request -> Row]
      /\ \A r \in Request : Readable(runs'[r])
      /\ \A r \in Request \ Expirable : runs'[r] = runs[r]
      /\ \A r \in Expirable : runs'[r].state \in {"expired", "failed"}
  BY <1>1, <1>2, ExpiryEnds DEF RunsInv
<1>4. TypeOK'
  BY <1>1, <1>3 DEF RunsInv, TypeOK
<1>5. OneInFlight'
  BY <1>3, NothingTakesOff DEF RunsInv, InFlightState
<1>6. ExecutedOnce' /\ HasReq'
  BY <1>1, <1>3, NobodyStarts DEF RunsInv, HasReq, Executing
<1>7. LocksExclusive' /\ \A r \in Request : Locked(r)' => Locked(r)
  BY <1>1, LocksReleased DEF RunsInv
<1>8. ExpiryHitsInFlight'
  BY <1>2, <1>3, <1>7, LockedUntouched DEF RunsInv
<1>9. NumberedOnce' /\ Unnumbered'
  BY <1>1, <1>2, <1>3, NumbersKept DEF RunsInv, TypeOK, InFlightState
<1> QED BY <1>4, <1>5, <1>6, <1>7, <1>8, <1>9 DEF RunsInv, HasReq

-----------------------------------------------------------------------------
(* The runners                                                             *)

\* A runner locks what it expires.
LEMMA RunnerExpireInv ==
    ASSUME RunsInv, NEW w \in Runners, RunnerExpire(w)
    PROVE  RunsInv'
<1> DEFINE new == [Idle EXCEPT !.stage = "reserving", !.expired = Expirable]
<1>1. /\ runners' = [runners EXCEPT ![w] = new]
      /\ UNCHANGED <<runs, tabs, posts, crashes>>
  BY DEF RunnerExpire
<1>2. new \in Process({"reserving", "executing", "finishing"})
  BY DEF Idle, Process, Expirable
<1>3. new.expired = Expirable /\ new.stage = "reserving"
  BY DEF Idle
<1> HIDE DEF new
<1>4. runners'[w] = new /\ \A v \in Runners \ {w} : runners'[v] = runners[v]
  BY <1>1 DEF RunsInv, TypeOK
<1>5. TypeOK'
  BY <1>1, <1>2 DEF RunsInv, TypeOK, Readable
<1>6. OneInFlight'
  BY <1>1 DEF RunsInv, OneInFlight, InFlight
<1>7. ExecutedOnce' /\ HasReq'
  BY <1>1, <1>3, <1>4, NobodyStarts DEF RunsInv, HasReq, Executing
<1>8. \A r \in Expirable : ~Locked(r) /\ runs[r].state \in InFlightState
  BY DEF Expirable, IsStale, LeaseLost, InFlightState
<1>9. LocksExclusive'
  BY <1>1, <1>3, <1>4, <1>8 DEF RunsInv, LocksExclusive, Locked, Expirable
<1>10. ExpiryHitsInFlight'
  BY <1>1, <1>3, <1>4, <1>8 DEF RunsInv, ExpiryHitsInFlight, Locked, InFlightState
<1>11. NumberedOnce' /\ Unnumbered'
  BY <1>1 DEF RunsInv, NumberedOnce, Unnumbered
<1> QED BY <1>5, <1>6, <1>7, <1>9, <1>10, <1>11 DEF RunsInv, HasReq

\* A runner leaves what it was doing, and with it its locks.
LEMMA RunnerMovesInv ==
    ASSUME RunsInv, NEW w \in Runners,
           \/ runners' = [runners EXCEPT ![w] = Idle]
           \/ /\ runners[w].stage = "executing"
              /\ runners' = [runners EXCEPT ![w] = [@ EXCEPT !.stage = "finishing"]],
           UNCHANGED <<runs, tabs, posts>>, crashes' \in Nat
    PROVE  RunsInv'
<1>1. /\ runners' \in [Runners -> Process({"reserving", "executing", "finishing"})]
      /\ \A v \in Runners : runners'[v].expired \subseteq runners[v].expired
      /\ \A v \in Runners : Executing(v)' => Executing(v) /\ runners'[v].req = runners[v].req
  BY SMTT(20) DEF RunsInv, TypeOK, Process, Idle, Executing
<1>2. TypeOK'
  BY <1>1 DEF RunsInv, TypeOK, Readable
<1>3. OneInFlight'
  BY DEF RunsInv, OneInFlight, InFlight
<1>4. ExecutedOnce' /\ HasReq'
  BY <1>1, NobodyStarts DEF RunsInv, HasReq
<1>5. LocksExclusive' /\ \A r \in Request : Locked(r)' => Locked(r)
  BY <1>1, LocksReleased DEF RunsInv
<1>6. ExpiryHitsInFlight'
  BY <1>5, LockedUntouched DEF RunsInv
<1>7. NumberedOnce' /\ Unnumbered'
  BY DEF RunsInv, NumberedOnce, Unnumbered
<1> QED BY <1>2, <1>3, <1>4, <1>5, <1>6, <1>7 DEF RunsInv, HasReq

\* What the reserving transaction leaves of the rows, whether it finds a
\* request or not.
LEMMA ClearedRows ==
    ASSUME RunsInv, NEW w \in Runners, NEW purged \in SUBSET Purgeable
    PROVE  /\ Cleared(w, purged) \in [Request -> Row]
           /\ \A r \in Request : Readable(Cleared(w, purged)[r])
           /\ \A r \in Request : Cleared(w, purged)[r].state \in InFlightState =>
                    Cleared(w, purged)[r] = runs[r] /\ r \notin runners[w].expired
           /\ \A r \in Request : Cleared(w, purged)[r].state = "absent"
                                    <=> runs[r].state = "absent"
           /\ \A r \in Request : runs[r].state \in InFlightState
                                    /\ r \notin runners[w].expired =>
                    Cleared(w, purged)[r] = runs[r]
<1> DEFINE S == runners[w].expired
           A == AfterExpiry(S)
           C == Cleared(w, purged)
<1>1. S \in SUBSET Request /\ \A r \in S : runs[r].state \in InFlightState
  BY DEF RunsInv, TypeOK, Process, ExpiryHitsInFlight, Locked, InFlightState
<1>2. /\ A \in [Request -> Row]
      /\ \A r \in Request : Readable(A[r])
      /\ \A r \in Request \ S : A[r] = runs[r]
      /\ \A r \in S : A[r].state \in {"expired", "failed"}
  BY <1>1, ExpiryEnds DEF RunsInv
<1>3. \A r \in purged : r \in Request /\ runs[r] \in Row /\ runs[r].state \in Finished
  BY DEF Purgeable, RunsInv, TypeOK
<1>4. \A r \in purged : /\ Ended(runs[r], "purged") \in Row
                        /\ Readable(Ended(runs[r], "purged"))
                        /\ Ended(runs[r], "purged").state = "purged"
  BY <1>3, EndedRow
<1>5. /\ C = [r \in Request |-> C[r]]
      /\ \A r \in purged : C[r] = Ended(runs[r], "purged")
      /\ \A r \in Request \ purged : C[r] = A[r]
  BY <1>3 DEF Cleared
<1> HIDE DEF A, C, S
<1>6. C \in [Request -> Row] /\ \A r \in Request : Readable(C[r])
  <2>1. ASSUME NEW r \in Request
        PROVE  C[r] \in Row /\ Readable(C[r])
    BY <1>2, <1>4, <1>5
  <2> QED BY <1>5, <2>1
<1>7. \A r \in Request : C[r].state \in InFlightState => C[r] = runs[r] /\ r \notin S
  BY <1>2, <1>4, <1>5 DEF InFlightState
<1>8. \A r \in Request : C[r].state = "absent" <=> runs[r].state = "absent"
  BY <1>1, <1>2, <1>3, <1>4, <1>5 DEF InFlightState, Finished
<1>9. \A r \in Request \ S : runs[r].state \in InFlightState => C[r] = runs[r]
  BY <1>2, <1>3, <1>5 DEF InFlightState, Finished
<1> QED BY <1>6, <1>7, <1>8, <1>9 DEF C, S

LEMMA RunnerFindsNoneInv ==
    ASSUME RunsInv, NEW w \in Runners, NEW purged \in SUBSET Purgeable,
           RunnerFindsNone(w, purged)
    PROVE  RunsInv'
<1>1. /\ runs' = Cleared(w, purged)
      /\ runners' = [runners EXCEPT ![w] = Idle]
      /\ UNCHANGED <<tabs, posts, crashes>>
  BY DEF RunnerFindsNone
<1>2. /\ runners' \in [Runners -> Process({"reserving", "executing", "finishing"})]
      /\ runners'[w].expired = {} /\ runners'[w].stage = "idle"
      /\ \A v \in Runners \ {w} : runners'[v] = runners[v]
  BY <1>1 DEF RunsInv, TypeOK, Process, Idle
<1>3. TypeOK'
  BY <1>1, <1>2, ClearedRows DEF RunsInv, TypeOK
<1>4. OneInFlight'
  BY <1>1, ClearedRows, NothingTakesOff DEF RunsInv
<1>5. ExecutedOnce' /\ HasReq'
  BY <1>1, <1>2, ClearedRows, NobodyStarts DEF RunsInv, HasReq, Executing, InFlightState
<1>6. LocksExclusive' /\ \A r \in Request : Locked(r)' => Locked(r)
  BY <1>1, <1>2, LocksReleased DEF RunsInv
<1>7. \A r \in Request : Locked(r)' => r \notin runners[w].expired
  BY <1>1, <1>2 DEF RunsInv, LocksExclusive, Locked
<1>8. ExpiryHitsInFlight'
  BY <1>1, <1>6, <1>7, ClearedRows DEF RunsInv, ExpiryHitsInFlight, InFlightState
<1>9. NumberedOnce' /\ Unnumbered'
  BY <1>1, ClearedRows, NumbersKept DEF RunsInv, TypeOK
<1> QED BY <1>3, <1>4, <1>5, <1>6, <1>8, <1>9 DEF RunsInv, HasReq

LEMMA RunnerReserveInv ==
    ASSUME RunsInv, NEW w \in Runners, NEW n \in Request, NEW purged \in SUBSET Purgeable,
           RunnerReserve(w, n, purged)
    PROVE  RunsInv'
<1> DEFINE C == Cleared(w, purged)
           new == [Idle EXCEPT !.stage = "executing", !.req = n]
<1>1. /\ runs' = [C EXCEPT ![n] = Reserved(@, w)]
      /\ runners' = [runners EXCEPT ![w] = new]
      /\ UNCHANGED <<tabs, posts, crashes>>
      /\ runs[n].state = "queued" /\ ~Locked(n) /\ n \notin runners[w].expired
      /\ runners[w].stage = "reserving"
  BY DEF RunnerReserve, Waiting
<1>2. /\ C \in [Request -> Row]
      /\ \A r \in Request : Readable(C[r])
      /\ \A r \in Request : C[r].state \in InFlightState =>
                C[r] = runs[r] /\ r \notin runners[w].expired
      /\ \A r \in Request : C[r].state = "absent" <=> runs[r].state = "absent"
      /\ \A r \in Request : runs[r].state \in InFlightState
                                /\ r \notin runners[w].expired => C[r] = runs[r]
  BY ClearedRows
<1>3. C[n] = runs[n] /\ runs[n] \in Row
  BY <1>1, <1>2 DEF InFlightState
<1> HIDE DEF C
<1>4. /\ Reserved(runs[n], w) \in Row /\ Readable(Reserved(runs[n], w))
      /\ Reserved(runs[n], w).state = "running"
      /\ Reserved(runs[n], w).learner = runs[n].learner
  BY <1>3, TrialRunsAssumption DEF Reserved, Row, Readable, RunState
<1>5. /\ runs' \in [Request -> Row] /\ \A r \in Request : Readable(runs'[r])
      /\ runs'[n].state = "running" /\ runs'[n].learner = runs[n].learner
      /\ \A r \in Request \ {n} : runs'[r] = C[r]
  BY <1>1, <1>2, <1>3, <1>4
<1>6. /\ new \in Process({"reserving", "executing", "finishing"})
      /\ new.stage = "executing" /\ new.req = n /\ new.expired = {}
  BY DEF Idle, Process
<1> HIDE DEF new
<1>7. /\ runners' \in [Runners -> Process({"reserving", "executing", "finishing"})]
      /\ runners'[w] = new /\ \A v \in Runners \ {w} : runners'[v] = runners[v]
  BY <1>1, <1>6 DEF RunsInv, TypeOK
<1>8. TypeOK'
  BY <1>1, <1>5, <1>7 DEF RunsInv, TypeOK
<1>9. OneInFlight'
  BY <1>1, <1>2, <1>5, NothingTakesOff DEF RunsInv, InFlightState
<1>10. HasReq'
  BY <1>6, <1>7 DEF RunsInv, HasReq, Executing
<1>11. ExecutedOnce'
  <2>1. \A v \in Runners \ {w} : Executing(v) =>
            /\ runners[v].req \in Request \ {n}
            /\ runs[runners[v].req].state \notin {"absent", "queued"}
    BY <1>1 DEF RunsInv, ExecutedOnce
  <2>2. \A r \in Request : runs[r].state \notin {"absent", "queued"} =>
                           runs'[r].state \notin {"absent", "queued"}
    BY <1>2, <1>5 DEF InFlightState
  <2> QED BY <1>5, <1>6, <1>7, <2>1, <2>2 DEF RunsInv, ExecutedOnce, Executing
<1>12. LocksExclusive' /\ \A r \in Request : Locked(r)' => Locked(r)
  BY <1>1, <1>6, <1>7, LocksReleased DEF RunsInv
<1>13. \A r \in Request : Locked(r)' => r \notin runners[w].expired
  BY <1>1, <1>6, <1>7 DEF RunsInv, LocksExclusive, Locked
<1>14. ExpiryHitsInFlight'
  BY <1>1, <1>2, <1>5, <1>12, <1>13 DEF RunsInv, ExpiryHitsInFlight, InFlightState
<1>15. NumberedOnce' /\ Unnumbered'
  BY <1>1, <1>2, <1>5, NumbersKept DEF RunsInv, TypeOK
<1> QED BY <1>8, <1>9, <1>10, <1>11, <1>12, <1>14, <1>15 DEF RunsInv, HasReq

\* A late result may overwrite an ended row, but never a waiting one.
LEMMA FinishWriteInv ==
    ASSUME RunsInv, NEW w \in Runners, NEW state \in {"done", "failed"},
           FinishWrite(w, state)
    PROVE  RunsInv'
<1> DEFINE n == runners[w].req
           row == Ended(runs[n], state)
<1>1. /\ runners[w].stage = "finishing" /\ ~Locked(n)
      /\ runs' = runs \/ runs' = [runs EXCEPT ![n] = row]
      /\ runners' = [runners EXCEPT ![w] = Idle]
      /\ UNCHANGED <<tabs, posts, crashes>>
  BY DEF FinishWrite
<1>2. n \in Request /\ runs[n] \in Row /\ runs[n].state \notin {"absent", "queued"}
  BY <1>1 DEF RunsInv, Executing, ExecutedOnce, TypeOK
<1>3. state \in Finished
  BY DEF Finished
<1>4. row \in Row /\ Readable(row) /\ row.state = state
  BY <1>2, <1>3, EndedRow
<1> HIDE DEF n, row
<1>5. /\ runs' \in [Request -> Row] /\ \A r \in Request : Readable(runs'[r])
      /\ runs'[n] = runs[n] \/ runs'[n].state = state
      /\ \A r \in Request \ {n} : runs'[r] = runs[r]
  BY <1>1, <1>2, <1>4 DEF RunsInv, TypeOK
<1>6. /\ runners' \in [Runners -> Process({"reserving", "executing", "finishing"})]
      /\ runners'[w].expired = {} /\ runners'[w].stage = "idle"
      /\ \A v \in Runners \ {w} : runners'[v] = runners[v]
  BY <1>1 DEF RunsInv, TypeOK, Process, Idle
<1>7. TypeOK'
  BY <1>1, <1>5, <1>6 DEF RunsInv, TypeOK
<1>8. OneInFlight'
  BY <1>5, NothingTakesOff DEF RunsInv, InFlightState
<1>9. ExecutedOnce' /\ HasReq'
  BY <1>5, <1>6, NobodyStarts DEF RunsInv, HasReq, Executing
<1>10. LocksExclusive' /\ \A r \in Request : Locked(r)' => Locked(r)
  BY <1>1, <1>6, LocksReleased DEF RunsInv
<1>11. ExpiryHitsInFlight'
  BY <1>1, <1>5, <1>10 DEF RunsInv, ExpiryHitsInFlight
<1>12. NumberedOnce' /\ Unnumbered'
  BY <1>1, <1>2, <1>5, NumbersKept DEF RunsInv, TypeOK
<1> QED BY <1>7, <1>8, <1>9, <1>10, <1>11, <1>12 DEF RunsInv, HasReq

-----------------------------------------------------------------------------
(* Time and the theorems                                                   *)

LEMMA TimeInv ==
    ASSUME RunsInv, NEW n \in Request, Time(n)
    PROVE  RunsInv'
<1>1. UNCHANGED <<tabs, runners, posts, crashes>>
  BY DEF Time, LeaseExpires, Settle, GrowStale
<1>2. runs[n] \in Row /\ Readable(runs[n])
  BY DEF RunsInv, TypeOK
<1>3. PICK row \in Row : /\ runs' = [runs EXCEPT ![n] = row] /\ Readable(row)
                         /\ row.state = runs[n].state /\ row.learner = runs[n].learner
  <2>1. CASE LeaseExpires(n)
    <3>1. runs' = [runs EXCEPT ![n] = [runs[n] EXCEPT !.lease = "expired"]]
      BY <2>1 DEF LeaseExpires, RunsInv, TypeOK
    <3>2. [runs[n] EXCEPT !.lease = "expired"] \in Row
      BY <1>2 DEF Row
    <3>3. Readable([runs[n] EXCEPT !.lease = "expired"])
      BY <1>2, <2>1 DEF LeaseExpires, Readable, Row
    <3> QED BY <1>2, <3>1, <3>2, <3>3 DEF Row
  <2>2. ASSUME NEW age \in Age, runs' = [runs EXCEPT ![n].age = age]
        PROVE  runs' = [runs EXCEPT ![n] = [runs[n] EXCEPT !.age = age]]
               /\ [runs[n] EXCEPT !.age = age] \in Row
               /\ Readable([runs[n] EXCEPT !.age = age])
    BY <1>2, <2>2 DEF RunsInv, TypeOK, Row, Readable
  <2>3. CASE Settle(n) \/ GrowStale(n)
    BY <1>2, <2>2, <2>3 DEF Settle, GrowStale, Age, Row
  <2> QED BY <2>1, <2>3 DEF Time
<1>4. /\ runs' \in [Request -> Row] /\ \A r \in Request : Readable(runs'[r])
      /\ \A r \in Request : runs'[r].state = runs[r].state
                            /\ runs'[r].learner = runs[r].learner
  BY <1>3 DEF RunsInv, TypeOK
<1>5. TypeOK'
  BY <1>1, <1>4 DEF RunsInv, TypeOK
<1>6. OneInFlight'
  BY <1>4, NothingTakesOff DEF RunsInv
<1>7. ExecutedOnce' /\ HasReq'
  BY <1>1, <1>4, NobodyStarts DEF RunsInv, HasReq, Executing
<1>8. LocksExclusive' /\ \A r \in Request : Locked(r)' => Locked(r)
  BY <1>1, LocksReleased DEF RunsInv
<1>9. ExpiryHitsInFlight'
  BY <1>4, <1>8, LockedUntouched DEF RunsInv
<1>10. NumberedOnce' /\ Unnumbered'
  BY <1>1, <1>4, NumbersKept DEF RunsInv, TypeOK
<1> QED BY <1>5, <1>6, <1>7, <1>8, <1>9, <1>10 DEF RunsInv, HasReq

\* RunsInv is an invariant of every instance of the trial runs.
THEOREM RunsInvariant == Spec => []RunsInv
<1>1. RunsInv /\ [Next]_vars => RunsInv'
  <2> SUFFICES ASSUME RunsInv, [Next]_vars PROVE RunsInv'
    OBVIOUS
  <2>1. ASSUME NEW t \in Tabs, PostExpire(t) \/ Post(t)
        PROVE  RunsInv'
    BY <2>1, PostExpireInv, TabMovesInv, PostInsertInv
       DEF Post, PostCheck, PostRefuse, PostCollides
  <2>2. ASSUME NEW w \in Runners, Runner(w)
        PROVE  RunsInv'
    <3>1. CASE RunnerExpire(w)
      BY <3>1, RunnerExpireInv
    <3>2. CASE Reserving(w)
      BY <3>2, RunnerReserveInv, RunnerFindsNoneInv DEF Reserving
    <3>3. CASE FinishRead(w)
      <4>1. crashes' \in Nat /\ UNCHANGED <<runs, tabs, posts>>
        BY <3>3 DEF FinishRead, RunsInv, TypeOK
      <4>2. runners[w].stage = "executing"
        BY <3>3 DEF FinishRead
      <4>3. \/ runners' = [runners EXCEPT ![w] = Idle]
            \/ runners' = [runners EXCEPT ![w] = [@ EXCEPT !.stage = "finishing"]]
        BY <3>3 DEF FinishRead
      <4> QED BY <4>1, <4>2, <4>3, RunnerMovesInv
    <3>4. CASE \E state \in {"done", "failed"} : FinishWrite(w, state)
      BY <3>4, FinishWriteInv
    <3>5. CASE Crash(w)
      <4>1. crashes' \in Nat
        BY <3>5 DEF Crash, RunsInv, TypeOK
      <4> QED BY <3>5, <4>1, RunnerMovesInv DEF Crash
    <3> QED BY <2>2, <3>1, <3>2, <3>3, <3>4, <3>5 DEF Runner
  <2>3. CASE UNCHANGED vars
    BY <2>3, StutterInv
  <2> QED BY <2>1, <2>2, <2>3, ViewInv, TimeInv DEF Next
<1> QED BY <1>1, InitInv, PTL DEF Spec

\* Every variable keeps its type, and every row can be read back.
THEOREM RunsTyped == Spec => []TypeOK
<1>1. RunsInv => TypeOK
  BY DEF RunsInv
<1> QED BY <1>1, RunsInvariant, PTL

\* A learner has one run in flight, whatever her tabs do.
THEOREM OneRunAtATime == Spec => []OneInFlight
<1>1. RunsInv => OneInFlight
  BY DEF RunsInv
<1> QED BY <1>1, RunsInvariant, PTL

\* No request is executed twice.
THEOREM NeverExecutedTwice == Spec => []ExecutedOnce
<1>1. RunsInv => ExecutedOnce
  BY DEF RunsInv
<1> QED BY <1>1, RunsInvariant, PTL

\* No expiry overwrites a result.
THEOREM ExpiryKeepsResults == Spec => []ExpiryHitsInFlight
<1>1. RunsInv => ExpiryHitsInFlight
  BY DEF RunsInv
<1> QED BY <1>1, RunsInvariant, PTL

-----------------------------------------------------------------------------
(* The trial runs implement RunService                                     *)

OpenState == {"running", "failed", "purged"}

\* What a learner sees of the requests.
status == [r \in Request |-> runs[r].state]
learner == [r \in Request |-> runs[r].learner]

\* The same requests are being executed and have their results accepted.
LEMMA OwedSame ==
    ASSUME \A v \in Runners :
              /\ runners'[v].stage = "executing" <=> runners[v].stage = "executing"
              /\ runners'[v].stage = "finishing" <=> runners[v].stage = "finishing"
              /\ Executing(v) => runners'[v].req = runners[v].req
    PROVE  Owed' = Owed /\ Accepted' = Accepted
BY DEF Owed, Accepted, RequestsAt, Executing

\* What a runner works on nobody else works on.
LEMMA WorksAlone ==
    ASSUME RunsInv, NEW w \in Runners, Executing(w),
           \A v \in Runners \ {w} : runners'[v] = runners[v]
    PROVE  /\ runners[w].req \in Request
           /\ \A v \in Runners \ {w} :
                 /\ runners'[v].stage = runners[v].stage /\ runners'[v].req = runners[v].req
                 /\ runners[v].stage \in {"executing", "finishing"} =>
                        runners[v].req # runners[w].req
<1>1. runners[w].req \in Request
  BY DEF RunsInv
<1> QED BY <1>1 DEF RunsInv, ExecutedOnce, Executing

\* A runner that leaves its request leaves it to nobody.
LEMMA OwedLeaves ==
    ASSUME RunsInv, NEW w \in Runners, Executing(w), ~Executing(w)',
           \A v \in Runners \ {w} : runners'[v] = runners[v],
           NEW n, n = runners[w].req
    PROVE  /\ n \in Request /\ n \in Owed \union Accepted
           /\ Owed' = Owed \ {n} /\ Accepted' = Accepted \ {n}
           /\ runners[w].stage = "finishing" => n \in Accepted /\ n \notin Owed
BY WorksAlone DEF Owed, Accepted, RequestsAt, Executing

\* A result is accepted.
LEMMA OwedIsAccepted ==
    ASSUME RunsInv, NEW w \in Runners, runners[w].stage = "executing",
           NEW n, n = runners[w].req,
           runners'[w].stage = "finishing", runners'[w].req = n,
           \A v \in Runners \ {w} : runners'[v] = runners[v]
    PROVE  n \in Owed /\ Owed' = Owed \ {n} /\ Accepted' = Accepted \union {n}
<1>1. Executing(w)
  BY DEF Executing
<1> QED BY <1>1, WorksAlone DEF Owed, Accepted, RequestsAt

LEMMA OwedJoins ==
    ASSUME NEW w \in Runners, NEW n \in Request, ~Executing(w),
           runners'[w].stage = "executing",
           runners'[w].req = n, \A v \in Runners \ {w} : runners'[v] = runners[v]
    PROVE  Owed' = Owed \union {n} /\ Accepted' = Accepted
<1>1. \A v \in Runners \ {w} : /\ runners'[v].stage = runners[v].stage
                               /\ runners'[v].req = runners[v].req
  OBVIOUS
<1> QED BY <1>1 DEF Owed, Accepted, RequestsAt, Executing

\* Rows are given up or purged, and no execution begins.
LEMMA OpenKept ==
    ASSUME OwedIsOpen, Owed' \union Accepted' \subseteq Owed \union Accepted,
           \A r \in Owed' \union Accepted' :
                runs[r].state \in OpenState => runs'[r].state \in OpenState
    PROVE  OwedIsOpen'
BY DEF OwedIsOpen, OpenState

\* Clearing away is seen as requests given up and requests purged.
LEMMA ExpiryIsSeen ==
    ASSUME RunsInv, NEW S \in SUBSET Request, \A r \in S : runs[r].state \in InFlightState
    PROVE  /\ S \subseteq Service!InFlight
           /\ \A r \in Request :
                 /\ AfterExpiry(S)[r].state = Service!Cleared(S, {})[r]
                 /\ AfterExpiry(S)[r].learner = learner[r]
                 /\ runs[r].state \in OpenState => AfterExpiry(S)[r].state \in OpenState
<1>1. S \subseteq Service!InFlight
  BY DEF Service!InFlight, InFlightState
<1>2. ASSUME NEW r \in Request
      PROVE  /\ AfterExpiry(S)[r].state = Service!Cleared(S, {})[r]
             /\ AfterExpiry(S)[r].learner = learner[r]
             /\ runs[r].state \in OpenState => AfterExpiry(S)[r].state \in OpenState
  <2>1. runs[r] \in Row
    BY DEF RunsInv, TypeOK
  <2>2. AfterExpiry(S)[r] =
          IF r \notin S THEN runs[r]
          ELSE Ended(runs[r], IF runs[r].state = "queued" THEN "expired" ELSE "failed")
    BY DEF AfterExpiry
  <2>3. \A state : Ended(runs[r], state).state = state
                   /\ Ended(runs[r], state).learner = runs[r].learner
    BY <2>1 DEF Ended, Row
  <2>4. Service!Cleared(S, {})[r] = IF r \in S /\ runs[r].state = "queued" THEN "expired"
                                    ELSE IF r \in S THEN "failed" ELSE runs[r].state
    BY DEF Service!Cleared
  <2>5. learner[r] = runs[r].learner
    BY DEF learner
  <2> QED BY <2>2, <2>3, <2>4, <2>5 DEF OpenState
<1> QED BY <1>1, <1>2

LEMMA ClearingIsSeen ==
    ASSUME RunsInv, NEW w \in Runners, NEW purged \in SUBSET Purgeable
    PROVE  LET lost == runners[w].expired IN
           /\ lost \subseteq Service!InFlight /\ purged \subseteq Service!Over
           /\ \A r \in Request :
                 /\ Cleared(w, purged)[r].state = Service!Cleared(lost, purged)[r]
                 /\ Cleared(w, purged)[r].learner = learner[r]
                 /\ runs[r].state \in OpenState => Cleared(w, purged)[r].state \in OpenState
<1> DEFINE lost == runners[w].expired
<1>1. lost \in SUBSET Request /\ \A r \in lost : runs[r].state \in InFlightState
  BY DEF RunsInv, TypeOK, Process, ExpiryHitsInFlight, Locked, InFlightState
<1> HIDE DEF lost
<1>2. /\ lost \subseteq Service!InFlight
      /\ \A r \in Request :
            /\ AfterExpiry(lost)[r].state = Service!Cleared(lost, {})[r]
            /\ AfterExpiry(lost)[r].learner = learner[r]
            /\ runs[r].state \in OpenState => AfterExpiry(lost)[r].state \in OpenState
  BY <1>1, ExpiryIsSeen
<1>3. purged \subseteq Service!Over /\ purged \subseteq Request
  BY DEF Service!Over, Purgeable, Finished
<1>4. ASSUME NEW r \in Request
      PROVE  /\ Cleared(w, purged)[r].state = Service!Cleared(lost, purged)[r]
             /\ Cleared(w, purged)[r].learner = learner[r]
             /\ runs[r].state \in OpenState => Cleared(w, purged)[r].state \in OpenState
  <2>1. CASE r \in purged
    <3>1. Cleared(w, purged)[r] = Ended(runs[r], "purged") /\ runs[r] \in Row
      BY <2>1 DEF Cleared, RunsInv, TypeOK
    <3>2. Ended(runs[r], "purged").state = "purged"
          /\ Ended(runs[r], "purged").learner = runs[r].learner
      BY <3>1, EndedRow
    <3> QED BY <2>1, <3>1, <3>2 DEF Service!Cleared, learner, OpenState
  <2>2. CASE r \notin purged
    <3>1. Cleared(w, purged)[r] = AfterExpiry(lost)[r]
      BY <2>2 DEF Cleared, lost
    <3>2. Service!Cleared(lost, purged)[r] = Service!Cleared(lost, {})[r]
      BY <2>2 DEF Service!Cleared
    <3> QED BY <1>2, <3>1, <3>2
  <2> QED BY <2>1, <2>2
<1> QED BY <1>2, <1>3, <1>4 DEF lost

LEMMA SeenAsCleared ==
    ASSUME NEW lost, NEW purged, Owed' = Owed, Accepted' = Accepted,
           \A r \in Request : /\ runs'[r].state = Service!Cleared(lost, purged)[r]
                              /\ runs'[r].learner = learner[r]
    PROVE  Service!Clear(lost, purged)
<1>1. status' = Service!Cleared(lost, purged)
  <2>1. Service!Cleared(lost, purged) = [r \in Request |-> Service!Cleared(lost, purged)[r]]
    BY DEF Service!Cleared
  <2>2. status' = [r \in Request |-> runs'[r].state]
    BY DEF status
  <2> QED BY <2>1, <2>2
<1>2. learner' = learner
  BY DEF learner
<1> QED BY <1>1, <1>2 DEF Service!Clear, status, learner

\* Nothing that a learner sees has changed.
Unseen == UNCHANGED <<status, learner, Owed, Accepted>>

LEMMA UnseenKeeps ==
    ASSUME RunsInv, OwedIsOpen, Unseen
    PROVE  OwedIsOpen' /\ UNCHANGED Service!vars
<1>1. \A r \in Request : runs'[r].state = runs[r].state
  <2>1. \A r \in Request : status[r] = runs[r].state /\ status'[r] = runs'[r].state
    BY DEF status
  <2> QED BY <2>1 DEF Unseen
<1>2. Owed \union Accepted \subseteq Request
  BY DEF Owed, Accepted, RequestsAt
<1>3. OwedIsOpen'
  BY <1>1, <1>2, OpenKept DEF Unseen
<1> QED BY <1>3 DEF Unseen, Service!vars, status, learner

LEMMA TabsAreSeen ==
    ASSUME RunsInv, OwedIsOpen, NEW t \in Tabs, PostExpire(t) \/ Post(t)
    PROVE  OwedIsOpen' /\ [Service!Next]_Service!vars
<1>0. Owed' = Owed /\ Accepted' = Accepted
  <2>1. runners' = runners
    BY DEF PostExpire, Post, PostCheck, PostRefuse, PostInsert, PostCollides
  <2> QED BY <2>1, OwedSame DEF Executing
<1>1. CASE ~PostInsert(t)
  <2>1. runs' = runs
    BY <1>1 DEF PostExpire, Post, PostCheck, PostRefuse, PostCollides
  <2>2. Unseen
    BY <1>0, <2>1 DEF Unseen, status, learner
  <2> QED BY <2>2, UnseenKeeps
<1>2. CASE PostInsert(t)
  <2>0. PICK S, n, l : S = tabs[t].expired /\ n = tabs[t].req /\ l = OwnerOf[t]
    OBVIOUS
  <2> DEFINE A == AfterExpiry(S)
             row == [AbsentRow EXCEPT !.state = "queued", !.learner = l]
  <2>1. S \in SUBSET Request /\ \A r \in S : runs[r].state \in InFlightState
    BY <2>0 DEF RunsInv, TypeOK, Process, ExpiryHitsInFlight, Locked, InFlightState
  <2>2. n \in Request /\ runs[n].state = "absent" /\ l \in Learners
    <3>1. n \in 1 .. posts /\ runs[n].state = "absent"
      BY <1>2, <2>0 DEF PostInsert, RunsInv, NumberedOnce
    <3>2. posts \in 0 .. MaxPosts /\ MaxPosts \in Nat
      BY TrialRunsAssumption DEF RunsInv, TypeOK
    <3>3. l \in Learners
      BY <2>0, TrialRunsAssumption
    <3> QED BY <3>1, <3>2, <3>3 DEF Request
  <2>3. runs' = [A EXCEPT ![n] = row]
    BY <1>2, <2>0 DEF PostInsert
  <2>4. \A q \in Request : runs[q].state \in InFlightState /\ q \notin S => runs[q].learner # l
    BY <1>2, <2>0 DEF PostInsert, Collides, AlreadyPending, InFlight, InFlightState
  <2>5. row.state = "queued" /\ row.learner = l
    BY DEF AbsentRow
  <2>6. A \in [Request -> Row]
    BY <2>1, ExpiryEnds DEF RunsInv
  <2> HIDE DEF A, row
  <2>7. /\ S \subseteq Service!InFlight
        /\ \A r \in Request :
              /\ A[r].state = Service!Cleared(S, {})[r] /\ A[r].learner = learner[r]
              /\ runs[r].state \in OpenState => A[r].state \in OpenState
    BY <2>1, ExpiryIsSeen DEF A
  <2>8. \A r \in Request : runs'[r] = IF r = n THEN row ELSE A[r]
    BY <2>2, <2>3, <2>6
  <2>9. OwedIsOpen'
    <3>1. n \notin Owed \union Accepted
      BY <2>2 DEF OwedIsOpen
    <3>2. Owed \union Accepted \subseteq Request
      BY DEF Owed, Accepted, RequestsAt
    <3> QED BY <1>0, <2>7, <2>8, <3>1, <3>2, OpenKept
  <2>10. Service!Ask(n, l, S)
    <3>1. status[n] = "absent"
      BY <2>2 DEF status
    <3>2. \A q \in Service!InFlight \ S : learner[q] # l
      BY <2>4 DEF Service!InFlight, InFlightState, learner
    <3>3. status' = [Service!Cleared(S, {}) EXCEPT ![n] = "queued"]
      <4>1. Service!Cleared(S, {}) = [r \in Request |-> Service!Cleared(S, {})[r]]
        BY DEF Service!Cleared
      <4>2. \A r \in Request : status'[r] = IF r = n THEN "queued" ELSE Service!Cleared(S, {})[r]
        BY <2>5, <2>7, <2>8 DEF status
      <4>3. status' = [r \in Request |-> status'[r]]
        BY DEF status
      <4> HIDE DEF status
      <4> QED BY <2>2, <4>1, <4>2, <4>3
    <3>4. learner' = [learner EXCEPT ![n] = l]
      <4>1. \A r \in Request : learner'[r] = IF r = n THEN l ELSE learner[r]
        BY <2>5, <2>7, <2>8 DEF learner
      <4>2. learner' = [r \in Request |-> learner'[r]] /\ learner = [r \in Request |-> learner[r]]
        BY DEF learner
      <4> QED BY <2>2, <4>1, <4>2
    <3> QED BY <1>0, <3>1, <3>2, <3>3, <3>4 DEF Service!Ask, status, learner
  <2>11. S \in SUBSET Service!InFlight /\ {} \in SUBSET Service!Over
    BY <2>7
  <2>12. Service!Next
    <3>1. \E r \in Request, q \in Learners : Service!Ask(r, q, S)
      BY <2>2, <2>10
    <3>2. \E lost \in SUBSET Service!InFlight, purged \in SUBSET Service!Over :
            \E r \in Request, q \in Learners : Service!Ask(r, q, lost)
      BY <2>11, <3>1
    <3> QED BY <3>2 DEF Service!Next
  <2> QED BY <2>9, <2>12
<1> QED BY <1>1, <1>2

LEMMA ViewIsSeen ==
    ASSUME RunsInv, OwedIsOpen, View
    PROVE  OwedIsOpen' /\ [Service!Next]_Service!vars
<1> DEFINE S == Expirable
<1>1. S \in SUBSET Request /\ \A r \in S : runs[r].state \in InFlightState
  BY DEF Expirable, IsStale, LeaseLost, InFlightState
<1>2. runs' = AfterExpiry(S) /\ runners' = runners
  BY DEF View
<1> HIDE DEF S
<1>3. /\ Owed' = Owed /\ Accepted' = Accepted
      /\ Owed \union Accepted \subseteq Request
  BY <1>2, OwedSame DEF Owed, Accepted, RequestsAt
<1>4. /\ S \subseteq Service!InFlight
      /\ \A r \in Request :
            /\ runs'[r].state = Service!Cleared(S, {})[r] /\ runs'[r].learner = learner[r]
            /\ runs[r].state \in OpenState => runs'[r].state \in OpenState
  BY <1>1, <1>2, ExpiryIsSeen
<1>5. OwedIsOpen'
  BY <1>3, <1>4, OpenKept
<1>6. Service!Clear(S, {})
  BY <1>3, <1>4, SeenAsCleared
<1>7. {} \subseteq Service!Over
  OBVIOUS
<1> QED BY <1>4, <1>5, <1>6, <1>7 DEF Service!Next

LEMMA ReservingIsSeen ==
    ASSUME RunsInv, OwedIsOpen, NEW w \in Runners, Reserving(w)
    PROVE  OwedIsOpen' /\ [Service!Next]_Service!vars
<1> DEFINE lost == runners[w].expired
<1>0. Owed \union Accepted \subseteq Request
  BY DEF Owed, Accepted, RequestsAt
<1>1. ASSUME NEW purged \in SUBSET Purgeable, RunnerFindsNone(w, purged)
      PROVE  OwedIsOpen' /\ [Service!Next]_Service!vars
  <2>1. runs' = Cleared(w, purged) /\ runners[w].stage = "reserving"
        /\ runners' = [runners EXCEPT ![w] = Idle]
    BY <1>1 DEF RunnerFindsNone
  <2>2. Owed' = Owed /\ Accepted' = Accepted
    <3>1. runners'[w] = Idle /\ \A v \in Runners \ {w} : runners'[v] = runners[v]
      BY <2>1 DEF RunsInv, TypeOK
    <3>2. ~Executing(w) /\ runners'[w].stage = "idle"
      BY <2>1, <3>1 DEF Executing, Idle
    <3> QED BY <3>1, <3>2, OwedSame DEF Executing
  <2> HIDE DEF lost
  <2>3. /\ lost \subseteq Service!InFlight /\ purged \subseteq Service!Over
        /\ \A r \in Request :
              /\ runs'[r].state = Service!Cleared(lost, purged)[r]
              /\ runs'[r].learner = learner[r]
              /\ runs[r].state \in OpenState => runs'[r].state \in OpenState
    BY <2>1, ClearingIsSeen DEF lost
  <2>4. OwedIsOpen'
    BY <1>0, <2>2, <2>3, OpenKept
  <2>5. Service!Clear(lost, purged)
    BY <2>2, <2>3, SeenAsCleared
  <2> QED BY <2>3, <2>4, <2>5 DEF Service!Next
<1>2. ASSUME NEW purged \in SUBSET Purgeable, NEW n \in Request, RunnerReserve(w, n, purged)
      PROVE  OwedIsOpen' /\ [Service!Next]_Service!vars
  <2> DEFINE C == Cleared(w, purged)
             new == [Idle EXCEPT !.stage = "executing", !.req = n]
  <2>1. /\ runs' = [C EXCEPT ![n] = Reserved(@, w)]
        /\ runners' = [runners EXCEPT ![w] = new]
        /\ runs[n].state = "queued" /\ n \notin lost /\ runners[w].stage = "reserving"
    BY <1>2 DEF RunnerReserve, Waiting
  <2>2. /\ C \in [Request -> Row] /\ C[n] = runs[n] /\ runs[n] \in Row
    BY <2>1, ClearedRows DEF InFlightState, RunsInv, TypeOK
  <2>3. Owed' = Owed \union {n} /\ Accepted' = Accepted
    <3>1. runners'[w] = new /\ \A v \in Runners \ {w} : runners'[v] = runners[v]
      BY <2>1 DEF RunsInv, TypeOK
    <3>2. ~Executing(w) /\ runners'[w].stage = "executing" /\ runners'[w].req = n
      BY <2>1, <3>1 DEF Executing, Idle
    <3> QED BY <3>1, <3>2, OwedJoins
  <2> HIDE DEF lost, new
  <2>4. /\ lost \subseteq Service!InFlight /\ purged \subseteq Service!Over
        /\ \A r \in Request :
              /\ C[r].state = Service!Cleared(lost, purged)[r] /\ C[r].learner = learner[r]
              /\ runs[r].state \in OpenState => C[r].state \in OpenState
    BY ClearingIsSeen DEF lost
  <2> HIDE DEF C
  <2>5. /\ runs'[n].state = "running" /\ runs'[n].learner = learner[n]
        /\ \A r \in Request \ {n} : runs'[r] = C[r]
    <3>1. Reserved(C[n], w).state = "running" /\ Reserved(C[n], w).learner = runs[n].learner
      BY <2>2 DEF Reserved, Row
    <3>2. runs'[n] = Reserved(C[n], w) /\ \A r \in Request \ {n} : runs'[r] = C[r]
      BY <2>1, <2>2
    <3> QED BY <3>1, <3>2 DEF learner
  <2>6. OwedIsOpen'
    <3>1. ASSUME NEW r \in Owed' \union Accepted' PROVE runs'[r].state \in OpenState
      <4>1. CASE r = n
        BY <2>5, <4>1 DEF OpenState
      <4>2. CASE r # n
        BY <1>0, <2>3, <2>4, <2>5, <3>1, <4>2 DEF OwedIsOpen, OpenState
      <4> QED BY <4>1, <4>2
    <3> QED BY <3>1 DEF OwedIsOpen, OpenState
  <2>7. Service!Start(n, lost, purged)
    <3>1. status[n] = "queued" /\ n \notin lost
      BY <2>1 DEF status
    <3>2. status' = [Service!Cleared(lost, purged) EXCEPT ![n] = "running"]
      <4>1. Service!Cleared(lost, purged) = [r \in Request |-> Service!Cleared(lost, purged)[r]]
        BY DEF Service!Cleared
      <4>2. \A r \in Request : status'[r] = IF r = n THEN "running"
                                            ELSE Service!Cleared(lost, purged)[r]
        BY <2>4, <2>5 DEF status
      <4>3. status' = [r \in Request |-> status'[r]]
        BY DEF status
      <4> QED BY <4>1, <4>2, <4>3
    <3>3. learner' = learner
      BY <2>4, <2>5 DEF learner
    <3> QED BY <2>3, <3>1, <3>2, <3>3 DEF Service!Start, status, learner
  <2> QED BY <2>4, <2>6, <2>7 DEF Service!Next
<1> QED BY <1>1, <1>2 DEF Reserving

\* A runner stops executing and leaves the row as it is.
LEMMA LeavingIsSeen ==
    ASSUME RunsInv, OwedIsOpen, NEW w \in Runners, Executing(w),
           runners' = [runners EXCEPT ![w] = Idle], runs' = runs
    PROVE  OwedIsOpen' /\ [Service!Next]_Service!vars
<1>1. runners'[w] = Idle /\ \A v \in Runners \ {w} : runners'[v] = runners[v]
  BY DEF RunsInv, TypeOK
<1>2. ~Executing(w)'
  BY <1>1 DEF Executing, Idle
<1>3. PICK r \in Request : /\ r \in Owed \union Accepted
                           /\ Owed' = Owed \ {r} /\ Accepted' = Accepted \ {r}
  BY <1>1, <1>2, OwedLeaves
<1>4. OwedIsOpen'
  BY <1>3, OpenKept
<1>5. Service!Forget(r)
  BY <1>3 DEF Service!Forget
<1> QED BY <1>4, <1>5 DEF Service!Next

LEMMA FinishIsSeen ==
    ASSUME RunsInv, OwedIsOpen, NEW w \in Runners, NEW state \in {"done", "failed"},
           FinishWrite(w, state)
    PROVE  OwedIsOpen' /\ [Service!Next]_Service!vars
<1>0. PICK n : n = runners[w].req
  OBVIOUS
<1>1. /\ runners[w].stage = "finishing" /\ runners' = [runners EXCEPT ![w] = Idle]
      /\ runs' = IF runs[n].state = "purged" THEN runs
                 ELSE [runs EXCEPT ![n] = Ended(@, state)]
  BY <1>0 DEF FinishWrite
<1>2. runners'[w] = Idle /\ \A v \in Runners \ {w} : runners'[v] = runners[v]
  BY <1>1 DEF RunsInv, TypeOK
<1>3. Executing(w) /\ ~Executing(w)'
  BY <1>1, <1>2 DEF Executing, Idle
<1>4. /\ n \in Request /\ n \in Accepted /\ n \notin Owed
      /\ Owed' = Owed /\ Accepted' = Accepted \ {n}
  <2>1. /\ n \in Request /\ Owed' = Owed \ {n} /\ Accepted' = Accepted \ {n}
        /\ n \in Accepted /\ n \notin Owed
    BY <1>0, <1>1, <1>2, <1>3, OwedLeaves
  <2> QED BY <2>1
<1>5. runs[n].state \in OpenState /\ runs[n] \in Row /\ runs \in [Request -> Row]
  BY <1>4 DEF OwedIsOpen, OpenState, RunsInv, TypeOK
<1>6. Ended(runs[n], state).state = state /\ Ended(runs[n], state).learner = runs[n].learner
  BY <1>5 DEF Ended, Row
<1>7. /\ \A r \in Request \ {n} : runs'[r] = runs[r]
      /\ runs'[n].learner = runs[n].learner
      /\ runs'[n].state = IF runs[n].state = "purged" THEN "purged" ELSE state
  BY <1>1, <1>4, <1>5, <1>6
<1>8. OwedIsOpen'
  <2>1. Owed \union Accepted \subseteq Request
    BY DEF Owed, Accepted, RequestsAt
  <2> QED BY <1>4, <1>7, <2>1, OpenKept
<1>9. Service!Deliver(n, state)
  <2>1. status' = IF status[n] = "purged" THEN status ELSE [status EXCEPT ![n] = state]
    BY <1>4, <1>7 DEF status
  <2>2. learner' = learner
    BY <1>4, <1>7 DEF learner
  <2>3. status[n] \in {"running", "failed", "purged"}
    BY <1>4, <1>5 DEF status, OpenState
  <2> QED BY <1>4, <2>1, <2>2, <2>3 DEF Service!Deliver, status, learner
<1> QED BY <1>4, <1>8, <1>9 DEF Service!Next

\* _finish finds the request running, and takes the result.
LEMMA AcceptingIsSeen ==
    ASSUME RunsInv, OwedIsOpen, NEW w \in Runners, FinishRead(w), StillHeld(w)
    PROVE  OwedIsOpen' /\ [Service!Next]_Service!vars
<1> DEFINE new == [runners[w] EXCEPT !.stage = "finishing"]
<1>1. runners[w] \in Process({"reserving", "executing", "finishing"})
  BY DEF RunsInv, TypeOK
<1>2. new.stage = "finishing" /\ new.req = runners[w].req
  BY <1>1 DEF Process
<1>3. /\ runners[w].stage = "executing" /\ runs' = runs
      /\ runners' = [runners EXCEPT ![w] = new] /\ runs[runners[w].req].state = "running"
  BY DEF FinishRead, StillHeld
<1>4. runners'[w] = new /\ \A v \in Runners \ {w} : runners'[v] = runners[v]
  BY <1>3 DEF RunsInv, TypeOK
<1> HIDE DEF new
<1>5. PICK n : n = runners[w].req
  OBVIOUS
<1>6. n \in Owed /\ Owed' = Owed \ {n} /\ Accepted' = Accepted \union {n}
  BY <1>2, <1>3, <1>4, <1>5, OwedIsAccepted
<1>7. n \in Request
  BY <1>6 DEF Owed, RequestsAt
<1>8. OwedIsOpen'
  BY <1>3, <1>6, OpenKept
<1>9. Service!Accept(n)
  BY <1>3, <1>5, <1>6, <1>7 DEF Service!Accept, status, learner
<1> QED BY <1>7, <1>8, <1>9 DEF Service!Next

LEMMA RunnersAreSeen ==
    ASSUME RunsInv, OwedIsOpen, NEW w \in Runners, Runner(w)
    PROVE  OwedIsOpen' /\ [Service!Next]_Service!vars
<1>1. CASE Reserving(w) \/ \E state \in {"done", "failed"} : FinishWrite(w, state)
  BY <1>1, ReservingIsSeen, FinishIsSeen
<1>2. ASSUME NEW new, runners' = [runners EXCEPT ![w] = new], runs' = runs,
             new.stage \notin {"executing", "finishing"}, ~Executing(w)
      PROVE  OwedIsOpen' /\ [Service!Next]_Service!vars
  <2>1. runners'[w] = new /\ \A v \in Runners \ {w} : runners'[v] = runners[v]
    BY <1>2 DEF RunsInv, TypeOK
  <2>2. Owed' = Owed /\ Accepted' = Accepted
    BY <1>2, <2>1, OwedSame DEF Executing
  <2>3. Unseen
    BY <1>2, <2>2 DEF Unseen, status, learner
  <2> QED BY <2>3, UnseenKeeps
<1>3. CASE RunnerExpire(w)
  <2> DEFINE new == [Idle EXCEPT !.stage = "reserving", !.expired = Expirable]
  <2>1. new.stage = "reserving" /\ ~Executing(w)
    BY <1>3 DEF RunnerExpire, Idle, Executing
  <2>2. runners' = [runners EXCEPT ![w] = new] /\ runs' = runs
    BY <1>3 DEF RunnerExpire
  <2> HIDE DEF new
  <2> QED BY <1>2, <2>1, <2>2
<1>4. CASE FinishRead(w)
  <2>1. Executing(w) /\ runs' = runs
    BY <1>4 DEF FinishRead, Executing
  <2>2. CASE StillHeld(w)
    BY <1>4, <2>2, AcceptingIsSeen
  <2>3. CASE ~StillHeld(w)
    <3>1. runners' = [runners EXCEPT ![w] = Idle]
      BY <1>4, <2>3 DEF FinishRead
    <3> QED BY <2>1, <3>1, LeavingIsSeen
  <2> QED BY <2>2, <2>3
<1>5. CASE Crash(w)
  <2>1. runners' = [runners EXCEPT ![w] = Idle] /\ runs' = runs
    BY <1>5 DEF Crash
  <2>2. CASE Executing(w)
    BY <2>1, <2>2, LeavingIsSeen
  <2>3. CASE ~Executing(w)
    <3>1. Idle.stage = "idle"
      BY DEF Idle
    <3> QED BY <1>2, <2>1, <2>3, <3>1
  <2> QED BY <2>2, <2>3
<1> QED BY <1>1, <1>3, <1>4, <1>5 DEF Runner

LEMMA TimeIsSeen ==
    ASSUME RunsInv, OwedIsOpen, NEW n \in Request, Time(n)
    PROVE  OwedIsOpen' /\ [Service!Next]_Service!vars
<1>1. runners' = runners
  BY DEF Time, LeaseExpires, Settle, GrowStale
<1>2. runs[n] \in Row /\ runs \in [Request -> Row]
  BY DEF RunsInv, TypeOK
<1>3. \A r \in Request : runs'[r].state = runs[r].state /\ runs'[r].learner = runs[r].learner
  BY <1>2 DEF Time, LeaseExpires, Settle, GrowStale, Row
<1>4. Owed' = Owed /\ Accepted' = Accepted
  BY <1>1, OwedSame DEF Executing
<1>5. Unseen
  BY <1>3, <1>4 DEF Unseen, status, learner
<1> QED BY <1>5, UnseenKeeps

\* Seen by the learners, tabs, runners and whoever clears away are the service of
\* RunService: one run in flight, one start, a result that comes after the request
\* was given up is dropped, and no ending is replaced but a failure committed after
\* the result was accepted (request_run, expire_stale, _finish).
THEOREM TrialRunsImplementService == Spec => ImplementsRuns
<1> DEFINE Inv == RunsInv /\ OwedIsOpen
<1>1. Init => OwedIsOpen /\ Service!Init
  <2>1. Init => \A w \in Runners : ~Executing(w)
    BY DEF Init, Idle, Executing
  <2>2. Init => Owed = {} /\ Accepted = {}
    BY <2>1 DEF Owed, Accepted, RequestsAt, Executing
  <2> QED BY <2>2 DEF Init, OwedIsOpen, Service!Init, AbsentRow
<1>2. RunsInv /\ OwedIsOpen /\ [Next]_vars => OwedIsOpen' /\ [Service!Next]_Service!vars
  <2> SUFFICES ASSUME RunsInv, OwedIsOpen, [Next]_vars
               PROVE  OwedIsOpen' /\ [Service!Next]_Service!vars
    OBVIOUS
  <2>1. CASE UNCHANGED vars
    <3>1. Unseen
      BY <2>1 DEF vars, Unseen, status, learner, Owed, Accepted, RequestsAt
    <3> QED BY <3>1, UnseenKeeps
  <2>2. CASE Next
    BY <2>2, TabsAreSeen, ViewIsSeen, RunnersAreSeen, TimeIsSeen DEF Next
  <2> QED BY <2>1, <2>2
<1> QED BY <1>1, <1>2, RunsInvariant, PTL DEF Spec, ImplementsRuns, Service!Spec

=============================================================================
