----------------------------- MODULE TrialRuns -----------------------------
(***************************************************************************)
(* Trial runs of the browser IDE: a learner asks for a run from a tab      *)
(* (request_run), runner processes take and execute the requests           *)
(* (CodeRunner), and whoever passes by clears away what waited too long or *)
(* lost its runner (expire_stale).  Unlike a grading job a request is      *)
(* never taken twice: a lost one fails and the learner presses again.      *)
(*                                                                         *)
(* The transaction of a POST and the one in which a runner reserves are    *)
(* two or three steps long: the rows they have expired stay locked, and    *)
(* unexpired for everyone else, until they commit or roll back.            *)
(***************************************************************************)
EXTENDS Integers, FiniteSets

CONSTANTS
    Learners,
    Tabs,
    OwnerOf,     \* [Tabs -> Learners]: whose browser tab it is
    Runners,     \* names of runner processes
    MaxPosts,    \* bound: POSTs that reach request_run
    MaxCrashes,  \* bound: runner processes that die at work
    None

\* Requests in the order of created_at, which is read before the transaction.
Request == 1 .. MaxPosts

Finished == {"done", "expired", "failed"}

RunState == {"absent", "queued", "running", "purged"} \union Finished

\* The time since created_at, against the cooldown (3 s) and the time after
\* which a waiting request is not run any more (30 s).
Age == {"recent", "settled", "stale"}

Row == [state : RunState, learner : Learners \union {None},
        worker : Runners \union {None}, lease : {"none", "live", "expired"},
        age : Age]

ASSUME TrialRunsAssumption ==
    /\ OwnerOf \in [Tabs -> Learners]
    /\ MaxPosts \in Nat /\ MaxCrashes \in Nat
    /\ None \notin Runners /\ None \notin Request

VARIABLES
    runs,     \* the run_requests table: Request -> Row
    tabs,     \* the transaction of each tab's POST
    runners,  \* what each runner process is doing
    posts,    \* requests numbered so far
    crashes   \* runner processes that died so far

vars == <<runs, tabs, runners, posts, crashes>>

Idle == [stage |-> "idle", req |-> None, expired |-> {}]

Process(stages) == [stage : {"idle"} \union stages, req : Request \union {None},
                    expired : SUBSET Request]

AbsentRow == [state |-> "absent", learner |-> None, worker |-> None,
              lease |-> "none", age |-> "recent"]

-----------------------------------------------------------------------------
(* RunRequest's transitions, and the clearing away of expire_stale         *)

Reserved(row, w) ==
    [row EXCEPT !.state = "running", !.worker = w, !.lease = "live"]

Ended(row, state) ==
    [row EXCEPT !.state = state, !.worker = None, !.lease = "none"]

IsStale(r) == runs[r].state = "queued" /\ runs[r].age = "stale"

LeaseLost(r) == runs[r].state = "running" /\ runs[r].lease = "expired"

\* A transaction keeps the rows it has expired locked until it ends.
Locked(r) == \/ \E t \in Tabs : r \in tabs[t].expired
             \/ \E w \in Runners : r \in runners[w].expired

\* A slip the runs must notice: only requests nobody has taken are cleared.
ExpirableWaiting == {r \in Request : IsStale(r) /\ ~Locked(r)}

\* The rows expire_stale reads: with_for_update(skip_locked=True).
Expirable == {r \in Request : (IsStale(r) \/ LeaseLost(r)) /\ ~Locked(r)}

\* A slip the runs must notice: a request that lost its runner is run again.
AfterRequeue(S) ==
    [r \in Request |->
        IF r \notin S THEN runs[r]
        ELSE Ended(runs[r], IF runs[r].state = "queued" THEN "expired" ELSE "queued")]

AfterExpiry(S) ==
    [r \in Request |->
        IF r \notin S THEN runs[r]
        ELSE Ended(runs[r], IF runs[r].state = "queued" THEN "expired" ELSE "failed")]

InFlight(l) == {r \in Request : /\ runs[r].learner = l
                                /\ runs[r].state \in {"queued", "running"}}

-----------------------------------------------------------------------------
Init ==
    /\ runs = [r \in Request |-> AbsentRow]
    /\ tabs = [t \in Tabs |-> Idle]
    /\ runners = [w \in Runners |-> Idle]
    /\ posts = 0 /\ crashes = 0

(* POST /ide/tasks/{id}/run                                                *)

\* request_run up to expire_stale.
PostExpire(t) ==
    /\ tabs[t].stage = "idle"
    /\ posts < MaxPosts
    /\ posts' = posts + 1
    /\ tabs' = [tabs EXCEPT ![t] = [Idle EXCEPT !.stage = "checking",
                                        !.req = posts', !.expired = Expirable]]
    /\ UNCHANGED <<runs, runners, crashes>>

Rows(l) == {r \in Request : /\ runs[r].learner = l
                            /\ runs[r].state # "purged"}

TooSoon(l) == \E r \in Rows(l) : /\ \A q \in Rows(l) : q <= r
                                 /\ runs[r].age = "recent"

AlreadyPending(t) == InFlight(OwnerOf[t]) \ tabs[t].expired # {}

\* in_flight_for and latest_for let the request through.
PostCheck(t) ==
    /\ tabs[t].stage = "checking"
    /\ ~AlreadyPending(t) /\ ~TooSoon(OwnerOf[t])
    /\ tabs' = [tabs EXCEPT ![t].stage = "inserting"]
    /\ UNCHANGED <<runs, runners, posts, crashes>>

\* RunRefused returns without a commit: what was expired is not.
PostRefuse(t) ==
    /\ tabs[t].stage = "checking"
    /\ AlreadyPending(t) \/ TooSoon(OwnerOf[t])
    /\ tabs' = [tabs EXCEPT ![t] = Idle]
    /\ UNCHANGED <<runs, runners, posts, crashes>>

\* A slip the runs must notice: the partial unique index is missing.
Unindexed(t) == FALSE

\* uq_run_requests_one_in_flight is violated.
Collides(t) == AlreadyPending(t)

PostInsert(t) ==
    /\ tabs[t].stage = "inserting"
    /\ ~Collides(t)
    /\ runs' = [AfterExpiry(tabs[t].expired) EXCEPT
                    ![tabs[t].req] = [AbsentRow EXCEPT !.state = "queued",
                                                       !.learner = OwnerOf[t]]]
    /\ tabs' = [tabs EXCEPT ![t] = Idle]
    /\ UNCHANGED <<runners, posts, crashes>>

\* IntegrityError: add rolls the session back, the expiry with it.
PostCollides(t) ==
    /\ tabs[t].stage = "inserting"
    /\ Collides(t)
    /\ tabs' = [tabs EXCEPT ![t] = Idle]
    /\ UNCHANGED <<runs, runners, posts, crashes>>

\* GET /ide/runs/{id}: view_run expires and the handler commits.
View ==
    /\ Expirable # {}
    /\ runs' = AfterExpiry(Expirable)
    /\ UNCHANGED <<tabs, runners, posts, crashes>>

-----------------------------------------------------------------------------
(* A runner process: CodeRunner.run_once                                   *)

\* The reserving transaction up to expire_stale.
RunnerExpire(w) ==
    /\ runners[w].stage = "idle"
    /\ runners' = [runners EXCEPT ![w] =
                    [Idle EXCEPT !.stage = "reserving", !.expired = Expirable]]
    /\ UNCHANGED <<runs, tabs, posts, crashes>>

Waiting(w) == {r \in Request \ runners[w].expired :
                    runs[r].state = "queued" /\ ~Locked(r)}

Purgeable == {r \in Request : runs[r].state \in Finished /\ runs[r].age # "recent"}

\* The rows after the expiry and the purge; both are committed in any case.
Cleared(w, purged) ==
    [r \in Request |-> IF r \in purged THEN Ended(runs[r], "purged")
                       ELSE AfterExpiry(runners[w].expired)[r]]

\* purge_finished and reserve: the oldest waiting request that is not locked.
RunnerReserve(w, r, purged) ==
    /\ runners[w].stage = "reserving"
    /\ r \in Waiting(w)
    /\ \A q \in Waiting(w) : r <= q
    /\ runs' = [Cleared(w, purged) EXCEPT ![r] = Reserved(@, w)]
    /\ runners' = [runners EXCEPT ![w] =
                    [Idle EXCEPT !.stage = "executing", !.req = r]]
    /\ UNCHANGED <<tabs, posts, crashes>>

RunnerFindsNone(w, purged) ==
    /\ runners[w].stage = "reserving"
    /\ Waiting(w) = {}
    /\ runs' = Cleared(w, purged)
    /\ runners' = [runners EXCEPT ![w] = Idle]
    /\ UNCHANGED <<tabs, posts, crashes>>

\* A slip the runs must notice: a result is taken whenever it comes.
HeldForever(w) == TRUE

StillHeld(w) ==
    LET row == runs[runners[w].req]
    IN  row.state = "running" /\ row.worker = w

\* _finish reads the row, without a lock; a result whose lease was lost is
\* dropped.
FinishRead(w) ==
    /\ runners[w].stage = "executing"
    /\ runners' = [runners EXCEPT ![w] =
                    IF StillHeld(w) THEN [@ EXCEPT !.stage = "finishing"] ELSE Idle]
    /\ UNCHANGED <<runs, tabs, posts, crashes>>

\* _finish writes what it made of the row it read, whatever has become of it;
\* if the row was purged the update finds none and the process exits.
FinishWrite(w, state) ==
    LET r == runners[w].req
    IN  /\ runners[w].stage = "finishing"
        /\ ~Locked(r)
        /\ runs' = IF runs[r].state = "purged" THEN runs
                   ELSE [runs EXCEPT ![r] = Ended(@, state)]
        /\ runners' = [runners EXCEPT ![w] = Idle]
        /\ UNCHANGED <<tabs, posts, crashes>>

\* The process dies and its open transaction is rolled back; systemd starts
\* it again under the same name.
Crash(w) ==
    /\ runners[w].stage # "idle"
    /\ crashes < MaxCrashes
    /\ crashes' = crashes + 1
    /\ runners' = [runners EXCEPT ![w] = Idle]
    /\ UNCHANGED <<runs, tabs, posts>>

-----------------------------------------------------------------------------
(* Time passes: older requests age first, and a lease (120 s) outlasts the *)
(* cooldown.                                                               *)

LeaseExpires(r) ==
    /\ runs[r].state = "running" /\ runs[r].lease = "live"
    /\ runs[r].age # "recent"
    /\ runs' = [runs EXCEPT ![r].lease = "expired"]
    /\ UNCHANGED <<tabs, runners, posts, crashes>>

Settle(r) ==
    /\ runs[r].state \notin {"absent", "purged"} /\ runs[r].age = "recent"
    /\ \A q \in Request : q < r /\ runs[q].state \notin {"absent", "purged"} =>
            runs[q].age # "recent"
    /\ runs' = [runs EXCEPT ![r].age = "settled"]
    /\ UNCHANGED <<tabs, runners, posts, crashes>>

GrowStale(r) ==
    /\ runs[r].state = "queued" /\ runs[r].age = "settled"
    /\ \A q \in Request : q < r /\ runs[q].state = "queued" => runs[q].age = "stale"
    /\ runs' = [runs EXCEPT ![r].age = "stale"]
    /\ UNCHANGED <<tabs, runners, posts, crashes>>

-----------------------------------------------------------------------------
Post(t) == PostCheck(t) \/ PostRefuse(t) \/ PostInsert(t) \/ PostCollides(t)

Reserving(w) ==
    \E purged \in SUBSET Purgeable :
        \/ \E r \in Request : RunnerReserve(w, r, purged)
        \/ RunnerFindsNone(w, purged)

Runner(w) ==
    \/ RunnerExpire(w)
    \/ Reserving(w)
    \/ FinishRead(w)
    \/ \E state \in {"done", "failed"} : FinishWrite(w, state)
    \/ Crash(w)

Time(r) == LeaseExpires(r) \/ Settle(r) \/ GrowStale(r)

Next ==
    \/ \E t \in Tabs : PostExpire(t) \/ Post(t)
    \/ View
    \/ \E w \in Runners : Runner(w)
    \/ \E r \in Request : Time(r)

Spec == Init /\ [][Next]_vars

\* Time passes, begun transactions end and the learner's page keeps asking;
\* nothing is asked of the runners, which may all be down or hang.
Fairness ==
    /\ WF_vars(View)
    /\ \A r \in Request : WF_vars(Time(r))
    /\ \A t \in Tabs : WF_vars(Post(t))
    /\ \A w \in Runners : WF_vars(Reserving(w))

FairSpec == Spec /\ Fairness

-----------------------------------------------------------------------------
(* What must hold                                                          *)

\* RunRequest's validator: only a running request holds a lease, and it has one.
Readable(row) ==
    /\ row.state = "running" <=> row.lease # "none"
    /\ row.state = "running" => row.worker # None

\* Every variable has its type, and every row passes the validator: model_copy
\* does not validate, and a row that fails would break every later read of it.
TypeOK ==
    /\ runs \in [Request -> Row]
    /\ \A r \in Request : Readable(runs[r])
    /\ tabs \in [Tabs -> Process({"checking", "inserting"})]
    /\ runners \in [Runners -> Process({"reserving", "executing", "finishing"})]
    /\ posts \in 0 .. MaxPosts /\ crashes \in Nat

\* However many tabs a learner opens, and whatever is being cleared away
\* meanwhile, one run of hers is in flight.
OneInFlight ==
    \A l \in Learners : \A q, r \in InFlight(l) : q = r

Executing(w) == runners[w].stage \in {"executing", "finishing"}

\* No request is executed by two runners, and none that has been executed
\* waits to be executed again.
ExecutedOnce ==
    \A w \in Runners : Executing(w) =>
        /\ runs[runners[w].req].state \notin {"absent", "queued"}
        /\ \A v \in Runners \ {w} : Executing(v) => runners[v].req # runners[w].req

\* What a transaction is about to expire is still in flight when it commits:
\* clearing away never overwrites a result that arrived meanwhile.
ExpiryHitsInFlight ==
    \A r \in Request : Locked(r) => runs[r].state \in {"queued", "running"}

RequestsAt(stage) ==
    {r \in Request : \E w \in Runners : runners[w].stage = stage /\ runners[w].req = r}

\* The requests whose one execution may still come to a result, and those with
\* a result that _finish has accepted, as it found the request running.
Owed == RequestsAt("executing")
Accepted == RequestsAt("finishing")

Service == INSTANCE RunService WITH
    Requests <- Request,
    status <- [r \in Request |-> runs[r].state],
    learner <- [r \in Request |-> runs[r].learner],
    owed <- Owed,
    accepted <- Accepted

\* Whatever overlaps, dies or comes late, the learner sees the service of
\* RunService: an ending replaced by clearing away, a second start, a result of
\* nobody's, or one taken after the request was given up would all show
\* (expire_stale, reserve, _finish).  That a result accepted in time is written
\* over a failure committed since is in the service, as it is in the code;
\* _finish's own comment has it dropped.
ImplementsRuns == Service!Spec

\* A learner who waits is answered in the end, with every runner down.
EveryRunEnds ==
    \A r \in Request : runs[r].state \in {"queued", "running"} ~>
                       runs[r].state \in Finished

-----------------------------------------------------------------------------
(* The inductive invariant                                                 *)

\* Who numbers a request numbers it alone, and its row is still free.
NumberedOnce ==
    \A t \in Tabs : tabs[t].stage # "idle" =>
        /\ tabs[t].req \in 1 .. posts
        /\ runs[tabs[t].req].state = "absent"
        /\ \A u \in Tabs \ {t} : tabs[u].stage # "idle" => tabs[u].req # tabs[t].req

Unnumbered == \A r \in Request : r > posts => runs[r].state = "absent"

\* No two transactions hold a lock on one row.
LocksExclusive ==
    /\ \A t, u \in Tabs : t # u => tabs[t].expired \cap tabs[u].expired = {}
    /\ \A v, w \in Runners : v # w => runners[v].expired \cap runners[w].expired = {}
    /\ \A t \in Tabs, w \in Runners : tabs[t].expired \cap runners[w].expired = {}

\* What is being executed was running, was given up, or is purged: nobody else
\* has ended it.
OwedIsOpen ==
    \A r \in Owed \union Accepted : runs[r].state \in {"running", "failed", "purged"}

RunsInv ==
    /\ TypeOK /\ OneInFlight /\ ExecutedOnce /\ ExpiryHitsInFlight
    /\ NumberedOnce /\ Unnumbered /\ LocksExclusive
    /\ \A w \in Runners : Executing(w) => runners[w].req \in Request

=============================================================================
