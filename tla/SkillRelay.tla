----------------------------- MODULE SkillRelay -----------------------------
(***************************************************************************)
(* The way of a finished grading into the skill record: the worker appends *)
(* GradingCompleted to the outbox, a relay process reads what is not       *)
(* published and calls the subscriber (EventRelay.drain), which keeps one  *)
(* observation per task and folds them into the mastery (SkillService).    *)
(*                                                                         *)
(* One learner and one knowledge component: others have rows of their own. *)
(* The subscriber's transaction lists the observations without a lock and  *)
(* writes later what it folded, so it is two steps.                        *)
(***************************************************************************)
EXTENDS Integers, FiniteSets

CONSTANTS
    Tasks,
    Relays,          \* relay processes; deploy/systemd starts one
    Submission,      \* 1 .. n, in the order of submitted_at
    TaskOf,          \* [Submission -> Tasks]
    Batch,           \* how many events one drain reads
    MaxRuns,         \* bound: gradings recorded
    MaxFailures,     \* bound: handler calls that raise
    MaxCrashes,      \* bound: relay processes that die at work
    None

\* A GradingCompleted event: occurred_at is the run's created_at and names the
\* run.  An event that is not counted is provisional, of a trial, without
\* outcomes for the knowledge component, or of too little confidence.
Event == [at : 1 .. MaxRuns, sub : Submission, counted : BOOLEAN]

ASSUME SkillRelayAssumption ==
    /\ Submission \subseteq Nat
    /\ TaskOf \in [Submission -> Tasks]
    /\ Batch \in Nat \ {0}
    /\ MaxRuns \in Nat /\ MaxFailures \in Nat /\ MaxCrashes \in Nat
    /\ None \notin Event

VARIABLES
    outbox,     \* the events appended, published or not
    published,  \* those with published_at set
    obs,        \* skill_observations: [Tasks -> Event \union {None}]
    mastery,    \* skill_states: the observations folded into it, its evidence
    relays,     \* what each relay process is doing
    failures,   \* handler calls that raised so far
    crashes,    \* relay processes that died so far
    absorbed    \* history: the events that were ever observed

vars == <<outbox, published, obs, mastery, relays, failures, crashes, absorbed>>

Idle == [stage |-> "idle", todo |-> {}, delivered |-> {}, seen |-> [t \in Tasks |-> None]]

Process == [stage : {"idle", "delivering", "applying"}, todo : SUBSET Event,
            delivered : SUBSET Event, seen : [Tasks -> Event \union {None}]]

-----------------------------------------------------------------------------
(* The subscriber's rules: SkillService._apply_one                         *)

\* The observations of all tasks.
Fold(o) == {o[t] : t \in Tasks} \ {None}

\* A slip the runs must notice: the observation replaced is folded as well.
FoldedWithOld(o, e) == Fold(o) \union {e}

\* What _refold folds: what was listed of the other tasks, and the new one.
Folded(o, e) == Fold([o EXCEPT ![TaskOf[e.sub]] = e])

\* A slip the runs must notice: whatever comes last is kept.
OutdatedNever(e, o) == FALSE

\* The submission observed is newer than the event's.
Outdated(e, o) == o[TaskOf[e.sub]] # None /\ o[TaskOf[e.sub]].sub > e.sub

\* The event's run is observed already.
Known(e, o) == \E t \in Tasks : o[t] # None /\ o[t].at = e.at

-----------------------------------------------------------------------------
Init ==
    /\ outbox = {} /\ published = {}
    /\ obs = [t \in Tasks |-> None]
    /\ mastery = {}
    /\ relays = [r \in Relays |-> Idle]
    /\ failures = 0 /\ crashes = 0
    /\ absorbed = {}

\* A worker records a grading.  created_at is its own clock: the event may
\* come before one that was committed earlier.
Record(e) ==
    /\ \A d \in outbox : d.at # e.at
    /\ outbox' = outbox \union {e}
    /\ UNCHANGED <<published, obs, mastery, relays, failures, crashes, absorbed>>

\* A slip the runs must notice: the relay remembers how far it came.
UnpublishedSince == {e \in outbox : \A d \in published : d.at < e.at}

Unpublished == outbox \ published

\* drain: the oldest unpublished events, up to the limit.
DrainRead(r) ==
    /\ relays[r].stage = "idle"
    /\ Unpublished # {}
    /\ relays' = [relays EXCEPT ![r] = [Idle EXCEPT
            !.stage = "delivering",
            !.todo = {e \in Unpublished :
                        Cardinality({d \in Unpublished : d.at < e.at}) < Batch}]]
    /\ UNCHANGED <<outbox, published, obs, mastery, failures, crashes, absorbed>>

\* The next event of the batch.
NextUp(r, e) == e \in relays[r].todo /\ \A d \in relays[r].todo : e.at <= d.at

Delivered(me, e) ==
    [me EXCEPT !.stage = "delivering", !.todo = @ \ {e}, !.delivered = @ \union {e}]

\* The subscriber leaves the event out.
Pass(r, e) ==
    /\ relays[r].stage = "delivering" /\ NextUp(r, e)
    /\ ~e.counted \/ Known(e, obs) \/ Outdated(e, obs)
    /\ relays' = [relays EXCEPT ![r] = Delivered(@, e)]
    /\ UNCHANGED <<outbox, published, obs, mastery, failures, crashes, absorbed>>

\* The subscriber has listed the observations and will replace one.
ApplyRead(r, e) ==
    /\ relays[r].stage = "delivering" /\ NextUp(r, e)
    /\ e.counted /\ ~Known(e, obs) /\ ~Outdated(e, obs)
    /\ relays' = [relays EXCEPT ![r].stage = "applying", ![r].seen = obs]
    /\ UNCHANGED <<outbox, published, obs, mastery, failures, crashes, absorbed>>

\* save_observation and save_state, in one commit.
ApplyWrite(r, e) ==
    /\ relays[r].stage = "applying" /\ NextUp(r, e)
    /\ obs' = [obs EXCEPT ![TaskOf[e.sub]] = e]
    /\ mastery' = Folded(relays[r].seen, e)
    /\ relays' = [relays EXCEPT ![r] = [Delivered(@, e) EXCEPT !.seen = Idle.seen]]
    /\ absorbed' = absorbed \union {e}
    /\ UNCHANGED <<outbox, published, failures, crashes>>

\* A slip the runs must notice: a failed event counts as delivered.
LeftDelivered(me, e) == [Delivered(me, e) EXCEPT !.seen = Idle.seen]

LeftForLater(me, e) ==
    [me EXCEPT !.stage = "delivering", !.todo = @ \ {e}, !.seen = Idle.seen]

\* The handler raises: its transaction is rolled back, the event stays
\* unpublished and the batch goes on.
HandlerFails(r, e) ==
    /\ relays[r].stage # "idle" /\ NextUp(r, e)
    /\ failures < MaxFailures
    /\ failures' = failures + 1
    /\ relays' = [relays EXCEPT ![r] = LeftForLater(@, e)]
    /\ UNCHANGED <<outbox, published, obs, mastery, crashes, absorbed>>

MarkPublished(r) ==
    /\ relays[r].stage = "delivering" /\ relays[r].todo = {}
    /\ published' = published \union relays[r].delivered
    /\ relays' = [relays EXCEPT ![r] = Idle]
    /\ UNCHANGED <<outbox, obs, mastery, failures, crashes, absorbed>>

\* The process dies; what it delivered is delivered again.
Crash(r) ==
    /\ relays[r].stage # "idle"
    /\ crashes < MaxCrashes
    /\ crashes' = crashes + 1
    /\ relays' = [relays EXCEPT ![r] = Idle]
    /\ UNCHANGED <<outbox, published, obs, mastery, failures, absorbed>>

-----------------------------------------------------------------------------
Deliver(r) ==
    \/ DrainRead(r)
    \/ \E e \in outbox : Pass(r, e) \/ ApplyRead(r, e) \/ ApplyWrite(r, e)
    \/ MarkPublished(r)

Next ==
    \/ \E e \in Event : Record(e)
    \/ \E r \in Relays : Deliver(r) \/ Crash(r) \/ \E e \in outbox : HandlerFails(r, e)

Spec == Init /\ [][Next]_vars

\* The relay process is restarted when it dies, and goes on.
FairSpec == Spec /\ \A r \in Relays : WF_vars(Deliver(r))

-----------------------------------------------------------------------------
(* What must hold                                                          *)

\* Every variable has its type, and a process at work has work in hand that it
\* has not done yet (EventRelay.drain).
TypeOK ==
    /\ outbox \subseteq Event /\ published \subseteq outbox
    /\ obs \in [Tasks -> Event \union {None}]
    /\ mastery \subseteq Event /\ absorbed \subseteq Event
    /\ relays \in [Relays -> Process]
    /\ failures \in Nat /\ crashes \in Nat
    /\ \A r \in Relays :
        /\ relays[r].todo \cap relays[r].delivered = {}
        /\ relays[r].stage = "idle" => relays[r] = Idle
        /\ relays[r].stage = "applying" => relays[r].todo # {}

\* The mastery and its evidence are made of exactly the observations kept,
\* whatever crashed, failed or came twice (_refold).
MasteryFollows == mastery = Fold(obs)

\* A published event has had its effect: its task's observation is of its
\* submission or of a later one (drain marks only what was delivered).
Absorbed(e) ==
    e.counted => obs[TaskOf[e.sub]] # None /\ obs[TaskOf[e.sub]].sub >= e.sub

NothingLost == \A e \in published : Absorbed(e)

\* However events are repeated, delayed or reordered, an earlier submission
\* never takes the place of a later one, and no task loses its observation
\* (_apply_one compares submitted_at).
SubmissionsAdvance ==
    [][\A t \in Tasks : obs[t] # None => obs'[t] # None /\ obs'[t].sub >= obs[t].sub]_vars

\* Every grading recorded is published in the end, through crashes, failed
\* handlers and events committed out of order (drain, _drain_all).
EveryEventPublished ==
    \A n \in 1 .. MaxRuns :
        (\E e \in outbox : e.at = n) ~> (\E e \in published : e.at = n)

-----------------------------------------------------------------------------
(* Why it holds: with one relay, what the subscriber listed is what there  *)
(* is when it writes                                                       *)

SingleRelay == \A r, s \in Relays : r = s

\* A stamp names one run, and only recorded gradings are observed or delivered.
RecordsSound ==
    /\ \A d, e \in outbox : d.at = e.at => d = e
    /\ \A t \in Tasks : obs[t] # None =>
            obs[t] \in outbox /\ obs[t].counted /\ TaskOf[obs[t].sub] = t
    /\ \A r \in Relays :
            relays[r].todo \subseteq outbox /\ relays[r].delivered \subseteq outbox

\* What is about to be marked has had its effect.
DeliveredAbsorbed == \A r \in Relays : \A e \in relays[r].delivered : Absorbed(e)

\* What was checked before the write still holds at the write.
ListedIsCurrent ==
    \A r \in Relays : relays[r].stage = "applying" =>
        /\ relays[r].seen = obs
        /\ \A e \in outbox : NextUp(r, e) => e.counted /\ ~Outdated(e, obs)

\* Inductive for a single relay.
RelayInv ==
    /\ TypeOK
    /\ RecordsSound
    /\ MasteryFollows
    /\ NothingLost
    /\ DeliveredAbsorbed
    /\ ListedIsCurrent

=============================================================================
