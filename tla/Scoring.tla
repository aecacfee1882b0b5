------------------------------- MODULE Scoring -------------------------------
(***************************************************************************)
(* How the answers of the evaluators become a grade: GradingPipeline.run   *)
(* for its two phases, has_ai_work, the AND gate, the reweighting of what  *)
(* nobody answered, the routing, and the total after an instructor has put *)
(* a level on every criterion, of which the record keeps those that differ.*)
(*                                                                         *)
(* One submission.  The evaluators answer as they like; a level l is worth *)
(* l / Top.  Weights are integers, and Weight is what they sum to: 1.0 in  *)
(* the code.  Ratios are exact fractions; rounding is left out.            *)
(***************************************************************************)
EXTENDS Integers, Sequences

CONSTANTS
    WeightOf,     \* the weights of the criteria, in the order of evaluation
    Top,          \* the highest level of a criterion
    Heavy,        \* always_review_if_weight_over, in the units of the weights
    Low, High,    \* the totals within boundary_margin of boundary_score, in
                  \* hundredths; none when Low > High
    None, Rejected

Criteria == DOMAIN WeightOf
Levels == 0 .. Top

Score == [level : Levels, sure : BOOLEAN,     \* confidence above the threshold
          settled : BOOLEAN]                   \* by a deterministic evaluator

Scores == UNION {[cs -> Score] : cs \in SUBSET Criteria}

Ratio == [n : Int, d : Int]

GradingRun == [scores : Scores, scale : Ratio, ratio : Ratio, unscored : SUBSET Criteria,
               skipped : SUBSET Criteria, awaiting : SUBSET Criteria, auto : BOOLEAN]

ASSUME ScoringAssumption ==
    /\ WeightOf \in Seq(Nat \ {0}) /\ WeightOf # <<>>
    /\ Top \in Nat \ {0}
    /\ Heavy \in Nat /\ Low \in Int /\ High \in Int
    /\ None \notin Levels

ASSUME NoneIsNothing ==
    /\ {None, Rejected} \cap GradingRun = {} /\ None # Rejected
    /\ None \notin UNION {[cs -> Levels] : cs \in SUBSET Criteria}
    /\ None \notin [level : Levels, sure : BOOLEAN]

\* The sum over the criteria, added up in their order.
Upto(v) ==
    LET upto[c \in 0 .. Len(WeightOf)] == IF c = 0 THEN 0 ELSE upto[c - 1] + v[c]
    IN  upto

Total(v) == Upto(v)[Len(WeightOf)]

Weigh(cs) == Total([c \in Criteria |-> IF c \in cs THEN WeightOf[c] ELSE 0])
Weight == Weigh(Criteria)

\* evaluator_id of a criterion: a deterministic evaluator, an AI evaluator,
\* none of them by name, or HUMAN_SCORED; with the profile and aggregation.
Task == [by : [Criteria -> {"test", "ai", "any", "human"}],
         gate : BOOLEAN,           \* effective_aggregation is AND
         judge : BOOLEAN]          \* the profile has AI evaluators

VARIABLES
    task,      \* the task version and the profile
    unread,    \* an extraction has failed: there is no text to grade
    tests,     \* what the deterministic evaluators answer for a criterion
    judged,    \* what an AI evaluator answers if it is asked
    det, ai,   \* the run of each phase: None, Rejected or a GradingRun
    review,    \* HumanReview.adjusted_levels, or None
    given      \* the levels of the form it was made of, which no action reads

vars == <<task, unread, tests, judged, det, ai, review, given>>

-----------------------------------------------------------------------------
(* The parts of GradingPipeline.run                                        *)

FirstOf(cs) == {c \in cs : \A d \in cs : c <= d}

\* A deterministic evaluator answers for the criteria that name it; the test
\* runner also for the first one that names nobody.
Tested(t) == {c \in Criteria : t.by[c] = "test"}
              \cup FirstOf({c \in Criteria : t.by[c] = "any"})

ByHuman(t) == {c \in Criteria : t.by[c] = "human"}

ForTheAi(t) == {c \in Criteria : t.by[c] \in {"ai", "any"}}

\* gate_skipped: what comes after the first 0, unless the scan meets a
\* criterion without a score first.
GateSkipped(t, scores) ==
    IF ~t.gate THEN {}
    ELSE {d \in Criteria :
            \E c \in DOMAIN scores :
              /\ c < d /\ scores[c].level = 0
              /\ \A b \in Criteria : b < c => b \in DOMAIN scores /\ scores[b].level > 0}

\* Who is settled, a human's, or cut is not asked.
Asked(t, scores, c, sofar) ==
    /\ t.judge /\ c \in ForTheAi(t)
    /\ ~(c \in DOMAIN scores /\ scores[c].settled)
    /\ c \notin GateSkipped(t, sofar)

Judged(sofar, c, answer) ==
    [d \in DOMAIN sofar \cup {c} |->
        IF d = c THEN [level |-> answer.level, sure |-> answer.sure, settled |-> FALSE]
        ELSE sofar[d]]

\* The loop over the criteria: what is scored after each of them.
Judging(t, scores, answers) ==
    LET sofar[c \in 0 .. Len(WeightOf)] ==
            IF c = 0 THEN scores
            ELSE IF Asked(t, scores, c, sofar[c - 1]) /\ answers[c] # None
            THEN Judged(sofar[c - 1], c, answers[c])
            ELSE sofar[c - 1]
    IN  sofar

Judge(t, scores, answers) == Judging(t, scores, answers)[Len(WeightOf)]

\* What a set of scored criteria is worth, weighted.
Worth(scores, cs) ==
    Total([c \in Criteria |-> IF c \in cs THEN scores[c].level * WeightOf[c] ELSE 0])

\* A slip the runs must notice: the base keeps the weights it was given.
KeptWeights(base) == base.scale

\* The weights of the base come from the rubric again.
Carried(base) == [n |-> 1, d |-> 1]

\* zero_weight: what is cut and what a human will do count, as 0.
ZeroWeight(awaiting, cut) == Weigh(awaiting \cup cut)

\* aggregate insists that the weights come to 1.0; scaled ones do.
SumsUp(scored, scaled, scale, zero) ==
    IF scored = {} THEN zero \in {0, Weight}
    ELSE scaled \/ (Weigh(scored) * scale.n + zero * scale.d = Weight * scale.d)

\* A slip the runs must notice: what was cut keeps the score it was given.
KeptWithTheCut(scores, cut) == DOMAIN scores

\* The runner answers for all its criteria at once: what comes after the cut is
\* thrown away.
Kept(scores, cut) == DOMAIN scores \ cut

\* requires_review: what is not settled is sure and not too heavy, and the total
\* is not near the boundary.
RequiresReview(scores, scale, total) ==
    \/ \E c \in DOMAIN scores :
          /\ ~scores[c].settled
          /\ ~scores[c].sure \/ WeightOf[c] * scale.n > Heavy * scale.d
    \/ Low * total.d <= 100 * total.n /\ 100 * total.n <= High * total.d

\* The weights and the total that aggregation comes to: spread over what was
\* scored when something was left out.
Scale(scored, scaled, scale, zero) ==
    IF scaled THEN [n |-> Weight - zero, d |-> Weigh(scored)] ELSE scale

TotalOf(scores, scored, weights) ==
    [n |-> Worth(scores, scored) * weights.n, d |-> Top * Weight * weights.d]

\* Aggregation, routing and the validators of GradingRun.  Somebody must have
\* answered, unless nobody was to or there was nothing to read.
Run(t, scores, scale, expected) ==
    LET cut == GateSkipped(t, scores)
        scored == Kept(scores, cut)
        kept == [c \in scored |-> scores[c]]
        awaiting == ByHuman(t) \ cut
        unscored == Criteria \ (scored \cup awaiting \cup cut)
        zero == ZeroWeight(awaiting, cut)
        scaled == unscored # {} /\ scored # {}
        weights == Scale(scored, scaled, scale, zero)
        total == TotalOf(scores, scored, weights)
    IN  IF \/ scored = {} /\ expected /\ awaiting # Criteria /\ ~unread
           \/ ~SumsUp(scored, scaled, scale, zero)
        THEN Rejected
        ELSE [scores |-> kept, scale |-> weights, ratio |-> total,
              unscored |-> unscored, skipped |-> cut, awaiting |-> awaiting,
              auto |-> unscored = {} /\ awaiting = {} /\ ~RequiresReview(kept, weights, total)]

Answered(t, answers) ==
    [c \in {x \in Tested(t) : answers[x] # None} |->
        [level |-> answers[c], sure |-> TRUE, settled |-> TRUE]]

\* phase = deterministic: nothing is expected when no criterion names a
\* deterministic evaluator.
Deterministic(t, a) ==
    Run(t, Answered(t, a), [n |-> 1, d |-> 1], \E c \in Criteria : t.by[c] = "test")

\* phase = ai, on the run of the other phase.
OnBase(t, base, j) == Run(t, Judge(t, base.scores, j), Carried(base), TRUE)

\* phase = None: both at once.
AtOnce(t, a, j) == Run(t, Judge(t, Answered(t, a), j), [n |-> 1, d |-> 1], TRUE)

\* has_ai_work
HasAiWork(t, base) ==
    /\ t.judge
    /\ \E c \in Criteria : /\ ~(c \in DOMAIN base.scores /\ base.scores[c].settled)
                           /\ c \notin base.skipped \cup GateSkipped(t, base.scores)
                           /\ t.by[c] # "human"

-----------------------------------------------------------------------------
(* One submission through the worker and the console                       *)

IsRun(r) == r \notin {None, Rejected}

Latest == IF IsRun(ai) THEN ai ELSE det

Init ==
    /\ task \in Task /\ unread \in BOOLEAN
    /\ tests = None /\ judged = None /\ det = None /\ ai = None
    /\ review = None /\ given = None

Answers(asked, values) ==
    {f \in [Criteria -> values \cup {None}] : \A c \in Criteria \ asked : f[c] = None}

GradeTests ==
    /\ det = None
    /\ tests' \in Answers(Tested(task), Levels)
    /\ det' = Deterministic(task, tests')
    /\ UNCHANGED <<task, unread, judged, ai, review, given>>

GradeAi ==
    /\ IsRun(det) /\ ai = None /\ HasAiWork(task, det)
    /\ judged' \in Answers(ForTheAi(task), [level : Levels, sure : BOOLEAN])
    /\ ai' = OnBase(task, det, judged')
    /\ UNCHANGED <<task, unread, tests, det, review, given>>

\* adjusted: of the levels of the form only those that differ from the machine's.
Differs(levels) ==
    {c \in Criteria : ~(c \in DOMAIN Latest.scores /\ Latest.scores[c].level = levels[c])}

\* POST finalize: every criterion needs a level, and the AI phase has come.  A
\* correction makes the record anew of its own form, so that the first one stands
\* for all.
Finalize ==
    /\ IsRun(Latest) /\ review = None
    /\ HasAiWork(task, det) => ai # None
    /\ \E levels \in [Criteria -> Levels] :
         /\ review' = [c \in Differs(levels) |-> levels[c]]
         /\ given' = levels
    /\ UNCHANGED <<task, unread, tests, judged, det, ai>>

Next == GradeTests \/ GradeAi \/ Finalize

Spec == Init /\ [][Next]_vars

-----------------------------------------------------------------------------
(* final_score                                                             *)

\* The levels there are: the machine's, or the instructor's in their place.
LevelsOf(run, adjusted) ==
    [c \in DOMAIN run.scores \cup DOMAIN adjusted |->
        IF c \in DOMAIN adjusted THEN adjusted[c] ELSE run.scores[c].level]

\* What these levels are worth with these weights.
Weighted(levels, cs, scale) ==
    [n |-> Total([c \in Criteria |-> IF c \in cs THEN levels[c] * WeightOf[c] ELSE 0]) * scale.n,
     d |-> Top * Weight * scale.d]

\* A slip the runs must notice: only what the machine has scored counts.
MachineScored(run, adjusted) ==
    Weighted(LevelsOf(run, adjusted), DOMAIN run.scores, run.scale)

\* _reviewed_evaluation: with the weights of the rubric once every criterion has
\* its level; before, what the machine has scored, with the weights it has there.
Reviewed(run, adjusted) ==
    LET levels == LevelsOf(run, adjusted) IN
    IF DOMAIN levels = Criteria
    THEN Weighted(levels, Criteria, [n |-> 1, d |-> 1])
    ELSE Weighted(levels, DOMAIN run.scores, run.scale)

\* A slip the runs must notice: only what a human will do is missing.
ForAHuman(run) == run.awaiting # {}

\* is_provisional
Provisional(run) == run.unscored # {} \/ run.awaiting # {}

\* final_score: a review that agrees with everything leaves the machine's total.
Evaluation ==
    IF review # None /\ DOMAIN review # {} THEN Reviewed(Latest, review) ELSE Latest.ratio

\* What the learner is shown: score_withheld, then final_score.
Shown ==
    IF ~IsRun(Latest) \/ (Provisional(Latest) /\ review = None) THEN None ELSE Evaluation

-----------------------------------------------------------------------------
(* What must be true of it                                                 *)

\* Grading in two phases gives what grading at once would have given, score
\* for score, whatever was reweighted in between; and the AI phase that
\* has_ai_work spares would have changed nothing.
TwoPhasesAgree ==
    /\ ai # None => ai = AtOnce(task, tests, judged)
    /\ IsRun(det) /\ ~HasAiWork(task, det) =>
         \A j \in Answers(ForTheAi(task), [level : Levels, sure : {TRUE}]) :
            AtOnce(task, tests, j) \in {det, Rejected}

\* What the levels of the form are worth by the rubric.
ByTheRubric == Total([c \in Criteria |-> given[c] * WeightOf[c]])

\* After an instructor has put the levels the total is the rubric's of just those
\* levels, though only those that differ are kept, and whether the machine had
\* scored, cut, missed or left a criterion to a human.
ReviewedIsTheRubric ==
    review # None => Shown.n * Top * Weight = ByTheRubric * Shown.d

\* A total that the learner has seen after the tests stays until an instructor
\* changes it: the AI phase has nothing to say about it.
ShownStays == [][Shown # None /\ review' = None => Shown' = Shown]_vars

\* One answer is enough for a grade: a phase fails only when nobody answered a
\* single criterion, however the gate, the human's criteria and what was missed
\* share the weights between them.
AnAnswerIsAGrade ==
    /\ det = Rejected => \A c \in Criteria : tests[c] = None
    /\ ai = Rejected => DOMAIN det.scores = {} /\ \A c \in Criteria : judged[c] = None

\* What Run leaves out because it cannot fail: renormalize's target and weights
\* are positive and at most the whole, the total is between 0 and 1, a criterion
\* has one reason to be without a score, a run without scores says why, and
\* what nobody has looked at goes to review.
Valid(run) ==
    LET scored == DOMAIN run.scores IN
    /\ run.scale.n > 0 /\ run.scale.d > 0
    /\ \A c \in scored : WeightOf[c] * run.scale.n <= Weight * run.scale.d
    /\ run.ratio.d > 0 /\ 0 <= run.ratio.n /\ run.ratio.n <= run.ratio.d
    /\ scored \cap (run.unscored \cup run.skipped \cup run.awaiting) = {}
    /\ run.unscored \cap (run.skipped \cup run.awaiting) = {} /\ run.skipped \cap run.awaiting = {}
    /\ scored \cup run.unscored \cup run.awaiting # {}
    /\ Provisional(run) => ~run.auto

RunsAreValid == \A run \in {det, ai} : IsRun(run) => Valid(run)

\* What the proofs add: what a phase has left is what its evaluators answered.
ScoringInv ==
    /\ task \in Task /\ unread \in BOOLEAN
    /\ det # None => /\ tests \in Answers(Tested(task), Levels)
                     /\ det = Deterministic(task, tests)
    /\ ai # None => /\ IsRun(det) /\ HasAiWork(task, det)
                    /\ judged \in Answers(ForTheAi(task), [level : Levels, sure : BOOLEAN])
                    /\ ai = OnBase(task, det, judged)
    /\ review # None => /\ given \in [Criteria -> Levels] /\ IsRun(Latest)
                        /\ HasAiWork(task, det) => ai # None
                        /\ review = [c \in Differs(given) |-> given[c]]

\* "What must fail is only that criteria which should have been graded were
\* answered by nobody": with an AI phase to come the first phase goes through.
OnlyTheUnansweredFail ==
    det = Rejected => \E c \in Criteria : task.by[c] = "test" /\ tests[c] = None

=============================================================================
