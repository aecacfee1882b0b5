---------------------------- MODULE ScoringProofs ----------------------------
(***************************************************************************)
(* What a phase leaves is what its evaluators answered, for any rubric;    *)
(* and from that the properties of the scoring.  The sums and the loop     *)
(* over the criteria are recursive functions: that they exist is shown by  *)
(* induction, and the induction by the least element of a set of numbers.  *)
(***************************************************************************)
EXTENDS Scoring, TLAPS, WellFoundedInduction

Less == {p \in Nat \X Nat : p[1] < p[2]}

LEMMA LessWellFounded == IsWellFoundedOn(Less, Nat)
BY NatLessThanWellFounded DEF OpToRel, Less

\* Induction over the members of a set.
LEMMA SetInduction ==
    ASSUME NEW P, 0 \in P, \A n \in Nat : n \in P => n + 1 \in P
    PROVE  Nat \subseteq P
<1> SUFFICES ASSUME Nat \ P # {} PROVE FALSE
  OBVIOUS
<1>1. PICK x \in Nat \ P : \A y \in Nat \ P : ~(<<y, x>> \in Less)
  BY LessWellFounded, WFMin
<1>2. x \in Nat /\ x # 0 /\ x - 1 \in Nat /\ x - 1 < x
  BY <1>1
<1>3. <<x - 1, x>> \in Less
  BY <1>2 DEF Less
<1>4. x - 1 \in P
  BY <1>1, <1>2, <1>3
<1>5. (x - 1) + 1 = x
  BY <1>2
<1> QED BY <1>1, <1>2, <1>4, <1>5

-----------------------------------------------------------------------------
(* Sums                                                                    *)

N == Len(WeightOf)

LEMMA Rubric ==
    /\ N \in Nat /\ N # 0 /\ Criteria = 1 .. N
    /\ \A c \in Criteria : WeightOf[c] \in Nat
    /\ Top \in Nat
BY ScoringAssumption DEF N, Criteria

\* The sums up to any criterion exist.
AddsUp(f, v, n) == f = [c \in 0 .. n |-> IF c = 0 THEN 0 ELSE f[c - 1] + v[c]]

LEMMA SumsExist ==
    ASSUME NEW v, NEW n \in Nat
    PROVE  \E f : AddsUp(f, v, n)
<1> DEFINE P == {m \in Nat : \E f : AddsUp(f, v, m)}
<1>1. 0 \in P
  <2>1. AddsUp([c \in 0 .. 0 |-> 0], v, 0)
    BY DEF AddsUp
  <2> QED BY <2>1
<1>2. ASSUME NEW m \in Nat, m \in P PROVE m + 1 \in P
  <2>1. PICK f : AddsUp(f, v, m)
    BY <1>2
  <2> DEFINE g == [c \in 0 .. m + 1 |-> IF c = m + 1 THEN f[m] + v[m + 1] ELSE f[c]]
  <2>2. ASSUME NEW c \in 0 .. m + 1
        PROVE  g[c] = IF c = 0 THEN 0 ELSE g[c - 1] + v[c]
    <3>1. CASE c = m + 1
      BY <3>1
    <3>2. CASE c \in 0 .. m
      <4>1. f[c] = IF c = 0 THEN 0 ELSE f[c - 1] + v[c]
        BY <2>1, <3>2 DEF AddsUp
      <4> QED BY <3>2, <4>1
    <3> QED BY <3>1, <3>2
  <2>3. g = [c \in 0 .. m + 1 |-> g[c]]
    OBVIOUS
  <2> HIDE DEF g
  <2>4. AddsUp(g, v, m + 1)
    BY <2>2, <2>3 DEF AddsUp
  <2> QED BY <2>4
<1> HIDE DEF P
<1>3. Nat \subseteq P
  BY <1>1, <1>2, SetInduction
<1> QED BY <1>3 DEF P

LEMMA UptoAdds ==
    ASSUME NEW v
    PROVE  /\ Upto(v)[0] = 0
           /\ \A c \in Criteria : Upto(v)[c] = Upto(v)[c - 1] + v[c]
<1> DEFINE f == Upto(v)
<1>1. Upto(v) = CHOOSE g : AddsUp(g, v, N)
  BY DEF Upto, AddsUp, N
<1>2. AddsUp(Upto(v), v, N)
  BY <1>1, SumsExist, Rubric
<1> HIDE DEF f
<1>3. f = [c \in 0 .. N |-> IF c = 0 THEN 0 ELSE f[c - 1] + v[c]]
  BY <1>2 DEF AddsUp, f
<1>4. f[0] = 0 /\ \A c \in 1 .. N : f[c] = f[c - 1] + v[c]
  BY <1>3, Rubric
<1> QED BY <1>4, Rubric DEF f

LEMMA TotalIsInt ==
    ASSUME NEW v, \A c \in Criteria : v[c] \in Int
    PROVE  Total(v) \in Int
<1> DEFINE P == {c \in Nat : c <= N => Upto(v)[c] \in Int}
<1>1. 0 \in P
  BY UptoAdds
<1>2. ASSUME NEW c \in Nat, c \in P PROVE c + 1 \in P
  <2>1. CASE c + 1 <= N
    <3>1. c + 1 \in Criteria /\ (c + 1) - 1 = c
      BY <2>1, Rubric
    <3>2. Upto(v)[c + 1] = Upto(v)[c] + v[c + 1]
      BY <3>1, UptoAdds
    <3> QED BY <1>2, <2>1, <3>1, <3>2, Rubric
  <2> QED BY <2>1
<1> HIDE DEF P
<1>3. N \in P
  BY <1>1, <1>2, SetInduction, Rubric
<1> QED BY <1>3, Rubric DEF P, Total, N

\* The sum of the sums is the sum of what they add up.
LEMMA TotalAdds ==
    ASSUME NEW u, NEW v, NEW w, \A c \in Criteria : u[c] \in Int /\ v[c] \in Int,
           \A c \in Criteria : w[c] = u[c] + v[c]
    PROVE  Total(w) = Total(u) + Total(v)
<1> DEFINE P == {c \in Nat : c <= N =>
                    /\ Upto(u)[c] \in Int /\ Upto(v)[c] \in Int
                    /\ Upto(w)[c] = Upto(u)[c] + Upto(v)[c]}
<1>1. 0 \in P
  BY UptoAdds
<1>2. ASSUME NEW c \in Nat, c \in P PROVE c + 1 \in P
  <2>1. CASE c + 1 <= N
    <3>1. c + 1 \in Criteria /\ (c + 1) - 1 = c
      BY <2>1, Rubric
    <3>2. /\ Upto(u)[c + 1] = Upto(u)[c] + u[c + 1]
          /\ Upto(v)[c + 1] = Upto(v)[c] + v[c + 1]
          /\ Upto(w)[c + 1] = Upto(w)[c] + w[c + 1]
      BY <3>1, UptoAdds
    <3>3. /\ Upto(u)[c] \in Int /\ Upto(v)[c] \in Int
          /\ Upto(w)[c] = Upto(u)[c] + Upto(v)[c]
      BY <1>2, <2>1, Rubric
    <3>4. u[c + 1] \in Int /\ v[c + 1] \in Int /\ w[c + 1] = u[c + 1] + v[c + 1]
      BY <3>1
    <3> QED BY <3>2, <3>3, <3>4
  <2> QED BY <2>1
<1> HIDE DEF P
<1>3. N \in P
  BY <1>1, <1>2, SetInduction, Rubric
<1> QED BY <1>3, Rubric DEF P, Total, N

\* Criteria share the weight between them.
LEMMA WeightsAdd ==
    ASSUME NEW cs \in SUBSET Criteria, NEW ds \in SUBSET Criteria, cs \cap ds = {}
    PROVE  /\ Weigh(cs) \in Int /\ Weigh(ds) \in Int
           /\ Weigh(cs \cup ds) = Weigh(cs) + Weigh(ds)
<1> DEFINE u == [c \in Criteria |-> IF c \in cs THEN WeightOf[c] ELSE 0]
           v == [c \in Criteria |-> IF c \in ds THEN WeightOf[c] ELSE 0]
           w == [c \in Criteria |-> IF c \in cs \cup ds THEN WeightOf[c] ELSE 0]
<1>1. \A c \in Criteria : u[c] \in Int /\ v[c] \in Int /\ w[c] = u[c] + v[c]
  BY Rubric
<1>2. Weigh(cs) = Total(u) /\ Weigh(ds) = Total(v) /\ Weigh(cs \cup ds) = Total(w)
  BY DEF Weigh
<1> HIDE DEF u, v, w
<1>3. Total(u) \in Int /\ Total(v) \in Int
  BY <1>1, TotalIsInt
<1>4. Total(w) = Total(u) + Total(v)
  BY <1>1, TotalAdds
<1> QED BY <1>2, <1>3, <1>4

\* Of terms that are not negative, each is at most the sum.
LEMMA TermInTotal ==
    ASSUME NEW v, NEW e \in Criteria, \A c \in Criteria : v[c] \in Nat
    PROVE  Total(v) \in Nat /\ v[e] <= Total(v)
<1> DEFINE P == {c \in Nat : c <= N => Upto(v)[c] \in Nat /\ (e <= c => v[e] <= Upto(v)[c])}
<1>0. e \in Nat /\ 0 < e /\ e <= N /\ N \in Nat /\ v[e] \in Nat
  BY Rubric
<1>1. 0 \in P
  BY <1>0, UptoAdds
<1>2. ASSUME NEW c \in Nat, c \in P PROVE c + 1 \in P
  <2>1. CASE c + 1 <= N
    <3>1. c + 1 \in Criteria /\ (c + 1) - 1 = c /\ c <= N
      BY <2>1, Rubric
    <3>2. Upto(v)[c + 1] = Upto(v)[c] + v[c + 1] /\ v[c + 1] \in Nat
      BY <3>1, UptoAdds
    <3>3. Upto(v)[c] \in Nat /\ (e <= c => v[e] <= Upto(v)[c])
      BY <1>2, <3>1
    <3>4. e <= c + 1 => e <= c \/ e = c + 1
      BY <1>0
    <3>5. Upto(v)[c + 1] \in Nat /\ v[c + 1] <= Upto(v)[c + 1] /\ Upto(v)[c] <= Upto(v)[c + 1]
      BY <3>2, <3>3
    <3> QED BY <1>0, <3>3, <3>4, <3>5
  <2> QED BY <2>1
<1> HIDE DEF P
<1>3. N \in P
  BY <1>1, <1>2, SetInduction, Rubric
<1> QED BY <1>0, <1>3 DEF P, Total, N

\* A criterion weighs something, and no more than any set it belongs to.
LEMMA WeightInSum ==
    ASSUME NEW cs \in SUBSET Criteria
    PROVE  /\ Weigh(cs) \in Nat
           /\ \A c \in cs : WeightOf[c] \in Nat /\ 0 < WeightOf[c] /\ WeightOf[c] <= Weigh(cs)
<1> DEFINE v == [c \in Criteria |-> IF c \in cs THEN WeightOf[c] ELSE 0]
<1>1. \A c \in Criteria : v[c] \in Nat /\ WeightOf[c] \in Nat \ {0}
  BY ScoringAssumption DEF Criteria
<1>2. Weigh(cs) = Total(v) /\ \A c \in cs : v[c] = WeightOf[c]
  BY DEF Weigh
<1>3. 1 \in Criteria
  BY Rubric
<1> HIDE DEF v
<1> QED BY <1>1, <1>2, <1>3, TermInTotal

\* Products in the order of their factors.
LEMMA ProductsInOrder ==
    /\ \A a, b, x \in Nat : a <= b => a * x <= b * x /\ x * a <= x * b
    /\ \A a, b, x \in Int : x * (a + b) = x * a + x * b
    /\ \A a, b \in Nat : a * b \in Nat /\ (0 < a /\ 0 < b => 0 < a * b)
<1>1. \A a, b, x \in Int : x * (a + b) = x * a + x * b
  OBVIOUS
<1>2. \A a, b \in Nat : a * b \in Nat /\ (0 < a /\ 0 < b => 0 < a * b)
  OBVIOUS
<1>3. ASSUME NEW a \in Nat, NEW b \in Nat, NEW x \in Nat, a <= b
      PROVE  a * x <= b * x /\ x * a <= x * b
  <2>1. PICK d \in Nat : b = a + d
    <3>1. b - a \in Nat /\ b = a + (b - a)
      BY <1>3
    <3> QED BY <3>1
  <2>2. x * b = x * a + x * d /\ x * d \in Nat /\ x * a \in Nat
    BY <1>1, <1>2, <2>1
  <2>3. a * x = x * a /\ b * x = x * b
    OBVIOUS
  <2> QED BY <2>2, <2>3
<1> QED BY <1>1, <1>2, <1>3

-----------------------------------------------------------------------------
(* The loop over the criteria                                              *)

NextScores(t, scores, answers, c, before) ==
    IF Asked(t, scores, c, before) /\ answers[c] # None
    THEN Judged(before, c, answers[c]) ELSE before

Loops(f, t, scores, answers, n) ==
    f = [c \in 0 .. n |-> IF c = 0 THEN scores ELSE NextScores(t, scores, answers, c, f[c - 1])]

LEMMA LoopsExist ==
    ASSUME NEW t, NEW scores, NEW answers, NEW n \in Nat
    PROVE  \E f : Loops(f, t, scores, answers, n)
<1> DEFINE P == {m \in Nat : \E f : Loops(f, t, scores, answers, m)}
           Step(c, before) == NextScores(t, scores, answers, c, before)
<1>1. 0 \in P
  <2>1. Loops([c \in 0 .. 0 |-> scores], t, scores, answers, 0)
    BY DEF Loops
  <2> QED BY <2>1
<1>2. ASSUME NEW m \in Nat, m \in P PROVE m + 1 \in P
  <2>1. PICK f : Loops(f, t, scores, answers, m)
    BY <1>2
  <2> DEFINE g == [c \in 0 .. m + 1 |-> IF c = m + 1 THEN Step(m + 1, f[m]) ELSE f[c]]
  <2> HIDE DEF Step
  <2>2. ASSUME NEW c \in 0 .. m + 1
        PROVE  g[c] = IF c = 0 THEN scores ELSE Step(c, g[c - 1])
    <3>1. CASE c = m + 1
      BY <3>1
    <3>2. CASE c \in 0 .. m
      <4>1. f[c] = IF c = 0 THEN scores ELSE Step(c, f[c - 1])
        BY <2>1, <3>2 DEF Loops, Step
      <4> QED BY <3>2, <4>1
    <3> QED BY <3>1, <3>2
  <2>3. g = [c \in 0 .. m + 1 |-> g[c]]
    OBVIOUS
  <2> HIDE DEF g
  <2>4. Loops(g, t, scores, answers, m + 1)
    BY <2>2, <2>3 DEF Loops, Step
  <2> QED BY <2>4
<1> HIDE DEF P
<1>3. Nat \subseteq P
  BY <1>1, <1>2, SetInduction
<1> QED BY <1>3 DEF P

LEMMA JudgingGoesOn ==
    ASSUME NEW t, NEW scores, NEW answers
    PROVE  /\ Judging(t, scores, answers)[0] = scores
           /\ \A c \in Criteria :
                Judging(t, scores, answers)[c] =
                    NextScores(t, scores, answers, c, Judging(t, scores, answers)[c - 1])
<1> DEFINE f == Judging(t, scores, answers)
           Step(c, before) == NextScores(t, scores, answers, c, before)
<1>1. Judging(t, scores, answers) = CHOOSE g : Loops(g, t, scores, answers, N)
  BY DEF Judging, Loops, NextScores, N
<1>2. Loops(Judging(t, scores, answers), t, scores, answers, N)
  BY <1>1, LoopsExist, Rubric
<1> HIDE DEF f, Step
<1>3. f = [c \in 0 .. N |-> IF c = 0 THEN scores ELSE Step(c, f[c - 1])]
  BY <1>2 DEF Loops, f, Step
<1>4. f[0] = scores /\ \A c \in 1 .. N : f[c] = Step(c, f[c - 1])
  BY <1>3, Rubric
<1> QED BY <1>4, Rubric DEF f, Step

\* If nobody is asked about what is scored already, the loop changes nothing.
LEMMA NobodyAsked ==
    ASSUME NEW t, NEW scores, NEW answers, \A c \in Criteria : ~Asked(t, scores, c, scores)
    PROVE  Judge(t, scores, answers) = scores
<1> DEFINE f == Judging(t, scores, answers)
           P == {c \in Nat : c <= N => f[c] = scores}
<1> HIDE DEF f
<1>0. f[0] = scores /\ \A c \in Criteria : f[c] = NextScores(t, scores, answers, c, f[c - 1])
  BY JudgingGoesOn DEF f
<1>1. 0 \in P
  BY <1>0
<1>2. ASSUME NEW c \in Nat, c \in P PROVE c + 1 \in P
  <2>1. CASE c + 1 <= N
    <3>1. c + 1 \in Criteria /\ (c + 1) - 1 = c /\ f[c] = scores
      BY <1>2, <2>1, Rubric
    <3>2. f[c + 1] = NextScores(t, scores, answers, c + 1, scores)
      BY <1>0, <3>1
    <3> QED BY <3>1, <3>2 DEF NextScores
  <2> QED BY <2>1
<1> HIDE DEF P
<1>3. N \in P
  BY <1>1, <1>2, SetInduction, Rubric
<1> QED BY <1>3, Rubric DEF P, Judge, f, N

\* The loop adds scores of criteria for the AI, and takes none away.
LEMMA JudgeAdds ==
    ASSUME NEW t, NEW scores \in Scores,
           NEW answers \in Answers(ForTheAi(t), [level : Levels, sure : BOOLEAN])
    PROVE  LET f == Judging(t, scores, answers) IN
           \A c \in 0 .. N : /\ f[c] \in Scores
                             /\ DOMAIN scores \subseteq DOMAIN f[c]
                             /\ DOMAIN f[c] \subseteq DOMAIN scores \cup ForTheAi(t)
                             /\ DOMAIN f[c] = {} => \A b \in 0 .. c : DOMAIN f[b] = {}
<1> DEFINE f == Judging(t, scores, answers)
           Good(c) == /\ f[c] \in Scores
                      /\ DOMAIN scores \subseteq DOMAIN f[c]
                      /\ DOMAIN f[c] \subseteq DOMAIN scores \cup ForTheAi(t)
                      /\ DOMAIN f[c] = {} => \A b \in 0 .. c : DOMAIN f[b] = {}
           P == {c \in Nat : c <= N => Good(c)}
<1> HIDE DEF f
<1>0. f[0] = scores /\ \A c \in Criteria : f[c] = NextScores(t, scores, answers, c, f[c - 1])
  BY JudgingGoesOn DEF f
<1>1. 0 \in P
  BY <1>0
<1>2. ASSUME NEW c \in Nat, c \in P PROVE c + 1 \in P
  <2>1. CASE c + 1 <= N
    <3>1. c + 1 \in Criteria /\ (c + 1) - 1 = c /\ Good(c)
      BY <1>2, <2>1, Rubric
    <3>2. f[c + 1] = NextScores(t, scores, answers, c + 1, f[c])
      BY <1>0, <3>1
    <3>3. CASE f[c + 1] = f[c]
      BY <3>1, <3>3
    <3>4. CASE /\ Asked(t, scores, c + 1, f[c]) /\ answers[c + 1] # None
               /\ f[c + 1] = Judged(f[c], c + 1, answers[c + 1])
      <4> DEFINE a == answers[c + 1]
      <4>1. c + 1 \in ForTheAi(t) /\ a \in [level : Levels, sure : BOOLEAN]
        BY <3>1, <3>4 DEF Asked, Answers
      <4>2. DOMAIN f[c + 1] = DOMAIN f[c] \cup {c + 1}
        BY <3>4 DEF Judged
      <4>3. PICK cs \in SUBSET Criteria : f[c] \in [cs -> Score]
        BY <3>1 DEF Scores
      <4>4. f[c + 1] \in [cs \cup {c + 1} -> Score]
        BY <3>4, <4>1, <4>3 DEF Judged, Score
      <4>5. f[c + 1] \in Scores
        BY <3>1, <4>4 DEF Scores
      <4> QED BY <3>1, <4>1, <4>2, <4>5
    <3> QED BY <3>2, <3>3, <3>4 DEF NextScores
  <2> QED BY <2>1
<1> HIDE DEF P
<1>3. Nat \subseteq P
  BY <1>1, <1>2, SetInduction
<1> QED BY <1>3 DEF P, f

-----------------------------------------------------------------------------
(* A run                                                                   *)

Whole == [n |-> 1, d |-> 1]

\* The parts of a run of these scores.
Scored(t, scores) == Kept(scores, GateSkipped(t, scores))
Awaiting(t, scores) == ByHuman(t) \ GateSkipped(t, scores)
Unscored(t, scores) ==
    Criteria \ (Scored(t, scores) \cup Awaiting(t, scores) \cup GateSkipped(t, scores))

\* Nobody answered, or the weights do not add up.
Fails(t, scores, scale, expected) ==
    \/ Scored(t, scores) = {} /\ expected /\ Awaiting(t, scores) # Criteria /\ ~unread
    \/ ~SumsUp(Scored(t, scores), Unscored(t, scores) # {} /\ Scored(t, scores) # {}, scale,
               ZeroWeight(Awaiting(t, scores), GateSkipped(t, scores)))

LEMMA PartsAreCriteria ==
    ASSUME NEW t, NEW scores \in Scores
    PROVE  /\ DOMAIN scores \subseteq Criteria
           /\ Scored(t, scores) \subseteq Criteria /\ Awaiting(t, scores) \subseteq Criteria
           /\ GateSkipped(t, scores) \subseteq Criteria /\ Unscored(t, scores) \subseteq Criteria
           /\ \A c \in DOMAIN scores : scores[c] \in Score
BY DEF Scores, Scored, Kept, Awaiting, ByHuman, Unscored, GateSkipped

LEMMA WorthIsInt ==
    ASSUME NEW scores \in Scores, NEW cs \in SUBSET DOMAIN scores
    PROVE  Worth(scores, cs) \in Int
<1> DEFINE v == [c \in Criteria |-> IF c \in cs THEN scores[c].level * WeightOf[c] ELSE 0]
<1>1. ASSUME NEW c \in Criteria PROVE v[c] \in Int
  <2>1. CASE c \in cs
    <3>1. scores[c].level \in Int /\ WeightOf[c] \in Int
      BY <2>1, PartsAreCriteria, Rubric DEF Score, Levels
    <3> QED BY <2>1, <3>1
  <2> QED BY <2>1
<1>2. Worth(scores, cs) = Total(v)
  BY DEF Worth
<1> HIDE DEF v
<1> QED BY <1>1, <1>2, TotalIsInt

\* No scored criterion is worth more than its weight at the highest level.
LEMMA WorthIsBounded ==
    ASSUME NEW scores \in Scores, NEW cs \in SUBSET DOMAIN scores
    PROVE  Worth(scores, cs) \in Nat /\ Worth(scores, cs) <= Top * Weigh(cs)
<1> DEFINE v == [c \in Criteria |-> IF c \in cs THEN scores[c].level * WeightOf[c] ELSE 0]
           w == [c \in Criteria |-> IF c \in cs THEN WeightOf[c] ELSE 0]
           P == {c \in Nat : c <= N => /\ Upto(v)[c] \in Nat /\ Upto(w)[c] \in Nat
                                       /\ Upto(v)[c] <= Top * Upto(w)[c]}
<1>1. Top \in Nat /\ N \in Nat
  BY Rubric
<1>2. ASSUME NEW c \in Criteria PROVE v[c] \in Nat /\ w[c] \in Nat /\ v[c] <= Top * w[c]
  <2>1. CASE c \in cs
    <3>0. scores[c] \in Score
      BY <2>1 DEF Scores
    <3>1. scores[c].level \in Nat /\ scores[c].level <= Top /\ WeightOf[c] \in Nat
      <4>1. scores[c].level \in 0 .. Top
        BY <3>0 DEF Score, Levels
      <4> HIDE DEF v, w, P
      <4> QED BY <4>1, Rubric
    <3>2. v[c] = scores[c].level * WeightOf[c] /\ w[c] = WeightOf[c]
      BY <2>1
    <3> QED BY <1>1, <3>1, <3>2, ProductsInOrder
  <2>2. CASE c \notin cs
    BY <1>1, <2>2
  <2> QED BY <2>1, <2>2
<1>3. Worth(scores, cs) = Total(v) /\ Weigh(cs) = Total(w)
  BY DEF Worth, Weigh
<1> HIDE DEF v, w
<1>4. 0 \in P
  BY <1>1, UptoAdds
<1>5. ASSUME NEW c \in Nat, c \in P PROVE c + 1 \in P
  <2>1. CASE c + 1 <= N
    <3>1. c + 1 \in Criteria /\ (c + 1) - 1 = c /\ c <= N
      BY <2>1, Rubric
    <3>2. /\ Upto(v)[c + 1] = Upto(v)[c] + v[c + 1]
          /\ Upto(w)[c + 1] = Upto(w)[c] + w[c + 1]
      BY <3>1, UptoAdds
    <3>3. /\ Upto(v)[c] \in Nat /\ Upto(w)[c] \in Nat
          /\ Upto(v)[c] <= Top * Upto(w)[c]
      BY <1>5, <3>1
    <3>4. v[c + 1] \in Nat /\ w[c + 1] \in Nat /\ v[c + 1] <= Top * w[c + 1]
      BY <1>2, <3>1
    <3>5. Top * (Upto(w)[c] + w[c + 1]) = Top * Upto(w)[c] + Top * w[c + 1]
      BY <1>1, <3>3, <3>4, ProductsInOrder
    <3>6. Top * Upto(w)[c] \in Nat /\ Top * w[c + 1] \in Nat
      BY <1>1, <3>3, <3>4, ProductsInOrder
    <3>7. Upto(v)[c + 1] <= Top * Upto(w)[c + 1]
      BY <3>2, <3>3, <3>4, <3>5, <3>6
    <3> QED BY <3>2, <3>3, <3>4, <3>7
  <2> QED BY <2>1
<1> HIDE DEF P
<1>6. N \in P
  BY <1>4, <1>5, SetInduction, Rubric
<1> QED BY <1>1, <1>3, <1>6 DEF P, Total, N

\* What Run leaves.
LEMMA RunIs ==
    ASSUME NEW t, NEW scores \in Scores, NEW scale \in Ratio, NEW expected
    PROVE  LET run == Run(t, scores, scale, expected) IN
           \/ Fails(t, scores, scale, expected) /\ run = Rejected
           \/ /\ ~Fails(t, scores, scale, expected) /\ run \in GradingRun
              /\ run.scores = [c \in Scored(t, scores) |-> scores[c]]
              /\ run.unscored = Unscored(t, scores)
              /\ run.skipped = GateSkipped(t, scores)
              /\ run.awaiting = Awaiting(t, scores)
              /\ Unscored(t, scores) = {} =>
                    run.ratio = [n |-> Worth(scores, Scored(t, scores)) * scale.n,
                                 d |-> Top * Weight * scale.d]
<1> DEFINE cut == GateSkipped(t, scores)
           scored == Scored(t, scores)
           awaiting == Awaiting(t, scores)
           unscored == Unscored(t, scores)
           zero == ZeroWeight(awaiting, cut)
           scaled == unscored # {} /\ scored # {}
           kept == [c \in scored |-> scores[c]]
           weights == IF scaled THEN [n |-> Weight - zero, d |-> Weigh(scored)] ELSE scale
           total == IF scaled
                    THEN [n |-> Worth(scores, scored) * (Weight - zero),
                          d |-> Top * Weight * Weigh(scored)]
                    ELSE [n |-> Worth(scores, scored) * scale.n, d |-> Top * Weight * scale.d]
           auto == unscored = {} /\ awaiting = {} /\ ~RequiresReview(kept, weights, total)
<1>1. Run(t, scores, scale, expected) =
         IF Fails(t, scores, scale, expected) THEN Rejected
         ELSE [scores |-> kept, scale |-> weights, ratio |-> total, unscored |-> unscored,
             skipped |-> cut, awaiting |-> awaiting, auto |-> auto]
  BY DEF Run, Fails, Scored, Awaiting, Unscored, Scale, TotalOf
<1>2. /\ scored \subseteq DOMAIN scores /\ scored \in SUBSET Criteria
      /\ awaiting \in SUBSET Criteria /\ cut \in SUBSET Criteria /\ unscored \in SUBSET Criteria
  BY PartsAreCriteria DEF Scored, Kept
<1>3. kept \in Scores
  BY <1>2, PartsAreCriteria DEF Scores
<1>4. Weight \in Int /\ Weigh(scored) \in Int /\ zero \in Int /\ Worth(scores, scored) \in Int
  <2>1. awaiting \cup cut \in SUBSET Criteria /\ {} \in SUBSET Criteria
        /\ Criteria \in SUBSET Criteria
    BY <1>2
  <2>2. \A cs \in SUBSET Criteria : Weigh(cs) \in Int
    BY <2>1, WeightsAdd
  <2>3. zero = Weigh(awaiting \cup cut)
    BY DEF ZeroWeight
  <2>4. Worth(scores, scored) \in Int
    BY <1>2, WorthIsInt
  <2> QED BY <1>2, <2>1, <2>2, <2>3, <2>4 DEF Weight
<1>5. weights \in Ratio /\ total \in Ratio
  <2> HIDE DEF zero, scored, unscored
  <2>1. /\ Top * Weight \in Int /\ Worth(scores, scored) * (Weight - zero) \in Int
        /\ Top * Weight * Weigh(scored) \in Int
    BY <1>4, Rubric
  <2>2. scale.n \in Int /\ scale.d \in Int
    BY DEF Ratio
  <2>3. Worth(scores, scored) * scale.n \in Int /\ Top * Weight * scale.d \in Int
    BY <1>4, <2>1, <2>2
  <2> QED BY <1>4, <2>1, <2>3 DEF Ratio
<1>6. auto \in BOOLEAN
  BY DEF RequiresReview
<1>7. unscored = {} => total = [n |-> Worth(scores, scored) * scale.n, d |-> Top * Weight * scale.d]
  OBVIOUS
<1> HIDE DEF cut, scored, awaiting, unscored, kept, weights, total, auto
<1>8. [scores |-> kept, scale |-> weights, ratio |-> total, unscored |-> unscored,
       skipped |-> cut, awaiting |-> awaiting, auto |-> auto] \in GradingRun
  BY <1>2, <1>3, <1>5, <1>6 DEF GradingRun
<1>9. kept = [c \in Scored(t, scores) |-> scores[c]]
  BY DEF kept, scored
<1> QED BY <1>1, <1>7, <1>8, <1>9 DEF cut, scored, awaiting, unscored

\* A run of these scores, its weights those of the rubric or spread over them.
RunOf(run, t, scores) ==
    /\ run \in GradingRun
    /\ run.scores = [c \in Scored(t, scores) |-> scores[c]]
    /\ run.unscored = Unscored(t, scores)
    /\ run.skipped = GateSkipped(t, scores)
    /\ run.awaiting = Awaiting(t, scores)
    /\ Unscored(t, scores) = {} =>
          run.ratio = [n |-> Worth(scores, Scored(t, scores)), d |-> Top * Weight]

LEMMA WholeRun ==
    ASSUME NEW t, NEW scores \in Scores, NEW expected
    PROVE  LET run == Run(t, scores, Whole, expected) IN
           \/ Fails(t, scores, Whole, expected) /\ run = Rejected
           \/ ~Fails(t, scores, Whole, expected) /\ RunOf(run, t, scores)
<1>1. Whole \in Ratio /\ Whole.n = 1 /\ Whole.d = 1
  BY DEF Whole, Ratio
<1>2. Weight \in Int /\ Worth(scores, Scored(t, scores)) \in Int
  <2>1. Scored(t, scores) \in SUBSET DOMAIN scores /\ {} \in SUBSET Criteria
    BY DEF Scored, Kept
  <2>2. Weigh(Criteria) \in Int
    BY <2>1, WeightsAdd
  <2> QED BY <2>1, <2>2, WorthIsInt DEF Weight
<1>3. Worth(scores, Scored(t, scores)) * 1 = Worth(scores, Scored(t, scores))
  BY <1>2
<1>4. Top * Weight * 1 = Top * Weight
  BY <1>2, Rubric
<1> QED BY <1>1, <1>3, <1>4, RunIs DEF RunOf

\* The gate leaves a score where there is one: what it cuts comes after a 0.
LEMMA GateLeavesOne ==
    ASSUME NEW t, NEW scores \in Scores, DOMAIN scores # {}
    PROVE  Scored(t, scores) # {}
<1>0. DOMAIN scores \subseteq 1 .. N /\ N \in Nat /\ Criteria = 1 .. N
  BY PartsAreCriteria, Rubric
<1>1. CASE GateSkipped(t, scores) = {}
  BY <1>1 DEF Scored, Kept
<1>2. CASE GateSkipped(t, scores) # {}
  <2>1. PICK c \in DOMAIN scores :
            /\ scores[c].level = 0
            /\ \A b \in Criteria : b < c => b \in DOMAIN scores /\ scores[b].level > 0
    BY <1>2 DEF GateSkipped
  <2>2. c \notin GateSkipped(t, scores)
    <3>1. SUFFICES ASSUME NEW b \in DOMAIN scores, b < c, scores[b].level = 0 PROVE FALSE
      BY DEF GateSkipped
    <3>2. scores[b].level > 0
      BY <1>0, <2>1, <3>1
    <3> QED BY <3>1, <3>2
  <2> QED BY <2>1, <2>2 DEF Scored, Kept
<1> QED BY <1>1, <1>2

\* One answer is enough: the weights add up, or are spread.
LEMMA OneIsEnough ==
    ASSUME NEW t, NEW scores \in Scores, NEW expected, DOMAIN scores # {},
           DOMAIN scores \cap ByHuman(t) = {}
    PROVE  Run(t, scores, Whole, expected) \in GradingRun
<1> DEFINE scored == Scored(t, scores)
           rest == Awaiting(t, scores) \cup GateSkipped(t, scores)
           unscored == Unscored(t, scores)
<1>1. scored # {} /\ scored \subseteq Criteria /\ rest \subseteq Criteria /\ scored \cap rest = {}
  BY GateLeavesOne, PartsAreCriteria DEF Scored, Kept, Awaiting
<1>2. SumsUp(scored, unscored # {} /\ scored # {}, Whole, Weigh(rest))
  <2>1. CASE unscored # {}
    BY <1>1, <2>1 DEF SumsUp
  <2>2. CASE unscored = {}
    <3>1. scored \cup rest = Criteria
      BY <1>1, <2>2 DEF Unscored
    <3>2. /\ Weigh(scored) \in Int /\ Weigh(rest) \in Int
          /\ Weigh(scored) + Weigh(rest) = Weight
      BY <1>1, <3>1, WeightsAdd DEF Weight
    <3> HIDE DEF scored, rest
    <3>3. Weigh(scored) * 1 + Weigh(rest) * 1 = Weight * 1
      BY <3>2
    <3>4. Weigh(scored) * Whole.n + Weigh(rest) * Whole.d = Weight * Whole.d
      BY <3>3 DEF Whole
    <3> QED BY <1>1, <3>4 DEF SumsUp
  <2> QED BY <2>1, <2>2
<1>3. ~Fails(t, scores, Whole, expected)
  BY <1>1, <1>2 DEF Fails, ZeroWeight
<1> QED BY <1>3, WholeRun DEF RunOf

\* What was expected makes a run fail, and no other difference.
LEMMA ExpectedOnlyFails ==
    ASSUME NEW t, NEW scores, NEW scale, NEW e, NEW x,
           Run(t, scores, scale, e) # Rejected, Run(t, scores, scale, x) # Rejected
    PROVE  Run(t, scores, scale, e) = Run(t, scores, scale, x)
BY DEF Run

LEMMA NotARun == \A run \in GradingRun : run # None /\ run # Rejected
BY NoneIsNothing

\* What is spread is positive, and no weight and no total exceeds the whole.
LEMMA WeightsShared ==
    ASSUME NEW scores \in Scores, NEW scored \in SUBSET DOMAIN scores,
           NEW rest \in SUBSET Criteria, scored \cap rest = {}
    PROVE  /\ Weight \in Nat /\ 0 < Weight
           /\ Weigh(scored) \in Nat /\ Weigh(scored) <= Weight
           /\ Weight - Weigh(rest) \in Nat /\ Weigh(rest) \in Nat
           /\ scored # {} => 0 < Weigh(scored) /\ 0 < Weight - Weigh(rest)
<1> DEFINE left == Criteria \ (scored \cup rest)
<1>1. /\ scored \in SUBSET Criteria /\ left \in SUBSET Criteria /\ Criteria \in SUBSET Criteria
      /\ scored \cup rest \in SUBSET Criteria /\ (scored \cup rest) \cap left = {}
      /\ (scored \cup rest) \cup left = Criteria
  BY PartsAreCriteria
<1>2. 1 \in Criteria
  BY Rubric
<1> HIDE DEF left
<1>3. /\ Weigh(scored) \in Nat /\ Weigh(rest) \in Nat /\ Weigh(left) \in Nat
      /\ Weight \in Nat /\ 0 < Weight /\ (scored # {} => 0 < Weigh(scored))
  BY <1>1, <1>2, WeightInSum DEF Weight
<1>4. Weigh(scored \cup rest) = Weigh(scored) + Weigh(rest)
  BY <1>1, WeightsAdd
<1>5. Weight = Weigh(scored \cup rest) + Weigh(left)
  BY <1>1, WeightsAdd DEF Weight
<1> QED BY <1>3, <1>4, <1>5

\* What a phase makes of scores none of which is a human's passes the validators.
LEMMA RunIsValid ==
    ASSUME NEW t, NEW scores \in Scores, NEW expected, DOMAIN scores \cap ByHuman(t) = {},
           IsRun(Run(t, scores, Whole, expected))
    PROVE  Valid(Run(t, scores, Whole, expected))
<1> DEFINE cut == GateSkipped(t, scores)
           scored == Scored(t, scores)
           awaiting == Awaiting(t, scores)
           unscored == Unscored(t, scores)
           zero == ZeroWeight(awaiting, cut)
           scaled == unscored # {} /\ scored # {}
           kept == [c \in scored |-> scores[c]]
           weights == IF scaled THEN [n |-> Weight - zero, d |-> Weigh(scored)] ELSE Whole
           total == IF scaled
                    THEN [n |-> Worth(scores, scored) * (Weight - zero),
                          d |-> Top * Weight * Weigh(scored)]
                    ELSE [n |-> Worth(scores, scored) * Whole.n, d |-> Top * Weight * Whole.d]
           auto == unscored = {} /\ awaiting = {} /\ ~RequiresReview(kept, weights, total)
           run == Run(t, scores, Whole, expected)
<1>1. run = [scores |-> kept, scale |-> weights, ratio |-> total, unscored |-> unscored,
             skipped |-> cut, awaiting |-> awaiting, auto |-> auto]
  BY DEF Run, IsRun, Scored, Awaiting, Unscored, Scale, TotalOf
<1>2. /\ scored \in SUBSET DOMAIN scores /\ scored \in SUBSET Criteria
      /\ awaiting \cup cut \in SUBSET Criteria /\ scored \cap (awaiting \cup cut) = {}
      /\ zero = Weigh(awaiting \cup cut)
  BY PartsAreCriteria DEF Scored, Kept, Awaiting, ZeroWeight
<1>3. /\ scored \cap (unscored \cup cut \cup awaiting) = {}
      /\ unscored \cap (cut \cup awaiting) = {} /\ cut \cap awaiting = {}
  BY <1>2 DEF Unscored, Awaiting
<1>4. scored \cup unscored \cup awaiting # {}
  <2>1. SUFFICES ASSUME scored = {}, unscored = {}, awaiting = {} PROVE FALSE
    OBVIOUS
  <2>2. 1 \in Criteria
    BY Rubric
  <2>3. cut # {}
    BY <2>1, <2>2 DEF Unscored
  <2>4. DOMAIN scores # {}
    BY <2>3 DEF GateSkipped
  <2> QED BY <2>1, <2>4, GateLeavesOne
<1>5. (unscored # {} \/ awaiting # {}) => ~auto
  OBVIOUS
<1> HIDE DEF cut, scored, awaiting, unscored, zero, auto
<1>6. /\ Weight \in Nat /\ 0 < Weight
      /\ Weigh(scored) \in Nat /\ Weigh(scored) <= Weight
      /\ Weight - zero \in Nat /\ Weight - zero <= Weight
      /\ scored # {} => 0 < Weigh(scored) /\ 0 < Weight - zero
  BY <1>2, WeightsShared
<1>7. Whole.n = 1 /\ Whole.d = 1
  BY DEF Whole
<1>8. weights.n \in Nat /\ weights.n > 0 /\ weights.d > 0
  BY <1>6, <1>7
<1>9. ASSUME NEW c \in scored PROVE WeightOf[c] * weights.n <= Weight * weights.d
  <2>1. WeightOf[c] \in Nat /\ WeightOf[c] <= Weigh(scored)
    BY <1>2, WeightInSum
  <2>2. CASE scaled
    <3>1. weights.n = Weight - zero /\ weights.d = Weigh(scored)
      BY <2>2
    <3>2. WeightOf[c] * (Weight - zero) <= Weigh(scored) * (Weight - zero)
      BY <1>6, <2>1, ProductsInOrder
    <3>3. Weigh(scored) * (Weight - zero) <= Weigh(scored) * Weight
      BY <1>6, ProductsInOrder
    <3>4. Weigh(scored) * Weight = Weight * Weigh(scored)
      BY <1>6
    <3>5. /\ WeightOf[c] * (Weight - zero) \in Nat /\ Weigh(scored) * (Weight - zero) \in Nat
          /\ Weigh(scored) * Weight \in Nat
      BY <1>6, <2>1, ProductsInOrder
    <3> QED BY <3>1, <3>2, <3>3, <3>4, <3>5
  <2>3. CASE ~scaled
    <3>1. weights.n = 1 /\ weights.d = 1
      BY <1>7, <2>3
    <3>2. WeightOf[c] * 1 = WeightOf[c] /\ Weight * 1 = Weight
      BY <1>6, <2>1
    <3> QED BY <1>6, <2>1, <3>1, <3>2
  <2> QED BY <2>2, <2>3
<1>10. total.d > 0 /\ 0 <= total.n /\ total.n <= total.d
  <2> DEFINE worth == Worth(scores, scored)
  <2>1. worth \in Nat /\ worth <= Top * Weigh(scored) /\ Top \in Nat /\ 0 < Top
    BY <1>2, WorthIsBounded, ScoringAssumption
  <2>2. Top * Weight \in Nat /\ 0 < Top * Weight /\ Top * Weigh(scored) \in Nat
        /\ Top * Weigh(scored) <= Top * Weight
    BY <1>6, <2>1, ProductsInOrder
  <2> HIDE DEF worth
  <2>3. CASE scaled
    <3>1. total.n = worth * (Weight - zero) /\ total.d = Top * Weight * Weigh(scored)
      BY <2>3 DEF worth
    <3>2. worth * (Weight - zero) <= Top * Weigh(scored) * (Weight - zero)
      BY <1>6, <2>1, <2>2, ProductsInOrder
    <3>3. Top * Weigh(scored) * (Weight - zero) <= Top * Weigh(scored) * Weight
      BY <1>6, <2>2, ProductsInOrder
    <3>4. Top * Weigh(scored) * Weight = Top * Weight * Weigh(scored)
      BY <1>6, <2>1
    <3>5. /\ worth * (Weight - zero) \in Nat /\ Top * Weigh(scored) * (Weight - zero) \in Nat
          /\ Top * Weight * Weigh(scored) \in Nat /\ 0 < Top * Weight * Weigh(scored)
      BY <1>6, <2>1, <2>2, <2>3, ProductsInOrder
    <3> QED BY <3>1, <3>2, <3>3, <3>4, <3>5
  <2>4. CASE ~scaled
    <3>1. total.n = worth * 1 /\ total.d = Top * Weight * 1
      BY <1>7, <2>4 DEF worth
    <3>2. worth * 1 = worth /\ Top * Weight * 1 = Top * Weight
      BY <2>1, <2>2
    <3> QED BY <2>1, <2>2, <3>1, <3>2
  <2> QED BY <2>3, <2>4
<1> HIDE DEF weights, total
<1>11. /\ DOMAIN run.scores = scored /\ run.scale = weights /\ run.ratio = total
       /\ run.unscored = unscored /\ run.skipped = cut /\ run.awaiting = awaiting
       /\ run.auto = auto
  BY <1>1
<1> HIDE DEF run
<1>12. Valid(run)
  BY <1>3, <1>4, <1>5, <1>8, <1>9, <1>10, <1>11 DEF Valid, Provisional
<1> QED BY <1>12 DEF run

-----------------------------------------------------------------------------
(* Two phases, and a review                                                *)

\* What the tests answer is settled, and is never a human's.
LEMMA TestsAnswer ==
    ASSUME NEW t \in Task, NEW a \in Answers(Tested(t), Levels)
    PROVE  /\ Answered(t, a) \in Scores
           /\ DOMAIN Answered(t, a) = {c \in Tested(t) : a[c] # None}
           /\ \A c \in DOMAIN Answered(t, a) : Answered(t, a)[c].settled
           /\ DOMAIN Answered(t, a) \cap ByHuman(t) = {}
<1> DEFINE cs == {c \in Tested(t) : a[c] # None}
<1>1. cs \subseteq Criteria /\ \A c \in cs : a[c] \in Levels
  BY DEF Tested, FirstOf, Answers
<1>2. Answered(t, a) = [c \in cs |-> [level |-> a[c], sure |-> TRUE, settled |-> TRUE]]
  BY DEF Answered
<1>3. Answered(t, a) \in [cs -> Score]
  BY <1>1, <1>2 DEF Score
<1>4. cs \cap ByHuman(t) = {}
  BY DEF Tested, FirstOf, ByHuman
<1> HIDE DEF cs
<1>5. Answered(t, a) \in Scores
  BY <1>1, <1>3 DEF Scores
<1> QED BY <1>2, <1>4, <1>5 DEF cs

\* A first phase that is done.
LEMMA FirstPhase ==
    ASSUME ScoringInv, det # None
    PROVE  LET scores == Answered(task, tests)
               expected == \E c \in Criteria : task.by[c] = "test"
           IN
           /\ task \in Task /\ scores \in Scores
           /\ \A c \in DOMAIN scores : scores[c].settled
           /\ DOMAIN scores \cap ByHuman(task) = {}
           /\ det = Run(task, scores, Whole, expected)
           /\ IsRun(det) => RunOf(det, task, scores)
<1> DEFINE scores == Answered(task, tests)
           expected == \E c \in Criteria : task.by[c] = "test"
<1>1. task \in Task /\ tests \in Answers(Tested(task), Levels)
      /\ det = Run(task, scores, Whole, expected)
  BY DEF ScoringInv, Deterministic, Whole
<1>2. /\ scores \in Scores /\ \A c \in DOMAIN scores : scores[c].settled
      /\ DOMAIN scores \cap ByHuman(task) = {}
  BY <1>1, TestsAnswer
<1> HIDE DEF scores, expected
<1>3. IsRun(det) => RunOf(det, task, scores)
  BY <1>1, <1>2, WholeRun DEF IsRun
<1> QED BY <1>1, <1>2, <1>3 DEF scores, expected

\* Where something is left to the AI the gate has cut nothing.
LEMMA WorkIsUncut ==
    ASSUME NEW t \in Task, NEW scores \in Scores, NEW run, RunOf(run, t, scores), HasAiWork(t, run),
           \A c \in DOMAIN scores : scores[c].settled
    PROVE  GateSkipped(t, scores) = {} /\ run.scores = scores
<1>0. Criteria = 1 .. N /\ N \in Nat /\ DOMAIN scores \subseteq Criteria
  BY Rubric, PartsAreCriteria
<1>1. PICK c \in Criteria : /\ ~(c \in DOMAIN run.scores /\ run.scores[c].settled)
                            /\ c \notin run.skipped
  BY DEF HasAiWork
<1>2. ASSUME GateSkipped(t, scores) # {} PROVE FALSE
  <2>1. PICK d \in DOMAIN scores :
            /\ t.gate /\ scores[d].level = 0
            /\ \A b \in Criteria : b < d => b \in DOMAIN scores /\ scores[b].level > 0
    BY <1>2 DEF GateSkipped
  <2>2. c \notin GateSkipped(t, scores) /\ run.scores = [x \in Scored(t, scores) |-> scores[x]]
    BY <1>1 DEF RunOf
  <2>3. ~(d < c)
    BY <2>1, <2>2 DEF GateSkipped
  <2>4. c \in DOMAIN scores
    BY <1>0, <2>1, <2>3
  <2>5. c \in Scored(t, scores)
    BY <2>2, <2>4 DEF Scored, Kept
  <2> QED BY <1>1, <2>2, <2>4, <2>5
<1>3. scores = [x \in DOMAIN scores |-> scores[x]]
  BY DEF Scores
<1> QED BY <1>2, <1>3 DEF RunOf, Scored, Kept

\* A second phase continues with all that the tests have answered.
LEMMA SecondPhase ==
    ASSUME ScoringInv, ai # None
    PROVE  LET before == Answered(task, tests)
               scores == Judge(task, before, judged)
           IN
           /\ task.judge /\ det.scores = before /\ scores \in Scores
           /\ DOMAIN before \subseteq DOMAIN scores
           /\ DOMAIN scores \cap ByHuman(task) = {}
           /\ ai = Run(task, scores, Whole, TRUE)
           /\ IsRun(ai) => RunOf(ai, task, scores)
<1> DEFINE before == Answered(task, tests)
           scores == Judge(task, before, judged)
<1>1. /\ IsRun(det) /\ HasAiWork(task, det)
      /\ judged \in Answers(ForTheAi(task), [level : Levels, sure : BOOLEAN])
      /\ ai = OnBase(task, det, judged) /\ det # None
  BY DEF ScoringInv, IsRun
<1>2. /\ task \in Task /\ before \in Scores /\ RunOf(det, task, before)
      /\ \A c \in DOMAIN before : before[c].settled
      /\ DOMAIN before \cap ByHuman(task) = {}
  BY <1>1, FirstPhase
<1> HIDE DEF before
<1>3. det.scores = before
  BY <1>1, <1>2, WorkIsUncut
<1>4. /\ scores \in Scores /\ DOMAIN before \subseteq DOMAIN scores
      /\ DOMAIN scores \subseteq DOMAIN before \cup ForTheAi(task)
  <2>1. N \in 0 .. N
    BY Rubric
  <2> QED BY <1>1, <1>2, <2>1, JudgeAdds DEF Judge, N
<1>5. DOMAIN scores \cap ByHuman(task) = {}
  BY <1>2, <1>4 DEF ForTheAi, ByHuman
<1>6. ai = Run(task, scores, Whole, TRUE)
  BY <1>1, <1>3 DEF OnBase, Carried, Whole
<1>7. IsRun(ai) => RunOf(ai, task, scores)
  BY <1>4, <1>6, WholeRun DEF IsRun
<1>8. task.judge
  BY <1>1 DEF HasAiWork
<1> QED BY <1>3, <1>4, <1>5, <1>6, <1>7, <1>8 DEF before

LEMMA InvKept == ScoringInv /\ [Next]_vars => ScoringInv'
<1> SUFFICES ASSUME ScoringInv, [Next]_vars PROVE ScoringInv'
  OBVIOUS
<1>1. CASE GradeTests
  <2>1. ~IsRun(det) /\ ai = None
    BY <1>1 DEF GradeTests, ScoringInv, IsRun
  <2>2. review = None
    BY <2>1 DEF ScoringInv, Latest, IsRun
  <2>3. task \in Task
    BY DEF ScoringInv
  <2> QED BY <1>1, <2>1, <2>2, <2>3 DEF GradeTests, ScoringInv, Deterministic, Run
<1>2. CASE GradeAi
  <2>1. det # None /\ IsRun(det) /\ UNCHANGED <<task, unread, tests, det, review, given>>
    BY <1>2 DEF GradeAi, IsRun
  <2>2. /\ task \in Task /\ unread \in BOOLEAN
        /\ tests \in Answers(Tested(task), Levels) /\ det = Deterministic(task, tests)
        /\ review = None
    BY <1>2, <2>1 DEF ScoringInv, GradeAi
  <2>3. /\ HasAiWork(task, det) /\ ai' = OnBase(task, det, judged')
        /\ judged' \in Answers(ForTheAi(task), [level : Levels, sure : BOOLEAN])
    BY <1>2 DEF GradeAi
  <2>4. Deterministic(task, tests)' = Deterministic(task, tests)
        /\ OnBase(task, det, judged)' = OnBase(task, det, judged')
    BY <2>1 DEF Deterministic, OnBase, Run
  <2> QED BY <2>1, <2>2, <2>3, <2>4 DEF ScoringInv, IsRun
<1>3. CASE Finalize
  <2>1. UNCHANGED <<task, unread, tests, judged, det, ai>>
    BY <1>3 DEF Finalize
  <2>2. /\ Deterministic(task, tests)' = Deterministic(task, tests)
        /\ OnBase(task, det, judged)' = OnBase(task, det, judged)
        /\ Latest' = Latest
    BY <2>1 DEF Deterministic, OnBase, Run, Latest
  <2>3. /\ given' \in [Criteria -> Levels] /\ IsRun(Latest)
        /\ HasAiWork(task, det) => ai # None
        /\ review' = [c \in Differs(given') |-> given'[c]]
    BY <1>3 DEF Finalize
  <2>4. \A levels : Differs(levels)' = Differs(levels')
    BY <2>2 DEF Differs
  <2> QED BY <2>1, <2>2, <2>3, <2>4 DEF ScoringInv, IsRun
<1>4. CASE UNCHANGED vars
  <2>1. /\ Deterministic(task, tests)' = Deterministic(task, tests)
        /\ OnBase(task, det, judged)' = OnBase(task, det, judged)
        /\ Latest' = Latest
    BY <1>4 DEF vars, Deterministic, OnBase, Run, Latest
  <2> QED BY <1>4, <2>1 DEF vars, ScoringInv, Differs
<1> QED BY <1>1, <1>2, <1>3, <1>4 DEF Next

LEMMA OneAnswerGrades == ScoringInv => AnAnswerIsAGrade
<1> SUFFICES ASSUME ScoringInv PROVE AnAnswerIsAGrade
  OBVIOUS
<1>1. ASSUME det = Rejected, NEW c \in Criteria PROVE tests[c] = None
  <2> DEFINE scores == Answered(task, tests)
  <2>1. det # None
    BY <1>1, NoneIsNothing
  <2>2. /\ scores \in Scores /\ DOMAIN scores \cap ByHuman(task) = {}
        /\ det = Run(task, scores, Whole, \E x \in Criteria : task.by[x] = "test")
    BY <2>1, FirstPhase
  <2>3. DOMAIN scores = {}
    <3> HIDE DEF scores
    <3> QED BY <1>1, <2>2, OneIsEnough, NotARun
  <2>4. tests \in Answers(Tested(task), Levels)
    BY <2>1 DEF ScoringInv
  <2> QED BY <2>3, <2>4 DEF Answered, Answers
<1>2. ASSUME ai = Rejected
      PROVE  DOMAIN det.scores = {} /\ \A c \in Criteria : judged[c] = None
  <2> DEFINE before == Answered(task, tests)
             f == Judging(task, before, judged)
  <2>1. ai # None
    BY <1>2, NoneIsNothing
  <2>2. /\ task.judge /\ det.scores = before /\ Judge(task, before, judged) \in Scores
        /\ DOMAIN before \subseteq DOMAIN Judge(task, before, judged)
        /\ DOMAIN Judge(task, before, judged) \cap ByHuman(task) = {}
        /\ ai = Run(task, Judge(task, before, judged), Whole, TRUE)
    BY <2>1, SecondPhase
  <2>3. DOMAIN Judge(task, before, judged) = {}
    BY <1>2, <2>2, OneIsEnough, NotARun
  <2>4. /\ judged \in Answers(ForTheAi(task), [level : Levels, sure : BOOLEAN])
        /\ before \in Scores
    BY <2>1, FirstPhase DEF ScoringInv, IsRun
  <2> HIDE DEF before, f
  <2>5. \A c \in 0 .. N : DOMAIN f[c] = {}
    <3>1. DOMAIN f[N] = {} /\ N \in 0 .. N
      BY <2>3, Rubric DEF Judge, f, N
    <3> QED BY <2>4, <3>1, JudgeAdds DEF f
  <2>6. ASSUME NEW c \in Criteria, judged[c] # None PROVE FALSE
    <3>1. c \in ForTheAi(task) /\ c - 1 \in 0 .. N /\ c \in 0 .. N
      BY <2>4, <2>6, Rubric DEF Answers
    <3>2. c \notin GateSkipped(task, f[c - 1])
      BY <2>5, <3>1 DEF GateSkipped
    <3>3. Asked(task, before, c, f[c - 1])
      BY <2>2, <2>3, <3>1, <3>2 DEF Asked
    <3>4. f[c] = Judged(f[c - 1], c, judged[c])
      BY <2>6, <3>3, JudgingGoesOn DEF f, NextScores
    <3>5. c \in DOMAIN f[c]
      BY <3>4 DEF Judged
    <3> QED BY <2>5, <3>1, <3>5
  <2> QED BY <2>2, <2>3, <2>6
<1> QED BY <1>1, <1>2 DEF AnAnswerIsAGrade

LEMMA PhasesAgree == ScoringInv => TwoPhasesAgree
<1> SUFFICES ASSUME ScoringInv PROVE TwoPhasesAgree
  OBVIOUS
<1>1. ASSUME ai # None PROVE ai = AtOnce(task, tests, judged)
  BY <1>1, SecondPhase DEF AtOnce, Whole
<1>2. ASSUME IsRun(det), ~HasAiWork(task, det), NEW j
      PROVE  AtOnce(task, tests, j) \in {det, Rejected}
  <2> DEFINE scores == Answered(task, tests)
             expected == \E c \in Criteria : task.by[c] = "test"
  <2>1. det # None
    BY <1>2 DEF IsRun
  <2>2. /\ scores \in Scores /\ \A c \in DOMAIN scores : scores[c].settled
        /\ det = Run(task, scores, Whole, expected) /\ RunOf(det, task, scores)
    BY <1>2, <2>1, FirstPhase
  <2>3. AtOnce(task, tests, j) = Run(task, Judge(task, scores, j), Whole, TRUE)
    BY DEF AtOnce, Whole
  <2> HIDE DEF scores, expected
  <2>4. ASSUME NEW c \in Criteria PROVE ~Asked(task, scores, c, scores)
    <3>1. GateSkipped(task, det.scores) \subseteq GateSkipped(task, scores)
      <4>1. DOMAIN det.scores \subseteq DOMAIN scores
            /\ \A x \in DOMAIN det.scores : det.scores[x] = scores[x]
        BY <2>2 DEF RunOf, Scored, Kept
      <4> QED BY <4>1 DEF GateSkipped
    <3>2. c \in DOMAIN det.scores => c \in DOMAIN scores
      BY <2>2 DEF RunOf, Scored, Kept
    <3>3. det.skipped = GateSkipped(task, scores)
      BY <2>2 DEF RunOf
    <3> QED BY <1>2, <2>2, <3>1, <3>2, <3>3 DEF Asked, HasAiWork, ForTheAi
  <2>5. Judge(task, scores, j) = scores
    BY <2>4, NobodyAsked
  <2>6. CASE AtOnce(task, tests, j) # Rejected
    <3>1. Run(task, scores, Whole, TRUE) # Rejected /\ Run(task, scores, Whole, expected) # Rejected
      BY <1>2, <2>2, <2>3, <2>5, <2>6 DEF IsRun
    <3>2. Run(task, scores, Whole, TRUE) = Run(task, scores, Whole, expected)
      BY <3>1, ExpectedOnlyFails
    <3> QED BY <2>2, <2>3, <2>5, <3>2
  <2> QED BY <2>6
<1> QED BY <1>1, <1>2 DEF TwoPhasesAgree

LEMMA PhasesAreValid == ScoringInv => RunsAreValid
<1> SUFFICES ASSUME ScoringInv PROVE RunsAreValid
  OBVIOUS
<1>1. IsRun(det) => Valid(det)
  BY FirstPhase, RunIsValid DEF IsRun
<1>2. IsRun(ai) => Valid(ai)
  BY SecondPhase, RunIsValid DEF IsRun
<1> QED BY <1>1, <1>2 DEF RunsAreValid

\* The run that is shown is one of the scores of its phase.
LEMMA LatestIsRun ==
    ASSUME ScoringInv, IsRun(Latest)
    PROVE  \E scores \in Scores : RunOf(Latest, task, scores)
<1>1. CASE IsRun(ai)
  BY <1>1, SecondPhase DEF Latest, IsRun
<1>2. CASE ~IsRun(ai)
  BY <1>2, FirstPhase DEF Latest, IsRun
<1> QED BY <1>1, <1>2

\* What is kept of the form and the machine's levels are the levels of the form.
LEMMA FormIsRestored ==
    ASSUME ScoringInv, review # None
    PROVE  /\ DOMAIN LevelsOf(Latest, review) = Criteria
           /\ \A c \in Criteria : LevelsOf(Latest, review)[c] = given[c]
<1>1. IsRun(Latest) /\ review = [c \in Differs(given) |-> given[c]]
  BY DEF ScoringInv
<1>2. PICK scores \in Scores : RunOf(Latest, task, scores)
  BY <1>1, LatestIsRun
<1>3. DOMAIN Latest.scores \subseteq Criteria
  BY <1>2, PartsAreCriteria DEF RunOf
<1>4. DOMAIN review = Differs(given) /\ \A c \in Differs(given) : review[c] = given[c]
  BY <1>1
<1>5. \A c \in Criteria :
        c \notin Differs(given) => /\ c \in DOMAIN Latest.scores
                                  /\ Latest.scores[c].level = given[c]
  BY DEF Differs
<1>6. DOMAIN Latest.scores \cup DOMAIN review = Criteria
  BY <1>3, <1>4, <1>5 DEF Differs
<1> QED BY <1>4, <1>5, <1>6 DEF LevelsOf

LEMMA ReviewCounts == ScoringInv => ReviewedIsTheRubric
<1> SUFFICES ASSUME ScoringInv, review # None
             PROVE  Shown.n * Top * Weight = ByTheRubric * Shown.d
  BY DEF ReviewedIsTheRubric
<1>1. given \in [Criteria -> Levels] /\ IsRun(Latest) /\ DOMAIN review = Differs(given)
  BY DEF ScoringInv
<1>2. Shown = Evaluation
  BY <1>1 DEF Shown
<1>3. Weight \in Int /\ Top \in Int /\ ByTheRubric \in Int
  <2>0. {} \in SUBSET Criteria /\ Criteria \cap {} = {}
    OBVIOUS
  <2>1. Weigh(Criteria) \in Int
    BY <2>0, WeightsAdd
  <2> DEFINE v == [c \in Criteria |-> given[c] * WeightOf[c]]
  <2>2. \A c \in Criteria : v[c] \in Int
    BY <1>1, Rubric DEF Levels
  <2>3. ByTheRubric = Total(v)
    BY DEF ByTheRubric
  <2> HIDE DEF v
  <2> QED BY <2>1, <2>2, <2>3, TotalIsInt, Rubric DEF Weight
<1>4. Evaluation = [n |-> ByTheRubric, d |-> Top * Weight]
  <2>1. CASE DOMAIN review # {}
    <3> DEFINE levels == LevelsOf(Latest, review)
               v == [c \in Criteria |-> IF c \in Criteria THEN levels[c] * WeightOf[c] ELSE 0]
               w == [c \in Criteria |-> given[c] * WeightOf[c]]
    <3>1. DOMAIN levels = Criteria /\ v = w
      BY FormIsRestored
    <3>2. Evaluation = Weighted(levels, Criteria, [n |-> 1, d |-> 1])
      BY <2>1, <3>1 DEF Evaluation, Reviewed
    <3>3. Weighted(levels, Criteria, [n |-> 1, d |-> 1])
             = [n |-> Total(v) * 1, d |-> Top * Weight * 1]
      BY DEF Weighted
    <3>4. Total(v) = ByTheRubric
      BY <3>1 DEF ByTheRubric
    <3>5. ByTheRubric * 1 = ByTheRubric /\ Top * Weight * 1 = Top * Weight
      BY <1>3
    <3> HIDE DEF v, w, levels
    <3> QED BY <3>2, <3>3, <3>4, <3>5
  <2>2. CASE DOMAIN review = {}
    <3>1. PICK scores \in Scores : RunOf(Latest, task, scores)
      BY <1>1, LatestIsRun
    <3>2. \A c \in Criteria : c \in DOMAIN Latest.scores /\ Latest.scores[c].level = given[c]
      BY <1>1, <2>2 DEF Differs
    <3>3. /\ Criteria \subseteq Scored(task, scores)
          /\ \A c \in Criteria : scores[c].level = given[c]
      BY <3>1, <3>2 DEF RunOf
    <3>4. Unscored(task, scores) = {}
      BY <3>3 DEF Unscored
    <3>5. Latest.ratio = [n |-> Worth(scores, Scored(task, scores)), d |-> Top * Weight]
      BY <3>1, <3>4 DEF RunOf
    <3> DEFINE v == [c \in Criteria |-> IF c \in Scored(task, scores)
                                        THEN scores[c].level * WeightOf[c] ELSE 0]
               w == [c \in Criteria |-> given[c] * WeightOf[c]]
    <3>6. v = w
      BY <3>3
    <3>7. Worth(scores, Scored(task, scores)) = Total(v) /\ ByTheRubric = Total(w)
      BY DEF Worth, ByTheRubric
    <3> QED BY <2>2, <3>5, <3>6, <3>7 DEF Evaluation
  <2> QED BY <2>1, <2>2
<1>5. ByTheRubric * Top * Weight = ByTheRubric * (Top * Weight)
  BY <1>3
<1> QED BY <1>2, <1>4, <1>5

LEMMA NothingMoves ==
    ASSUME ScoringInv, [Next]_vars, Shown # None, review' = None
    PROVE  Shown' = Shown
<1>1. IsRun(Latest) /\ (Provisional(Latest) => review # None)
  BY DEF Shown
<1>2. ~GradeTests
  BY <1>1 DEF GradeTests, ScoringInv, Latest, IsRun
<1>3. ~Finalize
  <2>1. SUFFICES ASSUME NEW levels \in [Criteria -> Levels],
                        review' = [c \in Differs(levels) |-> levels[c]]
                 PROVE  FALSE
    BY DEF Finalize
  <2>2. review' \in [Differs(levels) -> Levels] /\ Differs(levels) \in SUBSET Criteria
    BY <2>1 DEF Differs
  <2> QED BY <2>2, NoneIsNothing
<1>4. ASSUME GradeAi PROVE FALSE
  <2> DEFINE scores == Answered(task, tests)
  <2>1. IsRun(det) /\ det # None /\ Latest = det /\ ~Provisional(det) /\ HasAiWork(task, det)
    BY <1>1, <1>4 DEF GradeAi, Latest, IsRun
  <2>2. /\ task \in Task /\ scores \in Scores /\ RunOf(det, task, scores)
        /\ \A c \in DOMAIN scores : scores[c].settled
    BY <2>1, FirstPhase
  <2> HIDE DEF scores
  <2>3. GateSkipped(task, scores) = {} /\ det.scores = scores
    BY <2>1, <2>2, WorkIsUncut
  <2>4. Unscored(task, scores) = {} /\ Awaiting(task, scores) = {}
    BY <2>1, <2>2 DEF Provisional, RunOf
  <2>5. Criteria \subseteq DOMAIN scores
    BY <2>3, <2>4 DEF Unscored, Scored, Kept
  <2> QED BY <2>1, <2>2, <2>3, <2>5 DEF HasAiWork
<1>5. UNCHANGED vars
  BY <1>2, <1>3, <1>4 DEF Next
<1> QED BY <1>5 DEF vars, Shown, Latest, Provisional, Evaluation, Reviewed, LevelsOf, Weighted

-----------------------------------------------------------------------------
(* What holds of every behaviour                                           *)

\* Whatever the evaluators answer, a run is what its phase makes of their
\* answers, and the second phase comes only where the first left it something
\* (GradingPipeline.run, GradingWorker._grade).
THEOREM ScoringInvariant == Spec => []ScoringInv
<1>1. Init => ScoringInv
  BY DEF Init, ScoringInv
<1> QED BY <1>1, InvKept, PTL DEF Spec

\* Of any rubric, two phases give what one would have given, and the AI phase
\* that has_ai_work spares would have changed nothing.
THEOREM TwoPhasesAreOne == Spec => []TwoPhasesAgree
BY ScoringInvariant, PhasesAgree, PTL

\* Of any rubric, a phase that somebody answered makes a run: what the gate cut,
\* what waits for a human and what was reweighted always come to the whole
\* weight (aggregate, _check_unscored).
THEOREM OneAnswerIsEnough == Spec => []AnAnswerIsAGrade
BY ScoringInvariant, OneAnswerGrades, PTL

\* Of any rubric, no run breaks a validator: every weight is positive and at most
\* the whole, the total is between 0 and 1, and a criterion without a score has
\* one reason for it (renormalize, _check_consistency, _check_unscored).
THEOREM ValidatorsHold == Spec => []RunsAreValid
BY ScoringInvariant, PhasesAreValid, PTL

\* Of any rubric, the total after a review is the rubric's of the levels in the
\* form, though only those that differ from the machine's are kept, and whatever
\* the machine had scored, cut, missed or left out (_reviewed_evaluation).
THEOREM ReviewGivesTheRubric == Spec => []ReviewedIsTheRubric
BY ScoringInvariant, ReviewCounts, PTL

\* A total that was shown stays until an instructor changes it: where no score
\* is provisional nothing is left to the AI (is_provisional, has_ai_work).
THEOREM ShownTotalStays == Spec => ShownStays
<1>1. ScoringInv /\ [Next]_vars => [Shown # None /\ review' = None => Shown' = Shown]_vars
  BY NothingMoves
<1> QED BY <1>1, ScoringInvariant, PTL DEF Spec, ShownStays

=============================================================================
