------------------------ MODULE TaskAuthoringProofs ------------------------
(***************************************************************************)
(* AuthoringInv is an inductive invariant of TaskAuthoring for any number  *)
(* of instructors, learners, texts, schedules, versions and requests, and  *)
(* the three properties of the module follow from it.  Most actions move   *)
(* one request from a stage to the next (Moves) or write and move          *)
(* (Overwrites); what a request is then is said once for each kind of it.  *)
(***************************************************************************)
EXTENDS TaskAuthoring, TLAPS

\* What the task is rebuilt as is a row of the table.
LEMMA RebuiltTyped ==
    ASSUME NEW d \in Requests, d.kind = "import" => d.due # None
    PROVE  /\ Rebuilt(d) \in Rows /\ Rebuilt(d) # None
           /\ d.carried # None => Rebuilt(d).withdrawn = d.carried.withdrawn
           /\ d.carried # None =>
                 \/ Rebuilt(d).due = d.carried.due
                 \/ d.kind = "import" /\ Rebuilt(d).due = d.due
<1>1. d.carried \in Rows \cup {None} /\ d.due \in Dues \cup {None}
  BY DEF Requests
<1>2. KeptWithdrawal(d.carried) \in BOOLEAN
  BY <1>1 DEF KeptWithdrawal, Rows
<1>3. ASSUME NEW x \in Dues PROVE KeptDue(d.carried, x) \in Dues
  BY <1>1, AuthoringAssumption DEF KeptDue, Rows
<1> DEFINE due == IF d.kind = "import" THEN d.due ELSE NoDue
<1>4. due \in Dues
  BY <1>1, AuthoringAssumption
<1>5. Rebuilt(d) = [withdrawn |-> KeptWithdrawal(d.carried), due |-> KeptDue(d.carried, due)]
  BY DEF Rebuilt
<1>6. KeptDue(d.carried, due) \in Dues
  BY <1>3, <1>4
<1>7. Rebuilt(d) \in Rows
  BY <1>2, <1>5, <1>6 DEF Rows
<1>8. Rebuilt(d) # None
  BY <1>7, AuthoringAssumption
<1>9. ASSUME d.carried # None
      PROVE  KeptWithdrawal(d.carried) = d.carried.withdrawn
  BY <1>9 DEF KeptWithdrawal
<1>10. ASSUME d.carried # None
       PROVE  \/ KeptDue(d.carried, due) = d.carried.due
              \/ d.kind = "import" /\ KeptDue(d.carried, due) = d.due
  BY <1>10 DEF KeptDue
<1> HIDE DEF due
<1> QED BY <1>5, <1>7, <1>8, <1>9, <1>10

LEMMA SettingFits ==
    ASSUME NEW r \in Rows, NEW t, NEW s \in {"withdrawing", "scheduling", "deleting"}
    PROVE  LET me == [Blank EXCEPT !.stage = s, !.carried = r]
               it == [Blank EXCEPT !.stage = s]
           IN  Fits(me, t) /\ me.stage = s /\ Fits(it, t) /\ it.stage = s
BY DEF Fits, Blank, Requests, Stages

\* A request whose task another has written knows what is no longer as it was.
LEMMA OthersFit ==
    ASSUME NEW me, NEW t \in Rows \cup {None}, NEW u \in Rows \cup {None}, Fits(me, t)
    PROVE  LET it == [me EXCEPT !.touched = @ \cup Changed(t, u)]
           IN  Fits(it, u) /\ it.stage = me.stage
<1> DEFINE it == [me EXCEPT !.touched = @ \cup Changed(t, u)]
<1>1. me \in Requests
  BY DEF Fits
<1>2. it \in Requests
  BY <1>1 DEF Requests, Changed
<1>3. /\ it.stage = me.stage /\ it.asked = me.asked /\ it.kind = me.kind /\ it.due = me.due
      /\ it.number = me.number /\ it.row = me.row /\ it.carried = me.carried
      /\ it.touched = me.touched \cup Changed(t, u)
  BY <1>1 DEF Requests
<1>4. Rebuilt(it) = Rebuilt(me)
  BY <1>3 DEF Rebuilt
<1> HIDE DEF it
<1>5. ASSUME NEW f \in Fields, f \notin it.touched
      PROVE  f \notin me.touched /\ (t = u \/ (t # None /\ u # None /\ t[f] = u[f]))
  BY <1>3, <1>5 DEF Changed
<1>6. "due" \in Fields /\ "withdrawn" \in Fields
  BY DEF Fields
<1>7. it.stage \in {"asked", "numbered", "carried"} => it.asked \in Contents
  BY <1>3 DEF Fits
<1>8. it.stage \in {"numbered", "carried"} =>
          /\ it.number \in Numbers /\ it.row \in Versions
          /\ it.row.content = it.asked
          /\ it.row.published = Approved(it.asked.origin)
  BY <1>3 DEF Fits
<1>9. it.stage \in {"asked", "numbered", "carried", "saved"} =>
          /\ it.kind # "add" => it.due # None
          /\ it.kind = "revise" /\ "due" \notin it.touched => u # None /\ u.due = it.due
  <2>1. it.stage \in {"asked", "numbered", "carried", "saved"} =>
          /\ it.kind # "add" => it.due # None
          /\ it.kind = "revise" /\ "due" \notin me.touched => t # None /\ t.due = it.due
    BY <1>3 DEF Fits
  <2>2. "due" \notin it.touched =>
            "due" \notin me.touched /\ (t = u \/ (t # None /\ u # None /\ t.due = u.due))
    BY <1>5, <1>6
  <2> QED BY <2>1, <2>2
<1>10. ASSUME it.stage = "carried", NEW f \in Fields \ it.touched
       PROVE  Same(f, u, it.carried) \/ (u = None /\ it.carried = None)
  <2>1. Same(f, t, me.carried) \/ (t = None /\ me.carried = None)
    BY <1>3, <1>5, <1>10 DEF Fits
  <2> QED BY <2>1, <1>3, <1>5, <1>10 DEF Same
<1>11. ASSUME it.stage = "saved", NEW f \in Fields \ it.touched
       PROVE  Same(f, u, Rebuilt(it))
  <2>1. Same(f, t, Rebuilt(me))
    BY <1>3, <1>5, <1>11 DEF Fits
  <2> QED BY <2>1, <1>4, <1>5, <1>11 DEF Same
<1>12. ASSUME it.stage = "settled", "withdrawn" \notin it.touched
       PROVE  Same("withdrawn", u, Rebuilt(it))
  <2>1. Same("withdrawn", t, Rebuilt(me))
    BY <1>3, <1>5, <1>6, <1>12 DEF Fits
  <2> QED BY <2>1, <1>4, <1>5, <1>6, <1>12 DEF Same
<1>13. Fits(it, u)
  BY <1>2, <1>7, <1>8, <1>9, <1>10, <1>11, <1>12 DEF Fits
<1> QED BY <1>3, <1>13 DEF it

-----------------------------------------------------------------------------
(* The requests of the others                                              *)

DeskFits == \A j \in Instructors : desk[j] # None => Fits(desk[j], task)

\* One request moves on, and none of the others is disturbed.
LEMMA Moves ==
    ASSUME AuthoringInv, NEW i \in Instructors, NEW me,
           Step(i, me), task' = task, me = None \/ Fits(me, task)
    PROVE  /\ DeskFits' /\ desk' \in [Instructors -> Requests \cup {None}]
           /\ desk'[i] = me /\ \A j \in Instructors \ {i} : desk'[j] = desk[j]
<1>1. desk'[i] = me /\ \A j \in Instructors \ {i} : desk'[j] = desk[j]
  BY DEF AuthoringInv, TypeOK, Step
<1>2. \A j \in Instructors : desk[j] # None => Fits(desk[j], task)
  BY DEF AuthoringInv
<1>3. DeskFits'
  BY <1>1, <1>2, Zenon DEF DeskFits
<1>4. \A j \in Instructors : desk'[j] \in Requests \cup {None}
  BY <1>1, <1>2 DEF Fits
<1>5. desk' \in [Instructors -> Requests \cup {None}]
  BY <1>4 DEF AuthoringInv, TypeOK, Step
<1> QED BY <1>1, <1>3, <1>5

\* One request writes and moves on, and the others know what it has changed.
LEMMA Overwrites ==
    ASSUME AuthoringInv, NEW i \in Instructors, NEW me, task' \in Rows \cup {None},
           WriteAndStep(i, me), me = None \/ Fits(me, task')
    PROVE  /\ DeskFits' /\ desk' \in [Instructors -> Requests \cup {None}]
           /\ desk'[i] = me
           /\ \A j \in Instructors \ {i} :
                 /\ desk'[j] # None => desk[j] # None
                 /\ desk[j] # None => desk'[j].stage = desk[j].stage
<1>0. task \in Rows \cup {None} /\ \A j \in Instructors : desk[j] # None => Fits(desk[j], task)
  BY DEF AuthoringInv, TypeOK
<1>1. desk'[i] = me
  BY DEF WriteAndStep
<1>2. PICK u : u = task' /\ u \in Rows \cup {None}
  OBVIOUS
<1>3. ASSUME NEW j \in Instructors \ {i}
      PROVE  /\ desk'[j] # None => desk[j] # None /\ Fits(desk'[j], u)
             /\ desk[j] # None => desk'[j].stage = desk[j].stage
  <2>1. desk'[j] = IF desk[j] = None THEN None
                   ELSE [desk[j] EXCEPT !.touched = @ \cup Changed(task, u)]
    BY <1>2 DEF WriteAndStep
  <2>2. CASE desk[j] = None
    BY <2>1, <2>2
  <2>3. CASE desk[j] # None
    <3>1. desk'[j] = [desk[j] EXCEPT !.touched = @ \cup Changed(task, u)]
      BY <2>1, <2>3
    <3>2. Fits(desk'[j], u) /\ desk'[j].stage = desk[j].stage
      BY <3>1, <2>3, <1>0, <1>2, OthersFit
    <3> QED BY <3>2, <2>3
  <2> QED BY <2>2, <2>3
<1>4. \A j \in Instructors : desk'[j] # None => Fits(desk'[j], u)
  BY <1>1, <1>2, <1>3
<1>5. DeskFits'
  BY <1>2, <1>4 DEF DeskFits
<1>6. \A j \in Instructors : desk'[j] \in Requests \cup {None}
  BY <1>4 DEF Fits
<1>7. desk' \in [Instructors -> Requests \cup {None}]
  BY <1>6 DEF WriteAndStep
<1> QED BY <1>1, <1>3, <1>5, <1>7

-----------------------------------------------------------------------------
(* Steps that leave the versions and the learners alone                    *)

LEMMA Quiet ==
    ASSUME AuthoringInv, DeskFits', desk' \in [Instructors -> Requests \cup {None}],
           UNCHANGED <<versions, hand>>, task' \in Rows \cup {None},
           drafts' \subseteq Texts, requests' \in 0 .. MaxRequests,
           \A j \in Instructors : desk'[j] # None /\ desk'[j].stage = "deleting" =>
                                  desk[j] # None /\ desk[j].stage = "deleting"
    PROVE  AuthoringInv'
<1>1. TypeOK'
  BY DEF AuthoringInv, TypeOK
<1>2. PagesHold'
  BY DEF AuthoringInv, PagesHold, Published, Stored
<1>3. Counted'
  BY DEF AuthoringInv, Counted
<1>4. (\A n \in Stored : versions[n].published = Approved(versions[n].content.origin))'
  BY DEF AuthoringInv, Stored, Approved
<1> QED BY <1>1, <1>2, <1>3, <1>4 DEF AuthoringInv, DeskFits

LEMMA MovesQuietly ==
    ASSUME AuthoringInv, NEW i \in Instructors, NEW me, Step(i, me),
           UNCHANGED <<task, versions, hand>>,
           drafts' \subseteq Texts, requests' \in 0 .. MaxRequests,
           me = None \/ (Fits(me, task) /\ me.stage # "deleting")
    PROVE  AuthoringInv'
<1>1. task' \in Rows \cup {None}
  BY DEF AuthoringInv, TypeOK
<1> QED BY <1>1, Moves, Quiet

LEMMA WritesQuietly ==
    ASSUME AuthoringInv, NEW i \in Instructors, NEW me, WriteAndStep(i, me),
           UNCHANGED <<versions, drafts, hand, requests>>, task' \in Rows \cup {None},
           me = None \/ (Fits(me, task') /\ me.stage # "deleting")
    PROVE  AuthoringInv'
<1>1. drafts' \subseteq Texts /\ requests' \in 0 .. MaxRequests
  BY DEF AuthoringInv, TypeOK
<1>2. \A j \in Instructors : desk'[j] # None /\ desk'[j].stage = "deleting" =>
                             desk[j] # None /\ desk[j].stage = "deleting"
  BY Overwrites
<1>3. DeskFits' /\ desk' \in [Instructors -> Requests \cup {None}]
  BY Overwrites
<1> QED BY <1>1, <1>2, <1>3, Quiet

-----------------------------------------------------------------------------
(* A request from stage to stage                                           *)

LEMMA NumberedFits ==
    ASSUME NEW d, NEW t, Fits(d, t), d.stage = "asked",
           NEW n \in Numbers, NEW row \in Versions, row.content = d.asked,
           row.published = Approved(d.asked.origin)
    PROVE  LET me == [d EXCEPT !.stage = "numbered", !.number = n, !.row = row]
           IN  Fits(me, t) /\ me.stage # "deleting"
<1> DEFINE me == [d EXCEPT !.stage = "numbered", !.number = n, !.row = row]
<1>1. d \in Requests
  BY DEF Fits
<1>2. me \in Requests
  BY <1>1 DEF Requests, Stages
<1>3. /\ me.stage = "numbered" /\ me.asked = d.asked /\ me.kind = d.kind /\ me.due = d.due
      /\ me.touched = d.touched /\ me.number = n /\ me.row = row
  BY <1>1 DEF Requests
<1>4. /\ d.asked \in Contents
      /\ d.kind # "add" => d.due # None
      /\ d.kind = "revise" /\ "due" \notin d.touched => t # None /\ t.due = d.due
  BY DEF Fits
<1> HIDE DEF me
<1>5. Fits(me, t)
  BY <1>2, <1>3, <1>4 DEF Fits
<1> QED BY <1>3, <1>5 DEF me

LEMMA CarriedFits ==
    ASSUME NEW d, NEW t \in Rows \cup {None}, Fits(d, t), d.stage = "numbered"
    PROVE  LET me == [d EXCEPT !.stage = "carried", !.carried = t]
           IN  Fits(me, t) /\ me.stage # "deleting"
<1> DEFINE me == [d EXCEPT !.stage = "carried", !.carried = t]
<1>1. d \in Requests
  BY DEF Fits
<1>2. me \in Requests
  BY <1>1 DEF Requests, Stages
<1>3. /\ me.stage = "carried" /\ me.asked = d.asked /\ me.kind = d.kind /\ me.due = d.due
      /\ me.touched = d.touched /\ me.number = d.number /\ me.row = d.row /\ me.carried = t
  BY <1>1 DEF Requests
<1>4. /\ d.asked \in Contents /\ d.number \in Numbers /\ d.row \in Versions
      /\ d.row.content = d.asked /\ d.row.published = Approved(d.asked.origin)
      /\ d.kind # "add" => d.due # None
      /\ d.kind = "revise" /\ "due" \notin d.touched => t # None /\ t.due = d.due
  BY DEF Fits
<1> HIDE DEF me
<1>5. \A f \in Fields \ me.touched : Same(f, t, me.carried) \/ (t = None /\ me.carried = None)
  BY <1>3 DEF Same
<1>6. Fits(me, t)
  BY <1>2, <1>3, <1>4, <1>5 DEF Fits
<1> QED BY <1>3, <1>6 DEF me

\* The row the request rebuilds is the one it has read, but for a schedule that
\* it is to give.
LEMMA SavedFits ==
    ASSUME NEW d, NEW t \in Rows \cup {None}, Fits(d, t), d.stage = "carried", NEW u,
           \/ u = Rebuilt(d) /\ (d.carried # None => t # None)
           \/ u = t /\ Rebuilt(d) = d.carried
    PROVE  LET me == [d EXCEPT !.stage = "saved"]
           IN  Fits(me, u) /\ me.stage # "deleting" /\ u \in Rows \cup {None}
<1> DEFINE me == [d EXCEPT !.stage = "saved"]
<1>1. d \in Requests /\ (d.kind # "add" => d.due # None)
  BY DEF Fits
<1>2. me \in Requests
  BY <1>1 DEF Requests, Stages
<1>3. /\ me.stage = "saved" /\ me.kind = d.kind /\ me.due = d.due
      /\ me.touched = d.touched /\ me.carried = d.carried
  BY <1>1 DEF Requests
<1>4. Rebuilt(me) = Rebuilt(d)
  BY <1>3 DEF Rebuilt
<1> HIDE DEF me
<1>5. /\ Rebuilt(d) \in Rows /\ Rebuilt(d) # None
      /\ d.carried # None /\ d.kind # "import" => Rebuilt(d).due = d.carried.due
  BY <1>1, RebuiltTyped
<1>6. \A f \in Fields \ d.touched : Same(f, t, d.carried) \/ (t = None /\ d.carried = None)
  BY DEF Fits
<1>7. d.carried = Rebuilt(d) => d.carried # None
  BY <1>5
<1>8. \A f \in Fields \ me.touched : Same(f, u, Rebuilt(me))
  <2>1. CASE u = Rebuilt(d)
    BY <2>1, <1>4, <1>5 DEF Same
  <2>2. CASE u = t /\ Rebuilt(d) = d.carried
    BY <2>2, <1>3, <1>4, <1>6, <1>7 DEF Same
  <2> QED BY <2>1, <2>2
<1>9. ASSUME me.kind = "revise", "due" \notin me.touched
      PROVE  u # None /\ u.due = me.due
  <2>1. t # None /\ t.due = me.due
    BY <1>3, <1>9 DEF Fits
  <2>2. d.carried # None /\ t.due = d.carried.due
    BY <2>1, <1>3, <1>6, <1>9 DEF Same, Fields
  <2>3. Rebuilt(d).due = me.due
    BY <2>1, <2>2, <1>3, <1>5, <1>9
  <2> QED BY <2>1, <2>3, <1>5
<1>10. me.kind # "add" => me.due # None
  BY <1>1, <1>3
<1>11. Fits(me, u)
  BY <1>2, <1>3, <1>8, <1>9, <1>10 DEF Fits
<1>12. u \in Rows \cup {None}
  BY <1>5
<1> QED BY <1>3, <1>11, <1>12 DEF me

LEMMA SettledFits ==
    ASSUME NEW d, NEW t \in Rows \cup {None}, Fits(d, t), d.stage = "saved",
           NEW u, NEW me, me = [d EXCEPT !.stage = "settled"],
           \/ d.kind = "import" /\ u = t
           \/ d.kind # "import" /\ d.due = None /\ u = Rebuilt(d)
           \/ d.kind # "import" /\ d.due # None /\ u = [Rebuilt(d) EXCEPT !.due = d.due]
    PROVE  /\ Fits(me, u) /\ me.stage # "deleting"
           /\ u \in Rows \cup {None}
           /\ t # None /\ u # None =>
                 /\ u.withdrawn # t.withdrawn => "withdrawn" \in d.touched
                 /\ u.due # t.due =>
                       "due" \in d.touched \/ (d.kind # "revise" /\ u.due = d.due)
<1> DEFINE built == Rebuilt(d)
<1>1. d \in Requests /\ (d.kind # "add" => d.due # None)
  BY DEF Fits
<1>2. me \in Requests
  BY <1>1 DEF Requests, Stages
<1>3. /\ me.stage = "settled" /\ me.kind = d.kind /\ me.due = d.due
      /\ me.touched = d.touched /\ me.carried = d.carried
  BY <1>1 DEF Requests
<1>4. Rebuilt(me) = built
  BY <1>3 DEF Rebuilt
<1>5. built \in Rows /\ built # None
  BY <1>1, RebuiltTyped
<1>6. \A f \in Fields \ d.touched : Same(f, t, built)
  BY DEF Fits
<1>7. d.due \in Dues \cup {None}
  BY <1>1 DEF Requests
<1> HIDE DEF built
<1>8. ASSUME d.kind # "import"
      PROVE  /\ u \in Rows /\ u.withdrawn = built.withdrawn
             /\ u.due = IF d.due = None THEN built.due ELSE d.due
  BY <1>5, <1>7, <1>8 DEF built, Rows
<1>9. u \in Rows \cup {None}
  BY <1>8
<1>10. ASSUME "withdrawn" \notin d.touched
       PROVE  Same("withdrawn", u, built) /\ (t # None /\ u # None => u.withdrawn = t.withdrawn)
  <2>1. t # None /\ t.withdrawn = built.withdrawn
    BY <1>6, <1>10 DEF Same, Fields
  <2>2. CASE d.kind = "import"
    BY <2>1, <2>2, <1>5 DEF Same
  <2>3. CASE d.kind # "import"
    BY <2>1, <2>3, <1>5, <1>8, AuthoringAssumption DEF Same
  <2> QED BY <2>2, <2>3
<1>11. ASSUME "due" \notin d.touched, t # None, u # None, u.due # t.due
       PROVE  d.kind # "revise" /\ u.due = d.due
  <2>1. t.due = built.due
    BY <1>6, <1>11 DEF Same, Fields
  <2>2. d.kind = "revise" => t.due = d.due
    BY <1>11 DEF Fits
  <2> QED BY <2>1, <2>2, <1>1, <1>8, <1>11
<1>12. Fits(me, u)
  BY <1>2, <1>3, <1>4, <1>10 DEF Fits
<1> QED BY <1>3, <1>9, <1>10, <1>11, <1>12

LEMMA PlacedFits ==
    ASSUME NEW d, NEW t \in Rows \cup {None}, Fits(d, t), d.stage = "settled",
           NEW due \in Dues, NEW u, u = [Rebuilt(d) EXCEPT !.due = due]
    PROVE  LET me == [d EXCEPT !.stage = "placed"]
           IN  /\ Fits(me, u) /\ me.stage # "deleting"
               /\ u \in Rows
               /\ t # None /\ u.withdrawn # t.withdrawn => "withdrawn" \in d.touched
<1> DEFINE me == [d EXCEPT !.stage = "placed"]
<1>1. d \in Requests
  BY DEF Fits
<1>2. me \in Requests /\ me.stage = "placed"
  BY <1>1 DEF Requests, Stages
<1> HIDE DEF me
<1>3. Fits(me, u)
  BY <1>2 DEF Fits
<1>4. KeptWithdrawal(d.carried) \in BOOLEAN
  BY <1>1 DEF KeptWithdrawal, Rows, Requests
<1>5. u \in Rows /\ u.withdrawn = Rebuilt(d).withdrawn
  BY <1>4 DEF Rebuilt, Rows
<1>6. ASSUME "withdrawn" \notin d.touched PROVE t.withdrawn = Rebuilt(d).withdrawn
  BY <1>6 DEF Fits, Same
<1> QED BY <1>2, <1>3, <1>5, <1>6 DEF me

-----------------------------------------------------------------------------
(* The actions                                                             *)

\* What a request may ask for.
LEMMA TypedIsContent ==
    ASSUME NEW text \in Texts, NEW i \in Instructors, NEW cases \in Cases, NEW o \in Origins
    PROVE  [text |-> text, cases |-> cases, author |-> i, origin |-> o] \in Contents
BY DEF Contents

LEMMA InitHolds == Init => AuthoringInv
<1> SUFFICES ASSUME Init PROVE AuthoringInv
  OBVIOUS
<1>1. /\ drafts = {} /\ requests = 0
      /\ desk = [i \in Instructors |-> None] /\ hand = [l \in Learners |-> None]
  BY DEF Init
<1> DEFINE Right ==
      /\ task \in Rows \cup {None} /\ versions \in [Numbers -> Versions \cup {None}]
      /\ \A n \in Stored : versions[n].published = Approved(versions[n].content.origin)
<1>2. Right
  <2>1. CASE task = None /\ versions = [n \in Numbers |-> None]
    BY <2>1 DEF Stored
  <2>2. ASSUME task = [withdrawn |-> FALSE, due |-> NoDue],
               NEW t \in Texts, NEW i \in Instructors,
               versions = [n \in Numbers |->
                    IF n = 1 THEN [content |-> Typed(t, i), published |-> TRUE] ELSE None]
        PROVE  Right
    <3>1. Typed(t, i) \in Contents /\ Typed(t, i).origin = "typed"
      BY TypedIsContent DEF Typed, Cases, Origins
    <3>2. [content |-> Typed(t, i), published |-> TRUE] \in Versions
      BY <3>1 DEF Versions
    <3>3. versions \in [Numbers -> Versions \cup {None}]
      BY <2>2, <3>2
    <3>4. \A n \in Stored : versions[n].published = Approved(versions[n].content.origin)
      BY <2>2, <3>1 DEF Stored, Approved
    <3> QED BY <2>2, <3>3, <3>4, AuthoringAssumption DEF Rows
  <2> QED BY <2>1, <2>2 DEF Init
<1>3. TypeOK
  BY <1>1, <1>2, AuthoringAssumption DEF TypeOK
<1>4. PagesHold /\ Counted /\ DeskFits
  BY <1>1 DEF PagesHold, Counted, DeskFits
<1> QED BY <1>2, <1>3, <1>4 DEF AuthoringInv, DeskFits

\* The request that is begun.
LEMMA Begins ==
    ASSUME AuthoringInv, NEW i \in Instructors, NEW me, Ask(i, me),
           UNCHANGED <<task, versions, drafts, hand>>,
           Fits(me, task) /\ me.stage # "deleting"
    PROVE  AuthoringInv'
<1>1. Step(i, me) /\ requests' \in 0 .. MaxRequests /\ drafts' \subseteq Texts
  BY AuthoringAssumption DEF Ask, Step, AuthoringInv, TypeOK
<1> QED BY <1>1, MovesQuietly

LEMMA SavingBegins ==
    ASSUME AuthoringInv, NEW i \in Instructors, NEW k \in {"revise", "import", "add"},
           NEW c \in Contents, NEW due \in Dues \cup {None}, NEW d \in Texts \cup {None},
           k # "add" => due # None,
           k = "revise" => task # None /\ task.due = due,
           Save(i, k, c, due, d), UNCHANGED <<task, versions, drafts, hand>>
    PROVE  AuthoringInv'
<1> DEFINE me == [Blank EXCEPT !.kind = k, !.asked = c, !.due = due, !.draft = d]
<1>0. me \in Requests
  BY DEF Blank, Requests, Stages
<1>1. me.stage = "asked" /\ me.kind = k /\ me.asked = c /\ me.due = due
  BY DEF Blank
<1> HIDE DEF me
<1>2. Ask(i, me)
  BY DEF Save, me
<1>3. Fits(me, task)
  BY <1>0, <1>1 DEF Fits
<1> QED BY <1>1, <1>2, <1>3, Begins

\* What every correction has in common.
LEMMA CorrectingBegins ==
    ASSUME AuthoringInv, NEW i \in Instructors, NEW c \in Contents,
           NEW d \in Texts \cup {None}, task # None,
           Correct(i, c, d), UNCHANGED <<task, versions, drafts, hand>>
    PROVE  AuthoringInv'
<1>1. task.due \in Dues
  BY DEF AuthoringInv, TypeOK, Rows
<1>2. task.due # None
  BY <1>1, AuthoringAssumption
<1> QED BY <1>1, <1>2, SavingBegins DEF Correct

LEMMA StoredTyped ==
    ASSUME AuthoringInv, NEW n \in Stored
    PROVE  /\ versions[n] \in Versions /\ versions[n].content \in Contents
           /\ versions[n].content.text \in Texts /\ versions[n].content.cases \in Cases
<1>1. versions[n] \in Versions
  BY DEF AuthoringInv, TypeOK, Stored
<1>2. versions[n].content \in Contents
  BY <1>1 DEF Versions
<1> QED BY <1>1, <1>2 DEF Contents

LEMMA Correcting ==
    ASSUME AuthoringInv, NEW i \in Instructors, Restore(i) \/ GenerateTests(i)
    PROVE  AuthoringInv'
<1>1. CASE Restore(i)
  <2>1. PICK n \in Stored :
           Correct(i, [versions[n].content EXCEPT !.author = i, !.origin = "typed"], None)
    BY <1>1 DEF Restore
  <2> DEFINE c == [versions[n].content EXCEPT !.author = i, !.origin = "typed"]
  <2>2. c \in Contents
    BY StoredTyped DEF Contents, Origins
  <2> HIDE DEF c
  <2>3. Correct(i, c, None)
    BY <2>1 DEF c
  <2> QED BY <2>2, <2>3, <1>1, CorrectingBegins DEF Restore, Known
<1>2. CASE GenerateTests(i)
  <2>1. PICK n \in Stored :
           Correct(i, [text |-> versions[n].content.text, cases |-> "generated",
                       author |-> i, origin |-> "tests"], None)
    BY <1>2 DEF GenerateTests
  <2>2. [text |-> versions[n].content.text, cases |-> "generated",
         author |-> i, origin |-> "tests"] \in Contents
    BY StoredTyped DEF Contents, Cases, Origins
  <2> QED BY <2>1, <2>2, <1>2, CorrectingBegins DEF GenerateTests, Known
<1> QED BY <1>1, <1>2

LEMMA Asking ==
    ASSUME AuthoringInv, NEW i \in Instructors, NEW text \in Texts,
           \/ Revise(i, text) \/ Approve(i, text) \/ Add(i, text)
           \/ \E due \in Dues : Import(i, text, due)
    PROVE  AuthoringInv'
<1>1. CASE Revise(i, text)
  <2>1. PICK n \in Stored : \E cases \in {"typed", versions[n].content.cases} :
           Correct(i, [Typed(text, i) EXCEPT !.cases = cases], None)
    BY <1>1 DEF Revise
  <2>2. PICK cases \in {"typed", versions[n].content.cases} :
           Correct(i, [Typed(text, i) EXCEPT !.cases = cases], None)
    BY <2>1
  <2>3. cases \in Cases
    BY StoredTyped DEF Cases
  <2>4. [Typed(text, i) EXCEPT !.cases = cases] \in Contents
    BY <2>3 DEF Typed, Contents, Origins
  <2> QED BY <2>2, <2>4, <1>1, CorrectingBegins DEF Revise, Known
<1>2. CASE Approve(i, text)
  <2>1. PICK n \in Stored :
           Correct(i, [text |-> text, cases |-> versions[n].content.cases,
                       author |-> i, origin |-> "drafted"], text)
    BY <1>2 DEF Approve
  <2>2. [text |-> text, cases |-> versions[n].content.cases,
         author |-> i, origin |-> "drafted"] \in Contents
    BY StoredTyped DEF Contents, Origins
  <2> QED BY <2>1, <2>2, <1>2, CorrectingBegins DEF Approve, Known
<1>3. ASSUME NEW due \in Dues, Import(i, text, due) PROVE AuthoringInv'
  <2>1. Typed(text, i) \in Contents /\ due # None
    BY TypedIsContent, AuthoringAssumption DEF Typed, Cases, Origins
  <2> QED BY <2>1, <1>3, SavingBegins DEF Import
<1>4. CASE Add(i, text)
  <2>1. PICK due \in Dues \cup {None},
             c \in {Typed(text, i), [text |-> text, cases |-> "generated",
                                     author |-> i, origin |-> "tests"]} :
                Save(i, "add", c, due, None)
    BY <1>4 DEF Add
  <2>2. c \in Contents
    BY TypedIsContent DEF Typed, Cases, Origins
  <2> QED BY <2>1, <2>2, <1>4, SavingBegins DEF Add
<1> QED BY <1>1, <1>2, <1>3, <1>4

\* The request under way, and what stays of the rest.
LEMMA UnderWay ==
    ASSUME AuthoringInv, NEW i \in Instructors, desk[i] # None
    PROVE  /\ Fits(desk[i], task) /\ desk[i] \in Requests
           /\ task \in Rows \cup {None} /\ drafts \subseteq Texts
           /\ requests \in 0 .. MaxRequests
BY DEF AuthoringInv, TypeOK, Fits

LEMMA Numbering ==
    ASSUME AuthoringInv, NEW i \in Instructors, Number(i)
    PROVE  AuthoringInv'
<1> DEFINE new == [content |-> desk[i].asked, published |-> Approved(desk[i].asked.origin)]
           at(n, row) == [desk[i] EXCEPT !.stage = "numbered", !.number = n, !.row = row]
<1>1. /\ Fits(desk[i], task) /\ desk[i].stage = "asked"
      /\ UNCHANGED <<task, versions, hand>>
      /\ drafts' \subseteq Texts /\ requests' \in 0 .. MaxRequests
  BY UnderWay DEF Number
<1>2. desk[i].asked \in Contents
  BY <1>1 DEF Fits
<1>3. new \in Versions /\ new.content = desk[i].asked
      /\ new.published = Approved(desk[i].asked.origin)
  BY <1>2 DEF Versions, Approved
<1>4. ASSUME NEW n \in Numbers, NEW row \in Versions, row.content = desk[i].asked,
             row.published = Approved(desk[i].asked.origin), Step(i, at(n, row))
      PROVE  AuthoringInv'
  <2>1. Fits(at(n, row), task) /\ at(n, row).stage # "deleting"
    BY <1>1, <1>4, NumberedFits
  <2> HIDE DEF at
  <2> QED BY <1>1, <1>4, <2>1, MovesQuietly
<1>5. CASE Stored = {} /\ Step(i, at(1, new))
  <2>1. 1 \in Numbers
    BY AuthoringAssumption DEF Numbers
  <2> QED BY <1>3, <1>4, <1>5, <2>1
<1>6. ASSUME NEW n \in Stored, SameContent(versions[n].content, new.content),
             Step(i, at(n, versions[n]))
      PROVE  AuthoringInv'
  <2>1. n \in Numbers /\ versions[n] \in Versions
    BY DEF Stored, AuthoringInv, TypeOK
  <2>2. versions[n].content = desk[i].asked
    BY <1>6, <1>3 DEF SameContent
  <2>3. versions[n].published = Approved(desk[i].asked.origin)
    BY <2>2 DEF AuthoringInv
  <2> QED BY <1>4, <1>6, <2>1, <2>2, <2>3
<1>7. ASSUME NEW n \in Stored, n < MaxVersion, Step(i, at(n + 1, new))
      PROVE  AuthoringInv'
  <2>1. n + 1 \in Numbers
    BY <1>7, AuthoringAssumption DEF Stored, Numbers
  <2> QED BY <1>3, <1>4, <1>7, <2>1
<1>8. CASE Step(i, None)
  BY <1>1, <1>8, MovesQuietly
<1>9. \/ Stored = {} /\ Step(i, at(1, new))
      \/ \E n \in Stored : SameContent(versions[n].content, new.content) /\ Step(i, at(n, versions[n]))
      \/ \E n \in Stored : n < MaxVersion /\ Step(i, at(n + 1, new))
      \/ Step(i, None)
  BY Zenon DEF Number
<1> QED BY <1>5, <1>6, <1>7, <1>8, <1>9

LEMMA Carrying ==
    ASSUME AuthoringInv, NEW i \in Instructors, Carry(i)
    PROVE  AuthoringInv'
<1> DEFINE me == [desk[i] EXCEPT !.stage = "carried", !.carried = task]
<1>1. /\ Fits(desk[i], task) /\ desk[i].stage = "numbered" /\ Step(i, me)
      /\ UNCHANGED <<task, versions, hand>> /\ task \in Rows \cup {None}
      /\ drafts' \subseteq Texts /\ requests' \in 0 .. MaxRequests
  BY UnderWay DEF Carry
<1>2. Fits(me, task) /\ me.stage # "deleting"
  BY <1>1, CarriedFits
<1> HIDE DEF me
<1> QED BY <1>1, <1>2, MovesQuietly

LEMMA Answering ==
    ASSUME AuthoringInv, NEW i \in Instructors, Refuse(i) \/ RemoveDraft(i)
    PROVE  AuthoringInv'
<1>1. /\ Step(i, None) /\ UNCHANGED <<task, versions, hand>>
      /\ drafts' \subseteq Texts /\ requests' \in 0 .. MaxRequests
  BY DEF Refuse, RemoveDraft, AuthoringInv, TypeOK
<1> QED BY <1>1, MovesQuietly

\* What a request leaves of the settings of a task that stays.
Spares(i) ==
    task # None /\ task' # None =>
       /\ task'.withdrawn # task.withdrawn => "withdrawn" \in desk[i].touched
       /\ task'.due # task.due => "due" \in desk[i].touched \/ Gives(i, task'.due)

LEMMA Settling ==
    ASSUME AuthoringInv, NEW i \in Instructors, Settle(i)
    PROVE  AuthoringInv' /\ Spares(i)
<1> DEFINE me == [desk[i] EXCEPT !.stage = "settled"]
<1>1. /\ desk[i] # None /\ desk[i].stage = "saved"
      /\ UNCHANGED <<versions, drafts, hand, requests>>
      /\ WriteAndStep(i, None) \/ WriteAndStep(i, me)
      /\ task' = IF desk[i].kind = "import" THEN task
                 ELSE IF desk[i].due = None THEN Rebuilt(desk[i])
                 ELSE [Rebuilt(desk[i]) EXCEPT !.due = desk[i].due]
  BY DEF Settle, Settled
<1>2. Fits(desk[i], task) /\ task \in Rows \cup {None}
  BY <1>1, UnderWay
<1>3. PICK u : u = task'
  OBVIOUS
<1>4. /\ Fits(me, u) /\ me.stage # "deleting" /\ u \in Rows \cup {None}
      /\ task # None /\ u # None =>
            /\ u.withdrawn # task.withdrawn => "withdrawn" \in desk[i].touched
            /\ u.due # task.due =>
                  "due" \in desk[i].touched \/ (desk[i].kind # "revise" /\ u.due = desk[i].due)
  <2>1. PICK d, t : d = desk[i] /\ t = task
    OBVIOUS
  <2>2. Fits(d, t) /\ d.stage = "saved" /\ t \in Rows \cup {None}
    BY <1>1, <1>2, <2>1
  <2>3. \/ d.kind = "import" /\ u = t
        \/ d.kind # "import" /\ d.due = None /\ u = Rebuilt(d)
        \/ d.kind # "import" /\ d.due # None /\ u = [Rebuilt(d) EXCEPT !.due = d.due]
    BY <1>1, <1>3, <2>1
  <2> HIDE DEF me
  <2>4. me = [d EXCEPT !.stage = "settled"]
    BY <2>1 DEF me
  <2>5. /\ Fits(me, u) /\ me.stage # "deleting" /\ u \in Rows \cup {None}
        /\ t # None /\ u # None =>
              /\ u.withdrawn # t.withdrawn => "withdrawn" \in d.touched
              /\ u.due # t.due =>
                    "due" \in d.touched \/ (d.kind # "revise" /\ u.due = d.due)
    BY <2>2, <2>3, <2>4, SettledFits
  <2> QED BY <2>1, <2>5
<1> HIDE DEF me
<1>5. AuthoringInv'
  BY <1>1, <1>3, <1>4, WritesQuietly
<1>6. Spares(i)
  BY <1>3, <1>4 DEF Spares, Gives
<1> QED BY <1>5, <1>6

LEMMA Placing ==
    ASSUME AuthoringInv, NEW i \in Instructors, Place(i)
    PROVE  AuthoringInv' /\ Spares(i)
<1> DEFINE me == [desk[i] EXCEPT !.stage = "placed"]
<1>1. /\ desk[i] # None /\ desk[i].stage = "settled" /\ WriteAndStep(i, me)
      /\ UNCHANGED <<versions, drafts, hand, requests>>
      /\ \E due \in Dues : task' = [Rebuilt(desk[i]) EXCEPT !.due = due]
  BY DEF Place
<1>2. Fits(desk[i], task) /\ task \in Rows \cup {None}
  BY <1>1, UnderWay
<1>3. PICK u : u = task'
  OBVIOUS
<1>4. PICK due \in Dues : u = [Rebuilt(desk[i]) EXCEPT !.due = due]
  BY <1>1, <1>3
<1>5. /\ Fits(me, u) /\ me.stage # "deleting" /\ u \in Rows
      /\ task # None /\ u.withdrawn # task.withdrawn => "withdrawn" \in desk[i].touched
  BY <1>1, <1>2, <1>4, PlacedFits
<1> HIDE DEF me
<1>6. AuthoringInv'
  BY <1>1, <1>3, <1>5, WritesQuietly
<1>7. Spares(i)
  BY <1>1, <1>3, <1>5 DEF Spares, Gives
<1> QED BY <1>6, <1>7

\* A version is added where there was none, or found as it is.
LEMMA VersionsGrow ==
    ASSUME AuthoringInv, NEW n \in Numbers, NEW row \in Versions,
           row.published = Approved(row.content.origin), versions' \in Saved(n, row)
    PROVE  /\ versions' \in [Numbers -> Versions \cup {None}]
           /\ \A m \in Stored : m \in Stored' /\ versions'[m] = versions[m]
           /\ (\A m \in Stored : versions[m].published = Approved(versions[m].content.origin))'
           /\ versions'[n] # None /\ versions'[n].content = row.content
<1>1. versions \in [Numbers -> Versions \cup {None}]
  BY DEF AuthoringInv, TypeOK
<1>2. \/ versions[n] = None /\ versions' = [versions EXCEPT ![n] = row]
      \/ versions[n] # None /\ versions' = versions /\ versions[n].content = row.content
  BY DEF Saved, SameContent
<1>3. row # None
  BY AuthoringAssumption
<1>4. \A m \in Numbers : versions'[m] = IF versions[n] = None /\ m = n THEN row ELSE versions[m]
  BY <1>1, <1>2
<1>5. versions' \in [Numbers -> Versions \cup {None}]
  BY <1>1, <1>2
<1>6. \A m \in Stored : m \in Stored' /\ versions'[m] = versions[m]
  BY <1>4, <1>3 DEF Stored
<1>7. versions'[n] # None /\ versions'[n].content = row.content
  BY <1>2, <1>3, <1>4
<1>8. ASSUME NEW m \in Numbers, versions'[m] # None
      PROVE  versions'[m].published = Approved(versions'[m].content.origin)
  <2>1. CASE versions[n] = None /\ m = n
    BY <2>1, <1>4
  <2>2. CASE ~(versions[n] = None /\ m = n)
    <3>1. versions'[m] = versions[m] /\ m \in Stored
      BY <2>2, <1>4, <1>8 DEF Stored
    <3> QED BY <3>1 DEF AuthoringInv
  <2> QED BY <2>1, <2>2
<1>9. (\A m \in Stored : versions[m].published = Approved(versions[m].content.origin))'
  BY <1>8 DEF Stored, Approved
<1> QED BY <1>5, <1>6, <1>7, <1>9

LEMMA Committing ==
    ASSUME AuthoringInv, NEW i \in Instructors, Commit(i)
    PROVE  /\ AuthoringInv' /\ Spares(i)
           /\ Approved(desk[i].asked.origin) =>
                 \E n \in Numbers :
                    /\ versions'[n] # None /\ versions'[n].published
                    /\ versions'[n].content = desk[i].asked
<1> DEFINE me == [desk[i] EXCEPT !.stage = "saved"]
<1>1. PICK d, u : d = desk[i] /\ u = task'
  OBVIOUS
<1>2. /\ d # None /\ d.stage = "carried" /\ WriteAndStep(i, me)
      /\ versions' \in Saved(d.number, d.row) /\ UNCHANGED <<drafts, hand, requests>>
      /\ \/ u = Rebuilt(d) /\ (d.carried # None => task # None)
         \/ u = task /\ Rebuilt(d) = d.carried
  BY <1>1 DEF Commit
<1>3. Fits(d, task) /\ d \in Requests /\ task \in Rows \cup {None}
  BY <1>1, <1>2, UnderWay
<1>4. Fits(me, u) /\ me.stage # "deleting" /\ u \in Rows \cup {None}
  BY <1>1, <1>2, <1>3, SavedFits
<1>5. /\ d.number \in Numbers /\ d.row \in Versions /\ d.row.content = d.asked
      /\ d.row.published = Approved(d.asked.origin)
  BY <1>2, <1>3 DEF Fits
<1>6. Spares(i)
  <2>1. ASSUME NEW f \in Fields, f \notin d.touched, task # None PROVE Same(f, task, d.carried)
    BY <2>1, <1>2, <1>3 DEF Fits
  <2>2. d.kind # "add" => d.due # None
    BY <1>2, <1>3 DEF Fits
  <2>3. /\ d.carried # None => Rebuilt(d).withdrawn = d.carried.withdrawn
        /\ d.carried # None =>
              \/ Rebuilt(d).due = d.carried.due
              \/ d.kind = "import" /\ Rebuilt(d).due = d.due
    BY <1>3, <2>2, RebuiltTyped
  <2>4. ASSUME task # None, u # None, "withdrawn" \notin d.touched
        PROVE  u.withdrawn = task.withdrawn
    BY <1>2, <2>1, <2>3, <2>4 DEF Same, Fields
  <2>5. ASSUME task # None, u # None, "due" \notin d.touched, u.due # task.due
        PROVE  d.kind = "import" /\ u.due = d.due
    BY <1>2, <2>1, <2>3, <2>5 DEF Same, Fields
  <2> QED BY <1>1, <2>4, <2>5 DEF Spares, Gives
<1> HIDE DEF me
<1>7. /\ DeskFits' /\ desk' \in [Instructors -> Requests \cup {None}]
      /\ \A j \in Instructors : desk'[j] # None /\ desk'[j].stage = "deleting" =>
                                desk[j] # None /\ desk[j].stage = "deleting"
  BY <1>1, <1>2, <1>4, Overwrites
<1>8. /\ versions' \in [Numbers -> Versions \cup {None}]
      /\ \A m \in Stored : m \in Stored' /\ versions'[m] = versions[m]
      /\ (\A m \in Stored : versions[m].published = Approved(versions[m].content.origin))'
      /\ versions'[d.number] # None /\ versions'[d.number].content = d.asked
  BY <1>2, <1>5, VersionsGrow
<1>9. TypeOK'
  BY <1>1, <1>2, <1>4, <1>7, <1>8 DEF AuthoringInv, TypeOK
<1>10. \A m \in Published : m \in Published' /\ versions'[m] = versions[m]
  BY <1>8 DEF Published
<1>11. PagesHold'
  BY <1>2, <1>10 DEF AuthoringInv, PagesHold
<1>12. Counted'
  BY <1>2, <1>7 DEF AuthoringInv, Counted
<1>13. AuthoringInv'
  BY <1>7, <1>8, <1>9, <1>11, <1>12 DEF AuthoringInv, DeskFits
<1>14. versions'[d.number].published = Approved(d.asked.origin)
  BY <1>5, <1>8 DEF Stored, Approved
<1> QED BY <1>1, <1>5, <1>6, <1>8, <1>13, <1>14

LEMMA Settings ==
    ASSUME AuthoringInv, NEW i \in Instructors,
           Withdraw(i) \/ WriteSetting(i) \/ \E due \in Dues : Schedule(i, due)
    PROVE  AuthoringInv'
<1>1. CASE Withdraw(i)
  <2> DEFINE r == [task EXCEPT !.withdrawn = ~@]
             me == [Blank EXCEPT !.stage = "withdrawing", !.carried = r]
  <2>1. r \in Rows
    BY <1>1 DEF Withdraw, AuthoringInv, TypeOK, Rows
  <2> HIDE DEF r
  <2>2. Fits(me, task) /\ me.stage # "deleting"
    BY <2>1, SettingFits
  <2>3. Ask(i, me) /\ UNCHANGED <<task, versions, drafts, hand>>
    BY <1>1 DEF Withdraw, r
  <2> HIDE DEF me
  <2> QED BY <2>2, <2>3, Begins
<1>2. ASSUME NEW due \in Dues, Schedule(i, due) PROVE AuthoringInv'
  <2> DEFINE r == [task EXCEPT !.due = due]
             me == [Blank EXCEPT !.stage = "scheduling", !.carried = r]
  <2>1. r \in Rows
    BY <1>2 DEF Schedule, AuthoringInv, TypeOK, Rows
  <2> HIDE DEF r
  <2>2. Fits(me, task) /\ me.stage # "deleting"
    BY <2>1, SettingFits
  <2>3. Ask(i, me) /\ UNCHANGED <<task, versions, drafts, hand>>
    BY <1>2 DEF Schedule, r
  <2> HIDE DEF me
  <2> QED BY <2>2, <2>3, Begins
<1>3. CASE WriteSetting(i)
  <2>1. desk[i] \in Requests
    BY <1>3, UnderWay DEF WriteSetting
  <2>2. task' \in Rows \cup {None} /\ WriteAndStep(i, None)
        /\ UNCHANGED <<versions, drafts, hand, requests>>
    BY <1>3, <2>1 DEF WriteSetting, Requests
  <2> QED BY <2>2, WritesQuietly
<1> QED BY <1>1, <1>2, <1>3

\* What a deletion finds not to be there comes later, and knows it.
LEMMA Deleting ==
    ASSUME AuthoringInv, NEW i \in Instructors, Delete(i)
    PROVE  AuthoringInv'
<1> DEFINE me == [Blank EXCEPT !.stage = "deleting"]
<1>1. /\ Step(i, me) /\ UNCHANGED <<task, versions, drafts, hand>>
      /\ requests' \in 0 .. MaxRequests /\ task # None
  BY AuthoringAssumption DEF Delete, Ask, Step, AuthoringInv, TypeOK
<1>2. Fits(me, task)
  BY <1>1, SettingFits DEF AuthoringInv, TypeOK
<1> HIDE DEF me
<1>3. DeskFits' /\ desk' \in [Instructors -> Requests \cup {None}]
  BY <1>1, <1>2, Moves
<1>4. \A l \in Learners : hand[l] # None /\ hand[l].stage = "in" => hand[l].late
  <2> SUFFICES ASSUME NEW l \in Learners, hand[l] # None, hand[l].stage = "in", ~hand[l].late
               PROVE  FALSE
    BY DEF AuthoringInv, TypeOK, Hands
  <2>1. hand[l].number \in Published
    BY DEF AuthoringInv, PagesHold
  <2> QED BY <2>1 DEF Delete, Published
<1>5. TypeOK' /\ Counted'
  BY <1>1, <1>3, <1>4 DEF AuthoringInv, TypeOK, Counted
<1>6. PagesHold'
      /\ (\A n \in Stored : versions[n].published = Approved(versions[n].content.origin))'
  BY <1>1 DEF AuthoringInv, PagesHold, Published, Stored, Approved
<1> QED BY <1>3, <1>5, <1>6 DEF AuthoringInv, DeskFits

LEMMA Removing ==
    ASSUME AuthoringInv, NEW i \in Instructors, Remove(i)
    PROVE  AuthoringInv'
<1>1. /\ desk[i] # None /\ desk[i].stage = "deleting" /\ WriteAndStep(i, None)
      /\ task' = None /\ versions' = [n \in Numbers |-> None]
      /\ UNCHANGED <<drafts, requests>>
      /\ hand' = [l \in Learners |->
                     IF hand[l] = None THEN None
                     ELSE [hand[l] EXCEPT !.reopened = @ \/ hand[l].stage = "open",
                                          !.late = @ \/ hand[l].stage = "gated"]]
  BY DEF Remove
<1>2. DeskFits' /\ desk' \in [Instructors -> Requests \cup {None}]
  BY <1>1, Overwrites
<1>3. ASSUME NEW l \in Learners, hand[l] # None
      PROVE  /\ hand'[l] \in Hands /\ hand'[l].stage = hand[l].stage
             /\ hand[l].stage = "open" => hand'[l].reopened
             /\ hand[l].stage # "open" => hand'[l].late
  <2>1. hand[l] \in Hands
    BY <1>3 DEF AuthoringInv, TypeOK
  <2>2. /\ hand[l].stage \in {"open", "gated", "in"}
        /\ hand[l].reopened \in BOOLEAN /\ hand[l].late \in BOOLEAN
    BY <2>1 DEF Hands
  <2>3. hand[l].stage = "in" => hand[l].late
    BY <1>1, <1>3 DEF AuthoringInv, Counted
  <2>4. hand'[l] = [hand[l] EXCEPT !.reopened = @ \/ hand[l].stage = "open",
                                   !.late = @ \/ hand[l].stage = "gated"]
    BY <1>1, <1>3
  <2>5. hand'[l] \in Hands
    BY <2>1, <2>2, <2>4 DEF Hands
  <2>6. /\ hand'[l].stage = hand[l].stage
        /\ hand'[l].reopened = (hand[l].reopened \/ hand[l].stage = "open")
        /\ hand'[l].late = (hand[l].late \/ hand[l].stage = "gated")
    BY <2>1, <2>4 DEF Hands
  <2> QED BY <2>2, <2>3, <2>5, <2>6
<1>4. \A l \in Learners : hand[l] = None => hand'[l] = None
  BY <1>1
<1>5. hand' \in [Learners -> Hands \cup {None}]
  <2>1. \A l \in Learners : hand'[l] \in Hands \cup {None}
    BY <1>3, <1>4
  <2> QED BY <1>1, <2>1
<1>6. TypeOK'
  BY <1>1, <1>2, <1>5 DEF AuthoringInv, TypeOK
<1>7. PagesHold'
  BY <1>3, <1>4 DEF PagesHold
<1>8. Counted'
  BY <1>3, <1>4 DEF Counted
<1>9. Stored' = {}
  BY <1>1 DEF Stored
<1> QED BY <1>2, <1>6, <1>7, <1>8, <1>9 DEF AuthoringInv, DeskFits

\* The request of nobody moves.
LEMMA DeskRests ==
    ASSUME AuthoringInv, UNCHANGED <<task, versions, desk>>
    PROVE  /\ DeskFits' /\ desk' \in [Instructors -> Requests \cup {None}]
           /\ task' \in Rows \cup {None} /\ versions' \in [Numbers -> Versions \cup {None}]
           /\ (\A n \in Stored : versions[n].published = Approved(versions[n].content.origin))'
<1>1. DeskFits
  BY DEF AuthoringInv, DeskFits
<1>2. DeskFits'
  BY <1>1 DEF DeskFits
<1> QED BY <1>2 DEF AuthoringInv, TypeOK, Stored, Approved

LEMMA Drafting ==
    ASSUME AuthoringInv, NEW text \in Texts,
           Drop(text) \/ \E i \in Instructors : Propose(i, text)
    PROVE  AuthoringInv'
<1>1. /\ UNCHANGED <<task, versions, desk, hand>>
      /\ drafts' \subseteq Texts /\ requests' \in 0 .. MaxRequests
  BY AuthoringAssumption DEF Drop, Propose, AuthoringInv, TypeOK
<1>2. DeskFits' /\ desk' \in [Instructors -> Requests \cup {None}] /\ task' \in Rows \cup {None}
  BY <1>1, DeskRests
<1> QED BY <1>1, <1>2, Quiet

\* What a learner opens is what is published; the gate looks again, and a
\* submission may only come late.
LEMMA Learning ==
    ASSUME AuthoringInv, NEW l \in Learners, Open(l) \/ Gate(l) \/ Submit(l)
    PROVE  AuthoringInv'
<1>1. UNCHANGED <<task, versions, drafts, desk, requests>>
  BY DEF Open, Gate, Submit
<1> DEFINE Holds(me) ==
      ~me.late =>
        /\ me.stage # "open" \/ ~me.reopened =>
              /\ me.number \in Published
              /\ versions[me.number].content = IF me.stage = "open" THEN me.seen ELSE me.passed
        /\ me.reopened \/ (IF me.stage = "open" THEN me.seen ELSE me.passed) = me.seen
           Right(me) ==
      /\ me \in Hands /\ Holds(me)
      /\ me.stage = "in" =>
            me.late \/ \A i \in Instructors : ~(desk[i] # None /\ desk[i].stage = "deleting")
<1>2. hand \in [Learners -> Hands \cup {None}]
  BY DEF AuthoringInv, TypeOK
<1>3. ASSUME hand[l] # None PROVE hand[l] \in Hands /\ Holds(hand[l])
  BY <1>2, <1>3 DEF AuthoringInv, PagesHold
<1>4. \E me : Right(me) /\ hand' = [hand EXCEPT ![l] = me]
  <2>1. CASE Open(l)
    <3>1. PICK n \in Published :
             hand' = [hand EXCEPT ![l] = [stage |-> "open", number |-> n,
                                          seen |-> versions[n].content, passed |-> None,
                                          reopened |-> FALSE, late |-> FALSE]]
      BY <2>1 DEF Open
    <3>2. n \in Numbers /\ versions[n].content \in Contents
      BY StoredTyped DEF Published, Stored
    <3> DEFINE me == [stage |-> "open", number |-> n, seen |-> versions[n].content,
                      passed |-> None, reopened |-> FALSE, late |-> FALSE]
    <3>3. me \in Hands
      BY <3>2 DEF Hands
    <3>4. Right(me)
      BY <3>3
    <3> QED BY <3>1, <3>4
  <2>2. CASE Gate(l)
    <3> DEFINE me == [hand[l] EXCEPT !.stage = "gated",
                                     !.passed = versions[hand[l].number].content]
    <3>1. /\ hand[l] # None /\ hand[l].stage = "open" /\ hand[l].number \in Published
          /\ hand' = [hand EXCEPT ![l] = me]
      BY <2>2, <1>2 DEF Gate
    <3>2. hand[l] \in Hands /\ Holds(hand[l])
      BY <3>1, <1>3
    <3>3. versions[hand[l].number].content \in Contents
      BY <3>1, StoredTyped DEF Published
    <3>4. me \in Hands
      BY <3>2, <3>3 DEF Hands
    <3>5. /\ me.stage = "gated" /\ me.number = hand[l].number /\ me.late = hand[l].late
          /\ me.passed = versions[hand[l].number].content /\ me.seen = hand[l].seen
          /\ me.reopened = hand[l].reopened
      BY <3>2 DEF Hands
    <3> HIDE DEF me
    <3>6. Right(me)
      BY <3>1, <3>2, <3>4, <3>5
    <3> QED BY <3>1, <3>6
  <2>3. CASE Submit(l)
    <3> DEFINE gone == \E i \in Instructors : desk[i] # None /\ desk[i].stage = "deleting"
               me == [hand[l] EXCEPT !.stage = "in", !.late = @ \/ gone]
    <3>1. /\ hand[l] # None /\ hand[l].stage = "gated"
          /\ hand' = [hand EXCEPT ![l] = me]
      BY <2>3, <1>2 DEF Submit
    <3>2. hand[l] \in Hands /\ Holds(hand[l])
      BY <3>1, <1>3
    <3>3. hand[l].late \in BOOLEAN /\ gone \in BOOLEAN
      BY <3>2 DEF Hands
    <3> HIDE DEF gone
    <3>4. me \in Hands
      BY <3>2, <3>3 DEF Hands
    <3>5. /\ me.stage = "in" /\ me.number = hand[l].number /\ me.late = (hand[l].late \/ gone)
          /\ me.passed = hand[l].passed /\ me.seen = hand[l].seen
          /\ me.reopened = hand[l].reopened
      BY <3>2 DEF Hands
    <3> HIDE DEF me
    <3>6. Holds(me)
      BY <3>1, <3>2, <3>3, <3>5
    <3>7. me.late \/ \A i \in Instructors : ~(desk[i] # None /\ desk[i].stage = "deleting")
      BY <3>5 DEF gone
    <3> QED BY <3>1, <3>4, <3>6, <3>7
  <2> QED BY <2>1, <2>2, <2>3
<1>5. PICK me : Right(me) /\ hand' = [hand EXCEPT ![l] = me]
  BY <1>4
<1>6. hand'[l] = me /\ \A k \in Learners \ {l} : hand'[k] = hand[k]
  BY <1>2, <1>5
<1>7. TypeOK'
  BY <1>1, <1>2, <1>5 DEF AuthoringInv, TypeOK
<1>8. \A k \in Learners : hand'[k] # None => Holds(hand'[k])
  BY <1>5, <1>6 DEF AuthoringInv, PagesHold
<1>9. PagesHold'
  BY <1>1, <1>8 DEF PagesHold, Published, Stored
<1>10. Counted'
  BY <1>1, <1>5, <1>6 DEF AuthoringInv, Counted
<1> QED BY <1>1, <1>7, <1>9, <1>10, DeskRests DEF AuthoringInv, DeskFits

LEMMA NextKeepsInv == ASSUME AuthoringInv, Next PROVE AuthoringInv'
<1>1. ASSUME NEW i \in Instructors,
             \/ Restore(i) \/ GenerateTests(i) \/ Saving(i)
             \/ Withdraw(i) \/ WriteSetting(i) \/ Delete(i) \/ Remove(i)
             \/ \E due \in Dues : Schedule(i, due)
             \/ \E text \in Texts :
                   \/ Revise(i, text) \/ Approve(i, text) \/ Add(i, text) \/ Propose(i, text)
                   \/ \E due \in Dues : Import(i, text, due)
      PROVE  AuthoringInv'
  <2>1. CASE Restore(i) \/ GenerateTests(i)
    BY <2>1, Correcting
  <2>2. CASE Saving(i)
    BY <2>2, Numbering, Carrying, Committing, Answering, Settling, Placing DEF Saving
  <2>3. CASE Withdraw(i) \/ WriteSetting(i) \/ \E due \in Dues : Schedule(i, due)
    BY <2>3, Settings
  <2>4. CASE Delete(i) \/ Remove(i)
    BY <2>4, Deleting, Removing
  <2>5. ASSUME NEW text \in Texts,
               \/ Revise(i, text) \/ Approve(i, text) \/ Add(i, text) \/ Propose(i, text)
               \/ \E due \in Dues : Import(i, text, due)
        PROVE  AuthoringInv'
    BY <2>5, Asking, Drafting
  <2> QED BY <1>1, <2>1, <2>2, <2>3, <2>4, <2>5
<1>2. ASSUME NEW text \in Texts, Drop(text) PROVE AuthoringInv'
  BY <1>2, Drafting
<1>3. ASSUME NEW l \in Learners, Open(l) \/ Gate(l) \/ Submit(l) PROVE AuthoringInv'
  BY <1>3, Learning
<1> QED BY <1>1, <1>2, <1>3 DEF Next

\* Nothing happens.
LEMMA StutterKeepsInv == ASSUME AuthoringInv, UNCHANGED vars PROVE AuthoringInv'
<1>1. UNCHANGED <<task, versions, desk, hand, drafts, requests>>
  BY DEF vars
<1>2. TypeOK'
  BY <1>1 DEF AuthoringInv, TypeOK
<1>3. PagesHold' /\ Counted'
  BY <1>1 DEF AuthoringInv, PagesHold, Counted, Published, Stored
<1> QED BY <1>1, <1>2, <1>3, DeskRests DEF AuthoringInv, DeskFits

-----------------------------------------------------------------------------
(* Between the reading of the task and the answer                          *)

Waits(i) == desk'[i] # None /\ desk'[i].stage = desk[i].stage

\* A request that has read the task moves on by its own steps alone.
LEMMA OthersWait ==
    ASSUME AuthoringInv, Next, NEW i \in Instructors,
           desk[i] # None, desk[i].stage \in {"carried", "saved", "settled"}
    PROVE  Commit(i) \/ Refuse(i) \/ Settle(i) \/ Place(i) \/ RemoveDraft(i) \/ Waits(i)
<1>0. desk[i] \in Requests /\ DOMAIN desk = Instructors /\ desk \in [Instructors -> Requests \cup {None}]
  BY DEF AuthoringInv, TypeOK
<1>1. ASSUME NEW j \in Instructors, NEW me, Step(j, me), j # i PROVE Waits(i)
  BY <1>0, <1>1 DEF Step, Waits
<1>2. ASSUME NEW j \in Instructors, NEW me, WriteAndStep(j, me), j # i PROVE Waits(i)
  <2>1. desk'[i] = [desk[i] EXCEPT !.touched = @ \cup Changed(task, task')]
    BY <1>2 DEF WriteAndStep
  <2>2. desk'[i] \in Requests /\ desk'[i].stage = desk[i].stage
    <3>1. PICK x : x = Changed(task, task')
      OBVIOUS
    <3>2. x \subseteq Fields
      BY <3>1 DEF Changed
    <3>3. desk'[i] = [desk[i] EXCEPT !.touched = @ \cup x]
      BY <2>1, <3>1
    <3> QED BY <3>2, <3>3, <1>0 DEF Requests
  <2> QED BY <2>2, AuthoringAssumption DEF Waits
<1>3. ASSUME desk' = desk PROVE Waits(i)
  BY <1>3 DEF Waits
<1>4. ASSUME NEW j \in Instructors, NEW me, Ask(j, me) PROVE Waits(i)
  <2>1. j # i /\ Step(j, me)
    BY <1>4 DEF Ask, Step
  <2> QED BY <2>1, <1>1
<1>5. ASSUME NEW j \in Instructors, Restore(j) \/ GenerateTests(j) PROVE Waits(i)
  <2>1. \E me : Ask(j, me)
    <3>1. CASE Restore(j)
      BY <3>1 DEF Restore, Correct, Save
    <3>2. CASE GenerateTests(j)
      BY <3>2 DEF GenerateTests, Correct, Save
    <3> QED BY <1>5, <3>1, <3>2
  <2> QED BY <2>1, <1>4
<1>7. ASSUME NEW j \in Instructors, NEW text \in Texts,
             \/ Revise(j, text) \/ Approve(j, text) \/ Add(j, text) \/ Propose(j, text)
             \/ \E due \in Dues : Import(j, text, due)
      PROVE  Waits(i)
  <2>1. CASE Revise(j, text)
    <3>1. \E me : Ask(j, me)
      BY <2>1 DEF Revise, Correct, Save
    <3> QED BY <3>1, <1>4
  <2>2. CASE Approve(j, text)
    <3>1. \E me : Ask(j, me)
      BY <2>2 DEF Approve, Correct, Save
    <3> QED BY <3>1, <1>4
  <2>3. ASSUME NEW due \in Dues, Import(j, text, due) PROVE Waits(i)
    <3>1. \E me : Ask(j, me)
      BY <2>3 DEF Import, Save
    <3> QED BY <3>1, <1>4
  <2>4. CASE Add(j, text)
    <3>1. \E me : Ask(j, me)
      BY <2>4 DEF Add, Save
    <3> QED BY <3>1, <1>4
  <2>5. CASE Propose(j, text)
    BY <2>5, <1>3 DEF Propose
  <2> QED BY <1>7, <2>1, <2>2, <2>3, <2>4, <2>5
<1>8. ASSUME NEW j \in Instructors,
             Withdraw(j) \/ Delete(j) \/ \E due \in Dues : Schedule(j, due)
      PROVE  Waits(i)
  <2>1. \E me : Ask(j, me)
    BY <1>8 DEF Withdraw, Delete, Schedule
  <2> QED BY <2>1, <1>4
<1>9. ASSUME NEW j \in Instructors, WriteSetting(j) \/ Remove(j) PROVE Waits(i)
  <2>1. j # i /\ \E me : WriteAndStep(j, me)
    BY <1>9 DEF WriteSetting, Remove
  <2> QED BY <2>1, <1>2
<1>10. ASSUME NEW j \in Instructors, Number(j) \/ Carry(j) PROVE Waits(i)
  <2>1. j # i
    BY <1>10 DEF Number, Carry
  <2>2. \E me : Step(j, me)
    <3>1. CASE Number(j)
      BY <3>1 DEF Number
    <3>2. CASE Carry(j)
      BY <3>2 DEF Carry
    <3> QED BY <1>10, <3>1, <3>2
  <2> QED BY <2>1, <2>2, <1>1
<1>11. ASSUME NEW j \in Instructors, j # i,
              Commit(j) \/ Refuse(j) \/ Settle(j) \/ Place(j) \/ RemoveDraft(j)
       PROVE  Waits(i)
  <2>1. \E me : Step(j, me) \/ WriteAndStep(j, me)
    <3>1. CASE Commit(j) \/ Settle(j) \/ Place(j)
      BY <3>1 DEF Commit, Settle, Place
    <3>2. CASE Refuse(j) \/ RemoveDraft(j)
      BY <3>2 DEF Refuse, RemoveDraft
    <3> QED BY <1>11, <3>1, <3>2
  <2> QED BY <2>1, <1>11, <1>1, <1>2
<1>12. ASSUME NEW l \in Learners, Open(l) \/ Gate(l) \/ Submit(l) PROVE Waits(i)
  BY <1>3, <1>12 DEF Open, Gate, Submit
<1>13. ASSUME NEW text \in Texts, Drop(text) PROVE Waits(i)
  BY <1>3, <1>13 DEF Drop
<1>14. ASSUME NEW j \in Instructors, Saving(j)
       PROVE  Commit(i) \/ Refuse(i) \/ Settle(i) \/ Place(i) \/ RemoveDraft(i) \/ Waits(i)
  BY <1>14, <1>10, <1>11 DEF Saving
<1> QED BY <1>5, <1>7, <1>8, <1>9, <1>12, <1>13, <1>14 DEF Next

LEMMA AnswersArePublished ==
    ASSUME AuthoringInv, [Next]_vars, NEW i \in Instructors,
           desk[i] # None, desk[i].stage = "carried", Approved(desk[i].asked.origin),
           desk'[i] # None, desk'[i].stage = "saved"
    PROVE  \E n \in Numbers :
              /\ versions'[n] # None /\ versions'[n].published
              /\ versions'[n].content = desk[i].asked
<1>1. CASE UNCHANGED vars
  BY <1>1 DEF vars
<1>2. CASE Next
  <2>1. ~Waits(i) /\ ~Settle(i) /\ ~Place(i) /\ ~RemoveDraft(i)
    BY DEF Waits, Settle, Place, RemoveDraft
  <2>2. ~Refuse(i)
    <3>1. Refuse(i) => desk'[i] = None
      BY DEF Refuse, Step, AuthoringInv, TypeOK
    <3> QED BY <3>1
  <2>3. Commit(i)
    BY <1>2, <2>1, <2>2, OthersWait
  <2> QED BY <2>3, Committing
<1> QED BY <1>1, <1>2

LEMMA SettingsStay ==
    ASSUME AuthoringInv, [Next]_vars, NEW i \in Instructors, Writes(i)
    PROVE  /\ task'.withdrawn # task.withdrawn => "withdrawn" \in desk[i].touched
           /\ task'.due # task.due => "due" \in desk[i].touched \/ Gives(i, task'.due)
<1>1. CASE UNCHANGED vars
  BY <1>1 DEF vars
<1>2. CASE Next
  <2>1. task # None /\ task' # None /\ ~Waits(i)
    BY DEF Writes, Waits
  <2>2. Commit(i) \/ Refuse(i) \/ Settle(i) \/ Place(i) \/ RemoveDraft(i)
    BY <1>2, <2>1, OthersWait DEF Writes
  <2>3. CASE Refuse(i) \/ RemoveDraft(i)
    BY <2>3 DEF Refuse, RemoveDraft
  <2>4. CASE Commit(i) \/ Settle(i) \/ Place(i)
    <3>1. Spares(i)
      BY <2>4, Committing, Settling, Placing
    <3> QED BY <2>1, <3>1 DEF Spares
  <2> QED BY <2>2, <2>3, <2>4
<1> QED BY <1>1, <1>2

-----------------------------------------------------------------------------
(* The theorems                                                            *)

\* The inductive invariant: types, what a request under way has read and may
\* rely on as far as nobody has changed it since, pages that name what is
\* stored, and the deletions under way (save_task, save_version, delete_task).
THEOREM AuthoringInvariant == Spec => []AuthoringInv
<1>1. AuthoringInv /\ [Next]_vars => AuthoringInv'
  BY NextKeepsInv, StutterKeepsInv
<1> QED BY InitHolds, <1>1, PTL DEF Spec

\* The version a submission names is the one its request was let in for, and the
\* one its learner had read, but for the deletions that PinnedContent names:
\* save_version writes no row twice, whatever the consoles do at once (P8).
THEOREM SubmissionsArePinned == Spec => []PinnedContent
<1>1. AuthoringInv => PinnedContent
  BY DEF AuthoringInv, PagesHold, PinnedContent
<1> QED BY <1>1, AuthoringInvariant, PTL

\* A correction the console has answered as saved is one that learners can be
\* given: of two consoles that ask for one number, save_version lets one have it.
THEOREM CorrectionsAreGiven == Spec => AnsweredIsPublished
<1>1. AuthoringInv /\ [Next]_vars =>
        \A i \in Instructors :
          /\ desk[i] # None /\ desk[i].stage = "carried" /\ Approved(desk[i].asked.origin)
          /\ desk'[i] # None /\ desk'[i].stage = "saved"
          => \E n \in Numbers :
                /\ versions'[n] # None /\ versions'[n].published
                /\ versions'[n].content = desk[i].asked
  BY AnswersArePublished
<1> QED BY <1>1, AuthoringInvariant, PTL DEF Spec, AnsweredIsPublished

\* save_task carries over what its spec does not hold, field by field: a save
\* changes neither the withdrawal nor the schedule unless it is to give the task
\* another or the task was changed since the request had begun.
THEOREM SettingsAreCarried == Spec => SettingsSurvive
<1>1. AuthoringInv /\ [Next]_vars =>
        \A i \in Instructors : Writes(i) =>
          /\ task'.withdrawn # task.withdrawn => "withdrawn" \in desk[i].touched
          /\ task'.due # task.due => "due" \in desk[i].touched \/ Gives(i, task'.due)
  BY SettingsStay
<1> QED BY <1>1, AuthoringInvariant, PTL DEF Spec, SettingsSurvive

=============================================================================
