---------------------------- MODULE TaskAuthoring ----------------------------
(***************************************************************************)
(* A task, its versions and the instructors who work on it at once: adding *)
(* and importing, correcting, restoring an earlier version, generated      *)
(* tests, drafts that are approved or dropped, schedule, withdrawal and    *)
(* deletion; and the learners whose submissions name a version.            *)
(*                                                                         *)
(* A step is a transaction, or the part of one up to the next read or      *)
(* write: PostgreSQL runs at READ COMMITTED, and no row here is locked by  *)
(* a read.  A request of the console reads, builds and writes in up to     *)
(* four transactions.  Of what a task holds beside its content there is    *)
(* one setting that a specification cannot name (withdrawn) and one that   *)
(* it can (the schedule).                                                  *)
(***************************************************************************)
EXTENDS Integers, FiniteSets

CONSTANTS
    Instructors, Learners,
    Texts,          \* statements with their rubric
    Dues, NoDue,    \* schedules
    MaxVersion,     \* bound on the version numbers
    MaxRequests,    \* bound on the requests of the instructors
    None

VARIABLES
    task,       \* the row of tasks: what is not content, or None
    versions,   \* the rows of task_versions, by number
    drafts,     \* the revisions that wait for approval
    desk,       \* the request an instructor's console is working on
    hand,       \* what a learner has opened or submitted
    requests    \* how many requests there have been

vars == <<task, versions, drafts, desk, hand, requests>>

Numbers == 1 .. MaxVersion

\* Who has written a version, by its provenance; the tests in it may be older.
Origins == {"typed", "drafted", "tests"}
Cases == {"typed", "generated"}         \* "typed": by an instructor, or none
Contents == [text : Texts, cases : Cases, author : Instructors, origin : Origins]

Fields == {"withdrawn", "due"}
Rows == [withdrawn : BOOLEAN, due : Dues]
Versions == [content : Contents, published : BOOLEAN]
Stages == {"asked", "numbered", "carried", "saved", "settled", "placed",
           "withdrawing", "scheduling", "deleting"}
Requests == [stage : Stages, asked : Contents \cup {None},
             kind : {"revise", "import", "add"},
             due : Dues \cup {None},      \* revise: the schedule to write back; import: the
                                          \* one of the specification; add: the unit's
             draft : Texts \cup {None}, number : Numbers \cup {0},
             row : Versions \cup {None}, carried : Rows \cup {None},
             touched : SUBSET Fields]     \* history: what others changed since it began
Hands == [stage : {"open", "gated", "in"}, number : Numbers,
          seen : Contents,                 \* what the page shows
          passed : Contents \cup {None},   \* what the gate has found
          reopened : BOOLEAN,              \* history: the task was deleted while the page was
          late : BOOLEAN]                  \* open; a deletion overlapped the submission

ASSUME AuthoringAssumption ==
    /\ MaxVersion \in Nat \ {0} /\ MaxRequests \in Nat
    /\ NoDue \in Dues
    /\ None \notin Rows \cup Versions \cup Requests \cup Hands \cup Contents \cup Dues

Stored == {n \in Numbers : versions[n] # None}
Published == {n \in Stored : versions[n].published}

\* latest_version and latest_published_version
IsLatest(n, of) == n \in of /\ \A m \in of : m <= n

Typed(text, i) == [text |-> text, cases |-> "typed", author |-> i, origin |-> "typed"]

Init ==
    /\ \/ task = None /\ versions = [n \in Numbers |-> None]
       \/ /\ task = [withdrawn |-> FALSE, due |-> NoDue]
          /\ \E t \in Texts, i \in Instructors :
                versions = [n \in Numbers |->
                    IF n = 1 THEN [content |-> Typed(t, i), published |-> TRUE] ELSE None]
    /\ drafts = {}
    /\ desk = [i \in Instructors |-> None]
    /\ hand = [l \in Learners |-> None]
    /\ requests = 0

-----------------------------------------------------------------------------
(* What a request is made of                                               *)

\* _provenance: generated tests go to review, what else a model has written is
\* approved with its draft.
Approved(origin) == origin # "tests"

\* A slip the runs must notice: the provenance is not part of the content.
SameText(c, d) == c.text = d.text

\* content: the identity is left out, who wrote it is not.
SameContent(c, d) == c = d

\* A slip the runs must notice: a corrected task comes back to the learners.
BackToLearners(existing) == FALSE

\* What no specification holds is carried over ...
KeptWithdrawal(existing) == IF existing = None THEN FALSE ELSE existing.withdrawn

\* ... and the schedule unless the specification names one.
KeptDue(existing, due) ==
    IF due # NoDue THEN due ELSE IF existing = None THEN NoDue ELSE existing.due

\* The Task that save_task builds, field by field.
Rebuilt(request) ==
    [withdrawn |-> KeptWithdrawal(request.carried),
     due |-> KeptDue(request.carried, IF request.kind = "import" THEN request.due ELSE NoDue)]

\* A slip the runs must notice: the version is written again.
Rewritten(n, row) == {[versions EXCEPT ![n] = row]}

\* save_version: the rows it may leave.
Saved(n, row) ==
    {v \in {versions, [versions EXCEPT ![n] = row]} :
        IF versions[n] = None THEN v = [versions EXCEPT ![n] = row]
        ELSE v = versions /\ SameContent(versions[n].content, row.content)}

Ask(i, request) ==
    /\ desk[i] = None /\ requests < MaxRequests
    /\ requests' = requests + 1
    /\ desk' = [desk EXCEPT ![i] = request]

Blank == [stage |-> "asked", asked |-> None, kind |-> "revise", due |-> None, draft |-> None,
          number |-> 0, row |-> None, carried |-> None, touched |-> {}]

Save(i, kind, content, due, draft) ==
    Ask(i, [Blank EXCEPT !.kind = kind, !.asked = content, !.due = due, !.draft = draft])

\* The next stage of i's request; the others learn nothing of what it writes.
Step(i, request) == desk' = [desk EXCEPT ![i] = request]

Changed(r, t) == {f \in Fields : r # t /\ (r = None \/ t = None \/ r[f] # t[f])}

WriteAndStep(i, request) ==
    desk' = [j \in Instructors |->
        IF j = i THEN request
        ELSE IF desk[j] = None THEN None
        ELSE [desk[j] EXCEPT !.touched = @ \cup Changed(task, task')]]

-----------------------------------------------------------------------------
(* The requests that save a version                                        *)

Known == task # None /\ Stored # {}

\* _save_revision writes back the schedule the task had when it was read.
Correct(i, content, draft) == Save(i, "revise", content, task.due, draft)

\* POST revise and the forms of the test data: what a form does not hold is that
\* of the latest version, read or unread.
Revise(i, text) ==
    /\ Known
    /\ \E n \in Stored :
          /\ IsLatest(n, Stored)
          /\ \E cases \in {"typed", versions[n].content.cases} :
                Correct(i, [Typed(text, i) EXCEPT !.cases = cases], None)
    /\ UNCHANGED <<task, versions, drafts, hand>>

\* POST restore: any version, one in review as well.
Restore(i) ==
    /\ Known
    /\ \E n \in Stored :
          Correct(i, [versions[n].content EXCEPT !.author = i, !.origin = "typed"], None)
    /\ UNCHANGED <<task, versions, drafts, hand>>

\* POST test-cases: the model adds tests to a version that has none.
GenerateTests(i) ==
    /\ Known
    /\ \E n \in Stored :
          /\ IsLatest(n, Stored) /\ versions[n].content.cases # "generated"
          /\ Correct(i, [text |-> versions[n].content.text, cases |-> "generated",
                         author |-> i, origin |-> "tests"], None)
    /\ UNCHANGED <<task, versions, drafts, hand>>

\* POST of a draft, decision = approve: the statement is the draft's, the tests
\* are those of the latest version.
Approve(i, text) ==
    /\ text \in drafts /\ Known
    /\ \E n \in Stored :
          /\ IsLatest(n, Stored)
          /\ Correct(i, [text |-> text, cases |-> versions[n].content.cases,
                         author |-> i, origin |-> "drafted"], text)
    /\ UNCHANGED <<task, versions, drafts, hand>>

\* A bundle, or course apply --revise; its specification may name a schedule.
Import(i, text, due) ==
    /\ Save(i, "import", Typed(text, i), due, None)
    /\ UNCHANGED <<task, versions, drafts, hand>>

\* POST tasks: save_task without revise, for a unit that has a task or has none;
\* the model may have written its tests.
Add(i, text) ==
    /\ \E due \in Dues \cup {None},
          content \in {Typed(text, i), [text |-> text, cases |-> "generated",
                                        author |-> i, origin |-> "tests"]} :
            Save(i, "add", content, due, None)
    /\ UNCHANGED <<task, versions, drafts, hand>>

\* The first transaction of save_task: which version is this?
Number(i) ==
    /\ desk[i] # None /\ desk[i].stage = "asked"
    /\ LET new == [content |-> desk[i].asked, published |-> Approved(desk[i].asked.origin)]
           with(n, row) == Step(i, [desk[i] EXCEPT !.stage = "numbered", !.number = n, !.row = row])
       IN  \/ Stored = {} /\ with(1, new)
           \/ \E n \in Stored :
                 /\ IsLatest(n, Stored)
                 /\ \/ SameContent(versions[n].content, new.content) /\ with(n, versions[n])
                    \/ /\ ~SameContent(versions[n].content, new.content)
                       /\ IF desk[i].kind = "add"
                          THEN Step(i, None)
                          ELSE n < MaxVersion /\ with(n + 1, new)
    /\ UNCHANGED <<task, versions, drafts, hand, requests>>

\* Its second transaction reads the task ...
Carry(i) ==
    /\ desk[i] # None /\ desk[i].stage = "numbered"
    /\ Step(i, [desk[i] EXCEPT !.stage = "carried", !.carried = task])
    /\ UNCHANGED <<task, versions, drafts, hand, requests>>

\* ... and writes the task, if it comes out different, and the version.  A row
\* that was not there is put, or found and written; one that is gone cannot be.
Commit(i) ==
    /\ desk[i] # None /\ desk[i].stage = "carried"
    /\ versions' \in Saved(desk[i].number, desk[i].row)
    /\ LET built == Rebuilt(desk[i]) IN
         \/ task' = built /\ (desk[i].carried # None => task # None)
         \/ task' = task /\ built = desk[i].carried
    /\ WriteAndStep(i, [desk[i] EXCEPT !.stage = "saved"])
    /\ UNCHANGED <<drafts, hand, requests>>

\* Another has taken the number, or put or removed the task: all is undone.
Refuse(i) ==
    /\ desk[i] # None /\ desk[i].stage = "carried"
    /\ \/ versions[desk[i].number] # None
       \/ (desk[i].carried = None) # (task = None)
    /\ Step(i, None)
    /\ UNCHANGED <<task, versions, drafts, hand, requests>>

\* What the console writes after that: the schedule of its first read, or of the
\* unit; an import writes nothing more.
Settled(i) ==
    LET built == Rebuilt(desk[i]) IN
    IF desk[i].kind = "import" THEN task
    ELSE IF desk[i].due = None THEN built ELSE [built EXCEPT !.due = desk[i].due]

Settle(i) ==
    /\ desk[i] # None /\ desk[i].stage = "saved"
    /\ task' = Settled(i)
    /\ WriteAndStep(i, IF desk[i].draft = None THEN None
                       ELSE [desk[i] EXCEPT !.stage = "settled"])
    /\ UNCHANGED <<versions, drafts, hand, requests>>

\* An approved draft is placed in a unit, whose schedule it then has, if the
\* form names one and the unit has another task ...
Place(i) ==
    /\ desk[i] # None /\ desk[i].stage = "settled"
    /\ \E due \in Dues : task' = [Rebuilt(desk[i]) EXCEPT !.due = due]
    /\ WriteAndStep(i, [desk[i] EXCEPT !.stage = "placed"])
    /\ UNCHANGED <<versions, drafts, hand, requests>>

\* ... and removed last.
RemoveDraft(i) ==
    /\ desk[i] # None /\ desk[i].stage \in {"settled", "placed"}
    /\ drafts' = drafts \ {desk[i].draft}
    /\ Step(i, None)
    /\ UNCHANGED <<task, versions, hand, requests>>

-----------------------------------------------------------------------------
(* The other requests                                                      *)

\* POST revise-with-ai, and POST of a draft that is dropped.
Propose(i, text) ==
    /\ desk[i] = None /\ requests < MaxRequests /\ Known
    /\ drafts' = drafts \cup {text} /\ requests' = requests + 1
    /\ UNCHANGED <<task, versions, desk, hand>>

Drop(text) ==
    /\ text \in drafts /\ drafts' = drafts \ {text}
    /\ UNCHANGED <<task, versions, desk, hand, requests>>

\* withdraw, also restore=True: reads and writes in one transaction.
Withdraw(i) ==
    /\ task # None
    /\ Ask(i, [Blank EXCEPT !.stage = "withdrawing",
                            !.carried = [task EXCEPT !.withdrawn = ~@]])
    /\ UNCHANGED <<task, versions, drafts, hand>>

\* The schedule of a task: reads in one transaction, writes in another.
Schedule(i, due) ==
    /\ task # None
    /\ Ask(i, [Blank EXCEPT !.stage = "scheduling", !.carried = [task EXCEPT !.due = due]])
    /\ UNCHANGED <<task, versions, drafts, hand>>

\* A row that is gone cannot be updated, but put again.
WriteSetting(i) ==
    /\ desk[i] # None
    /\ \/ desk[i].stage = "scheduling" /\ task' = desk[i].carried
       \/ desk[i].stage = "withdrawing" /\ task # None /\ task' = desk[i].carried
       \/ desk[i].stage = "withdrawing" /\ task = None /\ task' = None
    /\ WriteAndStep(i, None)
    /\ UNCHANGED <<versions, drafts, hand, requests>>

\* delete: counts the submissions in one transaction ...
Delete(i) ==
    /\ task # None
    /\ \A l \in Learners : ~(hand[l] # None /\ hand[l].stage = "in" /\ hand[l].number \in Stored)
    /\ Ask(i, [Blank EXCEPT !.stage = "deleting"])
    /\ UNCHANGED <<task, versions, drafts, hand>>

\* ... and removes the task in another; the learners' pages stay as they are.
Remove(i) ==
    /\ desk[i] # None /\ desk[i].stage = "deleting"
    /\ task' = None /\ versions' = [n \in Numbers |-> None]
    /\ WriteAndStep(i, None)
    /\ hand' = [l \in Learners |->
                   IF hand[l] = None THEN None
                   ELSE [hand[l] EXCEPT !.reopened = @ \/ hand[l].stage = "open",
                                        !.late = @ \/ hand[l].stage = "gated"]]
    /\ UNCHANGED <<drafts, requests>>

-----------------------------------------------------------------------------
(* Learners                                                                *)

\* The page shows the latest published version of a task that is not withdrawn.
Open(l) ==
    /\ hand[l] = None
    /\ task # None /\ ~task.withdrawn
    /\ \E n \in Published :
          /\ IsLatest(n, Published)
          /\ hand' = [hand EXCEPT ![l] = [stage |-> "open", number |-> n,
                                          seen |-> versions[n].content, passed |-> None,
                                          reopened |-> FALSE, late |-> FALSE]]
    /\ UNCHANGED <<task, versions, drafts, desk, requests>>

\* _task_and_course, for the version of the page.  Its id follows from the key
\* and the number, so that a task that was added again has it too.
Gate(l) ==
    /\ hand[l] # None /\ hand[l].stage = "open"
    /\ hand[l].number \in Published /\ task # None /\ ~task.withdrawn
    /\ hand' = [hand EXCEPT ![l].stage = "gated",
                            ![l].passed = versions[hand[l].number].content]
    /\ UNCHANGED <<task, versions, drafts, desk, requests>>

\* accept, in a transaction that does not look at the task again.
Submit(l) ==
    /\ hand[l] # None /\ hand[l].stage = "gated"
    /\ hand' = [hand EXCEPT ![l].stage = "in",
                            ![l].late = @ \/ \E i \in Instructors :
                                                desk[i] # None /\ desk[i].stage = "deleting"]
    /\ UNCHANGED <<task, versions, drafts, desk, requests>>

Saving(i) == Number(i) \/ Carry(i) \/ Commit(i) \/ Refuse(i) \/ Settle(i) \/ Place(i) \/ RemoveDraft(i)

Next ==
    \/ \E i \in Instructors :
          \/ Restore(i) \/ GenerateTests(i) \/ Saving(i)
          \/ Withdraw(i) \/ WriteSetting(i) \/ Delete(i) \/ Remove(i)
          \/ \E due \in Dues : Schedule(i, due)
          \/ \E text \in Texts :
                \/ Revise(i, text) \/ Approve(i, text) \/ Add(i, text) \/ Propose(i, text)
                \/ \E due \in Dues : Import(i, text, due)
    \/ \E text \in Texts : Drop(text)
    \/ \E l \in Learners : Open(l) \/ Gate(l) \/ Submit(l)

Spec == Init /\ [][Next]_vars

-----------------------------------------------------------------------------
(* What must be true of it                                                 *)

TypeOK ==
    /\ task \in Rows \cup {None}
    /\ versions \in [Numbers -> Versions \cup {None}]
    /\ drafts \subseteq Texts
    /\ desk \in [Instructors -> Requests \cup {None}]
    /\ hand \in [Learners -> Hands \cup {None}]
    /\ requests \in 0 .. MaxRequests

\* The version that a submission names is there, published, and the one its
\* request was let in for, however the task was corrected, restored, or deleted
\* and added again; but for a deletion that came between the gate and the
\* submission, or had counted the submissions before this one came.  And it is
\* what the learner had read, but for a task that was deleted and added again
\* while his page was open.
PinnedContent ==
    \A l \in Learners :
        hand[l] # None /\ hand[l].stage = "in" /\ ~hand[l].late =>
            /\ hand[l].number \in Published
            /\ versions[hand[l].number].content = hand[l].passed
            /\ hand[l].reopened \/ hand[l].passed = hand[l].seen

\* A correction that is answered is one that learners can be given, though two
\* consoles ask for the same number and generated versions lie in between.
AnsweredIsPublished ==
    [][\A i \in Instructors :
          /\ desk[i] # None /\ desk[i].stage = "carried" /\ Approved(desk[i].asked.origin)
          /\ desk'[i] # None /\ desk'[i].stage = "saved"
          => \E n \in Numbers :
                /\ versions'[n] # None /\ versions'[n].published
                /\ versions'[n].content = desk[i].asked]_vars

\* i's request writes the row of the task as part of saving a version.
Writes(i) ==
    /\ desk[i] # None /\ desk[i].stage \in {"carried", "saved", "settled"}
    /\ desk'[i] = None \/ desk'[i].stage # desk[i].stage
    /\ task # None /\ task' # None

\* The schedule that i's request is to give the task: the specification's, the
\* unit's of a new task, the unit's that a draft is placed in.
Gives(i, due) ==
    \/ desk[i].kind # "revise" /\ due = desk[i].due
    \/ desk[i].stage = "settled"

\* Saving a version changes no setting that it was not asked to change, though it
\* rebuilds and writes the whole task two or three times, whatever other versions
\* are saved meanwhile: a change of a setting is undone only by a save that began
\* before it, and no other setting with it.
SettingsSurvive ==
    [][\A i \in Instructors : Writes(i) =>
          /\ task'.withdrawn # task.withdrawn => "withdrawn" \in desk[i].touched
          /\ task'.due # task.due => "due" \in desk[i].touched \/ Gives(i, task'.due)]_vars

-----------------------------------------------------------------------------
(* Why they hold                                                           *)

\* The field f of the row is as r says.
Same(f, t, r) == t # None /\ r # None /\ t[f] = r[f]

\* What is true of a request while the task's row is t.
Fits(me, t) ==
    /\ me \in Requests
    /\ me.stage \in {"asked", "numbered", "carried"} => me.asked \in Contents
    /\ me.stage \in {"numbered", "carried"} =>
          /\ me.number \in Numbers /\ me.row \in Versions
          /\ me.row.content = me.asked
          /\ me.row.published = Approved(me.asked.origin)
    /\ me.stage \in {"asked", "numbered", "carried", "saved"} =>
          /\ me.kind # "add" => me.due # None
          /\ me.kind = "revise" /\ "due" \notin me.touched => t # None /\ t.due = me.due
    /\ me.stage = "carried" =>
          \A f \in Fields \ me.touched : Same(f, t, me.carried) \/ (t = None /\ me.carried = None)
    /\ me.stage = "saved" => \A f \in Fields \ me.touched : Same(f, t, Rebuilt(me))
    /\ me.stage = "settled" /\ "withdrawn" \notin me.touched => Same("withdrawn", t, Rebuilt(me))

\* What a page or a request was made of is still there, unless the task was
\* deleted meanwhile.
PagesHold ==
    \A l \in Learners : hand[l] # None /\ ~hand[l].late =>
        LET me == hand[l]  content == IF me.stage = "open" THEN me.seen ELSE me.passed IN
        /\ me.stage # "open" \/ ~me.reopened =>
              me.number \in Published /\ versions[me.number].content = content
        /\ me.reopened \/ content = me.seen

\* What a deletion has counted goes for the submissions that came since.
Counted ==
    \A i \in Instructors : desk[i] # None /\ desk[i].stage = "deleting" =>
        \A l \in Learners : hand[l] # None /\ hand[l].stage = "in" => hand[l].late

AuthoringInv ==
    /\ TypeOK /\ PagesHold /\ Counted
    /\ \A i \in Instructors : desk[i] # None => Fits(desk[i], task)
    /\ \A n \in Stored : versions[n].published = Approved(versions[n].content.origin)

=============================================================================
