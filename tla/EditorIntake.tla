---------------------------- MODULE EditorIntake ----------------------------
(***************************************************************************)
(* How an answer becomes a submission: the learner's editor saves what is  *)
(* written every few seconds (PUT buffer), hands it in when the button is  *)
(* pressed (POST submit), or a file is handed in beside it; when the       *)
(* window of the task has closed, aijudge-ide-close hands in the buffer by *)
(* itself.  All of them go through SubmissionService.accept.               *)
(*                                                                         *)
(* One learner and one task: buffers, keys and submissions of others are   *)
(* apart.  A submission, its key, its grading job and its event are one    *)
(* commit, so a submission stands for the four of them.  The timer of      *)
(* aijudge-ide-close looks back 24 hours; the model stays within them.     *)
(***************************************************************************)
EXTENDS Integers, FiniteSets

CONSTANTS
    Texts,        \* what can be in the editor or in a file, never blank
    Calls,        \* web requests that can be at work at once
    Sweep,        \* the process aijudge-ide-close
    MaxVersion,   \* bound: versions of the task that get published
    MaxEdits,     \* bound: changes of the text in the editor
    MaxSent,      \* bound: requests the learner's browser sends
    MaxCrashes,   \* bound: requests and sweeps that die at work
    MaxLost,      \* bound: requests whose answer never reaches the browser
    None

Server == Calls \union {Sweep}

\* The content key of accept names the version of the task and the content.
Key == [version : 1 .. MaxVersion, text : Texts]

\* A submission, and whose request made it: auto_closed is "by the sweep".
Submission == [version : 1 .. MaxVersion, text : Texts, by : Server]

\* The autosave; late says that it is stamped after accepts_until.
Buffer == [text : Texts, late : BOOLEAN]

\* A request at work, or the sweep on one buffer.
Request == [stage : {"gate", "look", "commit", "stamp", "write", "mark"},
            kind : {"save", "submit", "file", "auto"},
            version : 1 .. MaxVersion, text : Texts,
            late : BOOLEAN,                      \* the stamp of the buffer to write
            sub : Submission \union {None},      \* what accept returned
            heard : BOOLEAN]                     \* the editor still waits for it

ASSUME EditorIntakeAssumption ==
    /\ Sweep \notin Calls
    /\ MaxVersion \in Nat \ {0}
    /\ MaxEdits \in Nat /\ MaxSent \in Nat /\ MaxCrashes \in Nat /\ MaxLost \in Nat
    /\ None \notin Submission \union Buffer \union Request \union {"editor", "auto_close"}

VARIABLES
    screen,    \* the text in the learner's editor
    dirty,     \* the editor holds a change it has not sent to be saved
    closed,    \* accepts_until has passed
    version,   \* the latest published version of the task
    buffer,    \* the row of ide_buffers
    files,     \* artifacts put into the store, by the submission they are for
    subs,      \* submissions with their keys, jobs and events
    origin,    \* ide_submission_links: who is recorded to have handed it in
    calls,     \* the requests and the sweep at work
    edits, sent, crashes, lost

vars == <<screen, dirty, closed, version, buffer, files, subs, origin, calls,
          edits, sent, crashes, lost>>

Page == <<screen, dirty, edits, sent>>
Store == <<buffer, files, subs, origin>>
World == <<closed, version, crashes, lost>>

-----------------------------------------------------------------------------
Init ==
    /\ screen \in Texts /\ dirty = FALSE
    /\ closed = FALSE /\ version = 1
    /\ buffer = None /\ files = {} /\ subs = {}
    /\ origin = [s \in Submission |-> None]
    /\ calls = [c \in Server |-> None]
    /\ edits = 0 /\ sent = 0 /\ crashes = 0 /\ lost = 0

-----------------------------------------------------------------------------
(* The browser: ide.js                                                     *)

Type(t) ==
    /\ t # screen /\ edits < MaxEdits
    /\ screen' = t /\ dirty' = TRUE /\ edits' = edits + 1
    /\ UNCHANGED <<sent, Store, World, calls>>

New(kind, v, t) ==
    [stage |-> "gate", kind |-> kind, version |-> v, text |-> t,
     late |-> FALSE, sub |-> None, heard |-> kind \in {"save", "submit"}]

\* The interval, or the page being hidden: what is dirty is sent.
SendSave(c) ==
    /\ calls[c] = None /\ dirty /\ sent < MaxSent /\ sent' = sent + 1
    /\ calls' = [calls EXCEPT ![c] = New("save", version, screen)]
    /\ dirty' = FALSE
    /\ UNCHANGED <<screen, edits, Store, World>>

\* The button stays disabled until the answer is there.
ButtonFree == \A c \in Calls : calls[c] # None => ~(calls[c].kind = "submit" /\ calls[c].heard)

\* The page may have been loaded before the latest version was published.
SendSubmit(c, v) ==
    /\ calls[c] = None /\ ButtonFree /\ sent < MaxSent /\ sent' = sent + 1
    /\ calls' = [calls EXCEPT ![c] = New("submit", v, screen)]
    /\ UNCHANGED <<screen, dirty, edits, Store, World>>

\* A file of the page beside the editor; it may hold what the editor holds.
SendFile(c, t) ==
    /\ calls[c] = None /\ sent < MaxSent /\ sent' = sent + 1
    /\ calls' = [calls EXCEPT ![c] = New("file", version, t)]
    /\ UNCHANGED <<screen, dirty, edits, Store, World>>

\* What the browser makes of a request that failed: an autosave is due again.
Failed(c) == dirty \/ (calls[c].kind = "save" /\ calls[c].heard)

\* The connection breaks while the server works on.
LoseReply(c) ==
    /\ calls[c] # None /\ calls[c].heard /\ lost < MaxLost
    /\ calls' = [calls EXCEPT ![c].heard = FALSE]
    /\ dirty' = Failed(c)
    /\ lost' = lost + 1
    /\ UNCHANGED <<screen, edits, sent, Store, closed, version, crashes>>

-----------------------------------------------------------------------------
(* The server: the gate, accept, and what the routes write after it        *)

At(c, stage) == calls[c] # None /\ calls[c].stage = stage

Goes(c, stage) == calls' = [calls EXCEPT ![c].stage = stage]

Done(c) == calls' = [calls EXCEPT ![c] = None]

\* The window has closed: 409.
Refuse(c) ==
    /\ At(c, "gate") /\ closed
    /\ Done(c)
    /\ dirty' = Failed(c)
    /\ UNCHANGED <<screen, edits, sent, Store, World>>

Pass(c) ==
    /\ At(c, "gate") /\ ~closed
    /\ Goes(c, IF calls[c].kind = "save" THEN "stamp" ELSE "look")
    /\ UNCHANGED <<Page, Store, World>>

KeyOf(r) == [version |-> r.version, text |-> r.text]

Claims(key) == {s \in subs : KeyOf(s) = key}

\* What a route does with the submission that accept made.
AfterAccept(kind) ==
    CASE kind = "submit" -> "stamp" [] kind = "auto" -> "mark" [] OTHER -> "end"

\* A slip the runs must notice: every route goes on as if it were new.
FoundAsNew(kind) == AfterAccept(kind)

\* accept returned a submission that was there already: only the editor's own
\* route goes on.
AfterFound(kind) == IF kind = "submit" THEN "stamp" ELSE "end"

\* The request goes on with the submission s, or has its answer.
Answered(c, s, stage) ==
    calls' = [calls EXCEPT ![c] = IF stage = "end" THEN None
                                  ELSE [@ EXCEPT !.stage = stage, !.sub = s]]

\* accept finds the key: the same content was handed in before.
Find(c) ==
    /\ At(c, "look")
    /\ \E s \in Claims(KeyOf(calls[c])) : Answered(c, s, AfterFound(calls[c].kind))
    /\ UNCHANGED <<Page, Store, World>>

Made(c) == [version |-> calls[c].version, text |-> calls[c].text, by |-> c]

\* accept finds nothing: the content is put into the store before the rows that
\* name it are written.
PutFiles(c) ==
    /\ At(c, "look") /\ Claims(KeyOf(calls[c])) = {}
    /\ files' = files \union {Made(c)}
    /\ Goes(c, "commit")
    /\ UNCHANGED <<Page, World, buffer, subs, origin>>

\* A slip the runs must notice: nothing stops a key that is taken.
NeverTaken(key) == FALSE

\* The unique key of the row, seen at the flush.
Taken(key) == Claims(key) # {}

Commit(c) ==
    /\ At(c, "commit") /\ ~Taken(KeyOf(calls[c]))
    /\ subs' = subs \union {Made(c)}
    /\ Answered(c, Made(c), AfterAccept(calls[c].kind))
    /\ UNCHANGED <<Page, World, buffer, files, origin>>

\* Another request has claimed the key since: the transaction is rolled back
\* and the request fails; aijudge-ide-close ends.
Collide(c) ==
    /\ At(c, "commit") /\ Taken(KeyOf(calls[c]))
    /\ Done(c)
    /\ UNCHANGED <<Page, Store, World>>

\* make_buffer takes the time ...
Stamp(c) ==
    /\ At(c, "stamp")
    /\ calls' = [calls EXCEPT ![c].stage = "write", ![c].late = closed]
    /\ UNCHANGED <<Page, Store, World>>

\* SqlSubmissionLinkStore.record keeps the first origin.
Recorded(s, by) == [origin EXCEPT ![s] = IF @ = None THEN by ELSE @]

\* ... and the row is written over, with the origin of a submission.
SaveBuffer(c) ==
    /\ At(c, "write")
    /\ buffer' = [text |-> calls[c].text, late |-> calls[c].late]
    /\ origin' = IF calls[c].kind = "submit" THEN Recorded(calls[c].sub, "editor")
                 ELSE origin
    /\ dirty' = (dirty /\ ~(calls[c].kind = "submit" /\ calls[c].heard))
    /\ Done(c)
    /\ UNCHANGED <<screen, edits, sent, World, files, subs>>

-----------------------------------------------------------------------------
(* aijudge-ide-close                                                       *)

\* A slip the runs must notice: who has handed in something is left alone.
LeftAlone(b) == b = None \/ b.late \/ subs # {}

\* The buffer is left out: there is none, or it was saved after the window.
LeftOut(b) == b = None \/ b.late

\* The buffers of the tasks that have closed are read in one transaction.
SweepRead ==
    /\ calls[Sweep] = None /\ closed
    /\ ~LeftOut(buffer)
    /\ calls' = [calls EXCEPT ![Sweep] =
            [New("auto", version, buffer.text) EXCEPT !.stage = "look"]]
    /\ UNCHANGED <<Page, Store, World>>

\* The origin is recorded in a transaction of its own.
Mark ==
    /\ At(Sweep, "mark")
    /\ origin' = Recorded(calls[Sweep].sub, "auto_close")
    /\ Done(Sweep)
    /\ UNCHANGED <<Page, World, buffer, files, subs>>

-----------------------------------------------------------------------------
(* The world around                                                        *)

Close ==
    /\ ~closed /\ closed' = TRUE
    /\ UNCHANGED <<Page, Store, calls, version, crashes, lost>>

\* An instructor publishes a correction of the task.
Publish ==
    /\ version < MaxVersion /\ version' = version + 1
    /\ UNCHANGED <<Page, Store, calls, closed, crashes, lost>>

\* The process dies; what is committed stays.
Crash(c) ==
    /\ calls[c] # None /\ crashes < MaxCrashes
    /\ crashes' = crashes + 1
    /\ Done(c)
    /\ dirty' = Failed(c)
    /\ UNCHANGED <<screen, edits, sent, Store, closed, version, lost>>

Accept(c) == Find(c) \/ PutFiles(c) \/ Commit(c) \/ Collide(c)

Serve(c) == Refuse(c) \/ Pass(c) \/ Accept(c) \/ Stamp(c) \/ SaveBuffer(c)

SweepStep == SweepRead \/ Accept(Sweep) \/ Mark

Next ==
    \/ \E t \in Texts : Type(t)
    \/ \E c \in Calls :
        \/ SendSave(c)
        \/ \E v \in 1 .. version : SendSubmit(c, v)
        \/ \E t \in Texts : SendFile(c, t)
        \/ LoseReply(c) \/ Serve(c)
    \/ SweepStep
    \/ Close \/ Publish
    \/ \E c \in Server : Crash(c)

Spec == Init /\ [][Next]_vars

\* Requests that were received are worked on, and the timer starts the sweep
\* every minute.
FairSpec == Spec /\ (\A c \in Calls : WF_vars(Serve(c))) /\ WF_vars(SweepStep)

-----------------------------------------------------------------------------
(* What must hold                                                          *)

\* Every variable has its type, and a request holds what its stage works with:
\* only the editor's requests write the buffer, and an origin is recorded of a
\* submission that there is.
TypeOK ==
    /\ screen \in Texts /\ dirty \in BOOLEAN /\ closed \in BOOLEAN
    /\ version \in 1 .. MaxVersion
    /\ buffer \in Buffer \union {None}
    /\ files \subseteq Submission /\ subs \subseteq Submission
    /\ origin \in [Submission -> {None, "editor", "auto_close"}]
    /\ calls \in [Server -> Request \union {None}]
    /\ edits \in Nat /\ sent \in Nat /\ crashes \in Nat /\ lost \in Nat
    /\ \A c \in Server : calls[c] # None =>
        /\ (calls[c].kind = "auto") = (c = Sweep)
        /\ At(c, "mark") => c = Sweep /\ calls[c].sub \in subs
        /\ At(c, "stamp") \/ At(c, "write") =>
                \/ calls[c].kind = "save"
                \/ calls[c].kind = "submit" /\ calls[c].sub \in subs
    /\ \A s \in Submission : origin[s] # None => s \in subs

\* However requests, resent requests and the sweep overlap, one version gets
\* one submission of one content, and its content is in the store: the key is
\* looked up long before it is claimed (accept).
SubmissionsSound ==
    /\ \A s, t \in subs : KeyOf(s) = KeyOf(t) => s = t
    /\ subs \subseteq files

\* What is recorded to be handed in automatically was, and the sweep leaves
\* nothing unmarked that it handed in, unless it dies before it could
\* (_close_one; the route may find the submission first and mark it).
MarksTell ==
    \A s \in subs :
        /\ origin[s] = "auto_close" => s.by = Sweep
        /\ s.by = Sweep /\ origin[s] = None =>
                crashes > 0 \/ (At(Sweep, "mark") /\ calls[Sweep].sub = s)

\* After the window has closed, what was saved in time is handed in, through
\* crashes and requests still under way, unless a request that was let in
\* writes the buffer over (close_editor_tasks).
SavedIsHandedIn ==
    \A t \in Texts :
        (closed /\ buffer = [text |-> t, late |-> FALSE])
            ~> (\E s \in subs : s.text = t) \/ buffer # [text |-> t, late |-> FALSE]

-----------------------------------------------------------------------------
(* Why it holds                                                            *)

\* The content is there before the rows are written, and the sweep marks only
\* what it has made itself.
UnderWay ==
    /\ \A c \in Server : At(c, "commit") => Made(c) \in files
    /\ At(Sweep, "mark") => calls[Sweep].sub.by = Sweep

\* Inductive.
IntakeInv == TypeOK /\ SubmissionsSound /\ MarksTell /\ UnderWay

=============================================================================
