--------------------------- MODULE ResumableUpload ---------------------------
(***************************************************************************)
(* How a video becomes a submission and how it goes again: the page opens  *)
(* an upload session, sends the file piece by piece (PATCH), and finishes  *)
(* it (POST finish), which moves the received file into the video store    *)
(* and records a submission; submit-video does it in one request.  When    *)
(* the retention has passed, `aijudge-admin video purge` deletes the file  *)
(* and then marks the artifact.                                            *)
(*                                                                         *)
(* One learner, one task, one video, and the page in several tabs, which   *)
(* share what localStorage remembers.  The video is the units 1 .. Size; a *)
(* unit is what one write to the disk makes visible at once.  A request is *)
(* cut off when its connection breaks while the server works on: the page  *)
(* asks for the offset and goes on, although the request is still there.   *)
(***************************************************************************)
EXTENDS Integers, Sequences, FiniteSets

CONSTANTS
    Uploads,      \* ids of upload sessions
    Keys,         \* storage keys; the submission made of a file is named by it
    Tabs,         \* tabs of the browser that show the task's page
    Calls,        \* requests that can be at work at once
    Whole,        \* the content key of submit-video: the hash of this video
    Size,         \* units of the video
    Chunk,        \* units of a piece: UPLOAD_CHUNK_BYTES
    Limit,        \* max_bytes of the session
    Cap,          \* max_concurrent_video
    MaxLost,      \* bound: connections that break, tabs that take up what another is at
    MaxFaults,    \* bound: restarts of the server, errors of the database and the store
    None

ASSUME ResumableUploadAssumption ==
    /\ Size \in Nat \ {0} /\ Chunk \in Nat \ {0} /\ Limit \in Nat /\ Cap \in Nat
    /\ MaxLost \in Nat /\ MaxFaults \in Nat
    /\ Uploads \cap Keys = {} /\ Whole \notin Uploads
    /\ None \notin Uploads \cup Keys \cup Tabs

Video == [i \in 1 .. Size |-> i]

Bytes == Seq(1 .. Size)

Submission == [by : Uploads \cup {Whole},      \* the idempotency key
               says : Bytes,                    \* content_hash and byte_size
               purged : BOOLEAN]                \* purged_at is set

Request == [stage : {"body", "open", "write", "stream", "hash", "move", "look", "commit", "discard"},
            kind : {"append", "finish", "whole"},
            upload : Uploads \cup {None},
            offset : Nat, done : Nat,           \* append: where it starts, units written
            to : Uploads \cup Keys \cup {None}, \* append: the file its handle is open on
            key : Keys \cup {None},             \* finish: the storage key it has chosen
            hash : Bytes,                       \* finish: what adopt has read
            heard : Tabs \cup {None}]           \* the tab that still waits for it

Page == [state : {"idle", "resume", "send", "wait", "ask", "finish"},
         upload : Uploads \cup {None}, offset : Nat]

Purge == [stage : {"idle", "delete"}, plan : SUBSET Keys, gone : SUBSET Keys]

ASSUME NoneIsNothing ==
    None \notin Bytes /\ None \notin Submission /\ None \notin Request

VARIABLES
    page,      \* the script of the page in each tab
    remembered,\* the upload that localStorage remembers
    begun,     \* ids given to a session so far
    session,   \* <id>.json is there
    expired,   \* sessions older than the ttl
    file,      \* <id>.part of a session, and the video store: what is at a place
    calls,     \* the requests at work
    taken,     \* storage keys chosen so far
    subs,      \* submissions with their idempotency key, job and event
    closed,    \* the task takes no submissions any more
    old,       \* submissions whose retention has passed
    purge,     \* the process `aijudge-admin video purge`
    lost, faults

\* History, which no action reads: what the properties ask of the past.
VARIABLES
    cut,       \* uploads with a request that was cut off, or that a tab took up
               \* while another tab was at it
    dropped,   \* keys of the requests that were at work when the student web died
    unheard    \* submissions whose commit was reported as failed

vars == <<page, remembered, begun, session, expired, file, calls, taken, subs, closed,
          old, purge, lost, faults, cut, dropped, unheard>>

Sessions == <<begun, session, expired>>
Course == <<closed, old, purge>>
History == <<cut, dropped, unheard>>
World == <<Course, lost, faults, History>>

-----------------------------------------------------------------------------
IdlePage == [state |-> "idle", upload |-> None, offset |-> 0]

Init ==
    /\ page = [t \in Tabs |-> IdlePage] /\ remembered = None
    /\ begun = {} /\ session = {} /\ expired = {}
    /\ file = [p \in Uploads \cup Keys |-> None]
    /\ calls = [c \in Calls |-> None]
    /\ taken = {} /\ subs = [k \in Keys |-> None]
    /\ closed = FALSE /\ old = {} /\ lost = 0 /\ faults = 0
    /\ cut = {} /\ dropped = {} /\ unheard = {}
    /\ purge = [stage |-> "idle", plan |-> {}, gone |-> {}]

-----------------------------------------------------------------------------
(* Files and answers                                                       *)

\* Handles follow a file that is moved, and write to nothing once it is unlinked.
Moved(r, places, p) == IF r # None /\ r.to \in places THEN [r EXCEPT !.to = p] ELSE r

Repoint(cs, places, p) == [c \in Calls |-> Moved(cs[c], places, p)]

Unlink(places, cs) ==
    /\ file' = [p \in Uploads \cup Keys |-> IF p \in places THEN None ELSE file[p]]
    /\ calls' = Repoint(cs, places, None)

\* FilesystemUploadSessions.get finds it.
Found(u) == u \in session /\ file[u] # None /\ u \notin expired

At(c, stage) == calls[c] # None /\ calls[c].stage = stage

To(c, stage) == [calls EXCEPT ![c].stage = stage]

Ended(c) == [calls EXCEPT ![c] = None]

\* Where a piece starts matters only when it is to be sent.
Turn(t, state) == [page[t] EXCEPT !.state = state, !.offset = 0]

SendFrom(t, offset) == [page[t] EXCEPT !.state = "send", !.offset = offset]

Shows(t, p) == page' = [page EXCEPT ![t] = p]

\* The tab hears the answer unless the connection has broken.
Answer(c, p) ==
    page' = IF calls[c].heard # None THEN [page EXCEPT ![calls[c].heard] = p] ELSE page

\* An answer that stops the page; it offers to resume.
Stopped(c) == Answer(c, IdlePage)

\* active_video_uploads: the requests that are inside video_slot.
Active == Cardinality({c \in Calls : calls[c] # None /\ calls[c].stage \in {"open", "write", "stream"}})

\* Names, requests and tabs that are free are alike: one of them stands for all.
AnyOf(S) == IF S = {} THEN {} ELSE {CHOOSE x \in S : TRUE}

NewKeys == AnyOf(Keys \ taken)

FreeCalls == AnyOf({c \in Calls : calls[c] = None})

\* The script of the tab is at work on an upload.
Busy(t) == page[t].state # "idle"

IdleTabs == AnyOf({t \in Tabs : ~Busy(t)})

-----------------------------------------------------------------------------
(* The page: task.html                                                     *)

\* The button: a new session.  Opening one sweeps the expired ones away, as
\* SweepExpired does for the uploads that others open.
Create(t, u) ==
    /\ t \in IdleTabs /\ u \notin begun /\ ~closed
    /\ session \cap expired = {}
    /\ file' = [file EXCEPT ![u] = <<>>]
    /\ session' = session \cup {u} /\ begun' = begun \cup {u}
    /\ Shows(t, [state |-> "send", upload |-> u, offset |-> 0])
    /\ remembered' = u
    /\ UNCHANGED <<expired, calls, taken, subs, World>>

SweepExpired ==
    /\ session \cap expired # {}
    /\ Unlink(session \cap expired, calls)
    /\ session' = session \ expired
    /\ UNCHANGED <<page, remembered, begun, expired, taken, subs, World>>

New(kind, t, u, offset, k, stage) ==
    [stage |-> stage, kind |-> kind, upload |-> u, offset |-> offset, done |-> 0,
     to |-> None, key |-> k, hash |-> <<>>, heard |-> t]

\* PATCH: the session and the slots are looked at before the body has come;
\* without a slot the page waits and sends the same piece again.
SendChunk(t, c) ==
    /\ c \in FreeCalls /\ page[t].state = "send" /\ Found(page[t].upload) /\ Active < Cap
    /\ calls' = [calls EXCEPT
            ![c] = New("append", t, page[t].upload, page[t].offset, None, "body")]
    /\ Shows(t, Turn(t, "wait"))
    /\ UNCHANGED <<remembered, Sessions, file, taken, subs, World>>

\* POST finish: own session, the gate, and the size of the received file.
SendFinish(t, c) ==
    /\ c \in FreeCalls /\ page[t].state = "finish" /\ Found(page[t].upload) /\ ~closed
    /\ file[page[t].upload] # <<>>
    /\ \E k \in NewKeys :
         /\ calls' = [calls EXCEPT ![c] = New("finish", t, page[t].upload, 0, k, "hash")]
         /\ taken' = taken \cup {k}
    /\ Shows(t, Turn(t, "wait"))
    /\ UNCHANGED <<remembered, Sessions, file, subs, World>>

\* 404, 400 or 409 of either: the page stops and offers to resume.
Turned(t) ==
    /\ LET u == page[t].upload IN
       \/ page[t].state = "send" /\ ~Found(u)
       \/ page[t].state = "finish" /\ (~Found(u) \/ closed \/ file[u] = <<>>)
    /\ Shows(t, IdlePage)
    /\ UNCHANGED <<remembered, Sessions, file, calls, taken, subs, World>>

\* The button to resume takes up what is remembered, whichever tab began it
\* and though a tab is still at it.
Resume(t) ==
    /\ t \in IdleTabs /\ remembered # None
    /\ Shows(t, [state |-> "resume", upload |-> remembered, offset |-> 0])
    /\ IF \E s \in Tabs : Busy(s) /\ page[s].upload = remembered
       THEN /\ lost < MaxLost /\ lost' = lost + 1
            /\ cut' = cut \cup {remembered}
       ELSE UNCHANGED <<lost, cut>>
    /\ UNCHANGED <<remembered, Sessions, file, calls, taken, subs, Course, faults,
                   dropped, unheard>>

\* GET: the offset is the size of the file.
Ask(t) ==
    /\ page[t].state \in {"resume", "ask"}
    /\ IF Found(page[t].upload)
       THEN /\ Shows(t, SendFrom(t, Len(file[page[t].upload])))
            /\ remembered' = IF page[t].state = "resume" THEN page[t].upload ELSE remembered
       ELSE Shows(t, IdlePage) /\ UNCHANGED remembered
    /\ UNCHANGED <<Sessions, file, calls, taken, subs, World>>

\* Reloaded, or left and opened again, between two requests.
Leave(t) ==
    /\ page[t].state \notin {"idle", "wait"}
    /\ Shows(t, IdlePage)
    /\ UNCHANGED <<remembered, Sessions, file, calls, taken, subs, World>>

\* A slip the runs must notice: the end is taken one unit too early.
ContinueShort(t, offset) ==
    IF offset + 1 >= Size THEN Turn(t, "finish") ELSE SendFrom(t, offset)

\* The next piece, or the end of the video.
Continue(t, offset) ==
    IF offset >= Size THEN Turn(t, "finish") ELSE SendFrom(t, offset)

\* What the page does when a connection breaks: a piece is asked about.
AfterBreak(t, kind) == IF kind = "append" THEN Turn(t, "ask") ELSE IdlePage

Broken(c) == AfterBreak(calls[c].heard, calls[c].kind)

\* The body does not arrive in full: the request ends there.
Disconnect(c) ==
    /\ At(c, "body") \/ At(c, "stream")
    /\ lost < MaxLost /\ lost' = lost + 1
    /\ Answer(c, Broken(c))
    /\ calls' = Ended(c)
    /\ UNCHANGED <<remembered, Sessions, file, taken, subs, Course, faults, History>>

\* The connection breaks, or the tab is reloaded, while the server works on.
CutOff(c) ==
    /\ calls[c] # None /\ calls[c].heard # None
    /\ lost < MaxLost /\ lost' = lost + 1
    /\ \E p \in {Broken(c), IdlePage} : Answer(c, p)
    /\ cut' = cut \cup {calls[c].upload}
    /\ calls' = [calls EXCEPT ![c].heard = None]
    /\ UNCHANGED <<remembered, Sessions, file, taken, subs, Course, faults, dropped, unheard>>

-----------------------------------------------------------------------------
(* A piece: FilesystemUploadSessions.append                                *)

\* The units of the piece that starts at an offset.
PieceOf(offset) ==
    IF offset >= Size THEN 0 ELSE IF offset + Chunk > Size THEN Size - offset ELSE Chunk

\* The offset is compared with the size, and the file is not opened yet.
Check(c) ==
    /\ At(c, "body")
    /\ LET u == calls[c].upload IN
         IF ~Found(u)
         THEN Stopped(c) /\ calls' = Ended(c)
         ELSE IF calls[c].offset # Len(file[u])
         THEN /\ Answer(c, SendFrom(calls[c].heard, Len(file[u])))
              /\ calls' = Ended(c)
         ELSE UNCHANGED page /\ calls' = To(c, "open")
    /\ UNCHANGED <<remembered, Sessions, file, taken, subs, World>>

\* open("ab") makes the file when it is not there; then the limit, by the
\* offset that was compared.
Open(c) ==
    /\ At(c, "open")
    /\ LET r == calls[c]  u == r.upload IN
         /\ file' = [file EXCEPT ![u] = IF file[u] = None THEN <<>> ELSE file[u]]
         /\ IF r.offset + PieceOf(r.offset) > Limit
            THEN Stopped(c) /\ calls' = Ended(c)
            ELSE /\ calls' = [calls EXCEPT ![c].stage = "write", ![c].to = u]
                 /\ UNCHANGED page
    /\ UNCHANGED <<remembered, Sessions, taken, subs, World>>

Write(c) ==
    /\ At(c, "write") /\ calls[c].done < PieceOf(calls[c].offset)
    /\ LET r == calls[c] IN
         file' = [p \in Uploads \cup Keys |->
                     IF p = r.to THEN Append(file[p], r.offset + r.done + 1) ELSE file[p]]
    /\ calls' = [calls EXCEPT ![c].done = @ + 1]
    /\ UNCHANGED <<page, remembered, Sessions, taken, subs, World>>

Wrote(c) ==
    /\ At(c, "write") /\ calls[c].done = PieceOf(calls[c].offset)
    /\ Answer(c, Continue(calls[c].heard, calls[c].offset + calls[c].done))
    /\ calls' = Ended(c)
    /\ UNCHANGED <<remembered, Sessions, file, taken, subs, World>>

-----------------------------------------------------------------------------
(* finish: adopt, record_streamed, discard.  submit-video: the same record *)

\* submit-video takes its slot at once and streams into a .partial file.
SubmitVideo(c) ==
    /\ c \in FreeCalls /\ ~closed /\ Active < Cap
    /\ \E k \in NewKeys :
         /\ calls' = [calls EXCEPT ![c] = New("whole", None, None, 0, k, "stream")]
         /\ taken' = taken \cup {k}
    /\ UNCHANGED <<page, remembered, Sessions, file, subs, World>>

\* The commit of the .partial file, or 413.
Streamed(c) ==
    /\ At(c, "stream")
    /\ IF Size > Limit
       THEN calls' = Ended(c) /\ UNCHANGED file
       ELSE /\ file' = [file EXCEPT ![calls[c].key] = Video]
            /\ calls' = [calls EXCEPT ![c].stage = "look", ![c].hash = Video]
    /\ UNCHANGED <<page, remembered, Sessions, taken, subs, World>>

\* adopt reads the file through for its hash ...
Hash(c) ==
    /\ At(c, "hash")
    /\ LET u == calls[c].upload IN
         IF file[u] = None
         THEN Stopped(c) /\ calls' = Ended(c)
         ELSE /\ calls' = [calls EXCEPT ![c].stage = "move", ![c].hash = file[u]]
              /\ UNCHANGED page
    /\ UNCHANGED <<remembered, Sessions, file, taken, subs, World>>

\* ... and moves it: whoever has it open now writes into the store.
Move(c) ==
    /\ At(c, "move")
    /\ LET u == calls[c].upload  k == calls[c].key IN
         IF file[u] = None
         THEN Stopped(c) /\ calls' = Ended(c) /\ UNCHANGED file
         ELSE /\ file' = [file EXCEPT ![k] = file[u], ![u] = None]
              /\ calls' = Repoint(To(c, "look"), {u}, k)
              /\ UNCHANGED page
    /\ UNCHANGED <<remembered, Sessions, taken, subs, World>>

KeyOf(r) == IF r.kind = "whole" THEN Whole ELSE r.upload

Claimed(r) == \E k \in Keys : subs[k] # None /\ subs[k].by = KeyOf(r)

\* Where a request goes when its submission is there.
Recorded(c) == IF calls[c].kind = "whole" THEN Ended(c) ELSE To(c, "discard")

\* A slip the runs must notice: the file of the submission that was found.
Others(c) == {k \in Keys : subs[k] # None /\ subs[k].by = KeyOf(calls[c])}

\* A slip the runs must notice: what was put into the store stays there.
NothingOf(c) == {}

\* What the failed or repeated request takes away again: its own file.
Own(c) == {calls[c].key}

\* The empty file is rejected; a submission of the same key is returned.
Look(c) ==
    /\ At(c, "look")
    /\ IF calls[c].hash = <<>>
       THEN Stopped(c) /\ Unlink(Own(c), Ended(c))
       ELSE /\ UNCHANGED page
            /\ IF Claimed(calls[c])
               THEN Unlink(Own(c), Recorded(c))
               ELSE calls' = To(c, "commit") /\ UNCHANGED file
    /\ UNCHANGED <<remembered, Sessions, taken, subs, World>>

\* A slip the runs must notice: nothing but the look stops a second record.
ClaimedByNobody(r) == FALSE

\* The unique constraint on the key: 500, and the file of the request goes.
Collides(r) == Claimed(r)

Commit(c) ==
    /\ At(c, "commit")
    /\ LET r == calls[c] IN
         IF Collides(r)
         THEN Stopped(c) /\ Unlink(Own(c), Ended(c)) /\ UNCHANGED subs
         ELSE /\ subs' = [subs EXCEPT ![r.key] =
                             [by |-> KeyOf(r), says |-> r.hash, purged |-> FALSE]]
              /\ calls' = Recorded(c)
              /\ UNCHANGED <<page, file>>
    /\ UNCHANGED <<remembered, Sessions, taken, World>>

\* The database is away: the file goes, and the upload with it.
CommitFails(c) ==
    /\ At(c, "look") \/ At(c, "commit")
    /\ faults < MaxFaults /\ faults' = faults + 1
    /\ Stopped(c) /\ Unlink(Own(c), Ended(c))
    /\ UNCHANGED <<remembered, Sessions, taken, subs, Course, lost, History>>

\* The database has committed and the answer is lost: commit() raises all the
\* same, and the file goes, though there is a submission now.
CommitUnheard(c) ==
    /\ At(c, "commit") /\ ~Collides(calls[c])
    /\ faults < MaxFaults /\ faults' = faults + 1
    /\ LET r == calls[c] IN
         /\ subs' = [subs EXCEPT ![r.key] =
                        [by |-> KeyOf(r), says |-> r.hash, purged |-> FALSE]]
         /\ unheard' = unheard \cup {r.key}
    /\ Stopped(c) /\ Unlink(Own(c), Ended(c))
    /\ UNCHANGED <<remembered, Sessions, taken, Course, lost, cut, dropped>>

Discard(c) ==
    /\ At(c, "discard")
    /\ LET u == calls[c].upload IN Unlink({u}, Ended(c)) /\ session' = session \ {u}
    /\ Answer(c, IdlePage)
    /\ remembered' = IF calls[c].heard # None THEN None ELSE remembered
    /\ UNCHANGED <<begun, expired, taken, subs, World>>

WaitsFor(t, kind) ==
    \E c \in Calls : calls[c] # None /\ calls[c].heard = t /\ calls[c].kind = kind

\* The student web dies and comes back; what was written stays.
Restart ==
    /\ \E c \in Calls : calls[c] # None
    /\ faults < MaxFaults /\ faults' = faults + 1
    /\ calls' = [c \in Calls |-> None]
    /\ page' = [t \in Tabs |-> IF WaitsFor(t, "append") THEN AfterBreak(t, "append")
                               ELSE IF WaitsFor(t, "finish") THEN AfterBreak(t, "finish")
                               ELSE page[t]]
    /\ dropped' = dropped \cup {k \in Keys : \E c \in Calls : calls[c] # None /\ calls[c].key = k}
    /\ UNCHANGED <<remembered, Sessions, file, taken, subs, Course, lost, cut, unheard>>

-----------------------------------------------------------------------------
(* Time, and the purge                                                     *)

Expire(u) ==
    /\ u \in session \ expired
    /\ expired' = expired \cup {u}
    /\ UNCHANGED <<page, remembered, begun, session, file, calls, taken, subs, World>>

Close ==
    /\ ~closed /\ closed' = TRUE
    /\ UNCHANGED <<page, remembered, Sessions, file, calls, taken, subs, old, purge, lost, faults, History>>

\* By the deadline of the task, or one by one where it has none.
Retire(k) ==
    /\ subs[k] # None /\ k \notin old
    /\ old' = old \cup {k}
    /\ UNCHANGED <<page, remembered, Sessions, file, calls, taken, subs, closed, purge, lost, faults, History>>

\* A slip the runs must notice: what has no file any more is not planned.
DueWithFile == {k \in old : ~subs[k].purged /\ file[k] # None}

\* plan_video_purge
Due == {k \in old : ~subs[k].purged}

Plan ==
    /\ purge.stage = "idle" /\ Due # {}
    /\ purge' = [stage |-> "delete", plan |-> Due, gone |-> {}]
    /\ UNCHANGED <<page, remembered, Sessions, file, calls, taken, subs, closed, old, lost, faults, History>>

Delete(k) ==
    /\ purge.stage = "delete" /\ k \in purge.plan
    /\ Unlink({k}, calls)
    /\ purge' = [purge EXCEPT !.plan = @ \ {k}, !.gone = @ \cup {k}]
    /\ UNCHANGED <<page, remembered, Sessions, taken, subs, closed, old, lost, faults, History>>

\* The store is away: no mark for this one.
DeleteFails(k) ==
    /\ purge.stage = "delete" /\ k \in purge.plan
    /\ faults < MaxFaults /\ faults' = faults + 1
    /\ purge' = [purge EXCEPT !.plan = @ \ {k}]
    /\ UNCHANGED <<page, remembered, Sessions, file, calls, taken, subs, closed, old, lost, History>>

\* mark_artifacts_purged, with the audit record in one transaction.
Marked(k) == k \in purge.gone

Mark ==
    /\ purge.stage = "delete" /\ purge.plan = {}
    /\ subs' = [k \in Keys |-> IF Marked(k) THEN [subs[k] EXCEPT !.purged = TRUE] ELSE subs[k]]
    /\ purge' = [stage |-> "idle", plan |-> {}, gone |-> {}]
    /\ UNCHANGED <<page, remembered, Sessions, file, calls, taken, closed, old, lost, faults, History>>

PurgeDies ==
    /\ purge.stage # "idle"
    /\ faults < MaxFaults /\ faults' = faults + 1
    /\ purge' = [stage |-> "idle", plan |-> {}, gone |-> {}]
    /\ UNCHANGED <<page, remembered, Sessions, file, calls, taken, subs, closed, old, lost, History>>

-----------------------------------------------------------------------------
Browser ==
    \/ \E t \in Tabs :
         \/ Turned(t) \/ Resume(t) \/ Ask(t) \/ Leave(t)
         \/ \E u \in Uploads : Create(t, u)
         \/ \E c \in Calls : SendChunk(t, c) \/ SendFinish(t, c)
    \/ \E c \in Calls : Disconnect(c) \/ CutOff(c)

Server(c) ==
    \/ Check(c) \/ Open(c) \/ Write(c) \/ Wrote(c)
    \/ SubmitVideo(c) \/ Streamed(c)
    \/ Hash(c) \/ Move(c) \/ Look(c) \/ Commit(c) \/ CommitFails(c)
    \/ CommitUnheard(c) \/ Discard(c)

Purging == Plan \/ Mark \/ \E k \in Keys : Delete(k)

Next ==
    \/ Browser \/ Purging \/ SweepExpired \/ Restart \/ Close \/ PurgeDies
    \/ \E c \in Calls : Server(c)
    \/ \E u \in Uploads : Expire(u)
    \/ \E k \in Keys : Retire(k) \/ DeleteFails(k)

Spec == Init /\ [][Next]_vars

\* Whoever is told by the weekly preview that videos are due runs the purge.
FairSpec == Spec /\ WF_vars(Purging)

-----------------------------------------------------------------------------
(* What must be true of it                                                 *)

TypeOK ==
    /\ page \in [Tabs -> Page] /\ remembered \in Uploads \cup {None}
    /\ begun \subseteq Uploads /\ session \subseteq begun /\ expired \subseteq begun
    /\ file \in [Uploads \cup Keys -> Bytes \cup {None}]
    /\ calls \in [Calls -> Request \cup {None}]
    /\ taken \subseteq Keys /\ subs \in [Keys -> Submission \cup {None}]
    /\ closed \in BOOLEAN /\ old \subseteq Keys /\ purge \in Purge
    /\ cut \subseteq Uploads /\ dropped \subseteq Keys /\ unheard \subseteq Keys
    /\ lost \in 0 .. MaxLost /\ faults \in 0 .. MaxFaults

\* A submission has its video until the retention has passed, however the
\* requests that tried to record it failed, collided or were repeated, unless
\* its commit took effect and was reported as failed; and what the record calls
\* purged is gone from the store.
HasItsVideo(k) == file[k] # None \/ k \in old \/ k \in unheard
GoneWhenPurged(k) == subs[k].purged => file[k] = None

VideoKept == \A k \in Keys : subs[k] # None => HasItsVideo(k) /\ GoneWhenPurged(k)

\* However often it is finished, an upload becomes one submission.
OneOfAnUpload ==
    \A j, k \in Keys : subs[j] # None /\ subs[k] # None /\ subs[j].by = subs[k].by => j = k

\* No path of the intake, a failing database among them, leaves a file in the
\* store that no submission names and no request is about to record; only when
\* the student web dies do the files of the requests it was serving stay.
Owned(k) ==
    \/ subs[k] # None
    \/ \E c \in Calls : calls[c] # None /\ calls[c].key = k

NoOrphans == \A k \in Keys : file[k] # None => Owned(k) \/ k \in dropped

\* An upload none of whose requests was cut off, and that no tab took up while
\* another was at it, becomes the video, unit for unit, however often it was
\* interrupted, taken up by another tab, or left half written; and the recorded
\* hash is the hash of what the store holds.
VideoIsTheFile ==
    \A k \in Keys : subs[k] # None /\ subs[k].by \notin cut =>
        subs[k].says = Video /\ file[k] \in {Video, None}

\* "Writing at a shifted position would give a video with holes or overlaps
\* that counts as properly received": of any upload, whoever sends it.
NoOverlap == \A k \in Keys : subs[k] # None => subs[k].says = Video

\* What the proofs add.  A request has the parts its kind has, and the file
\* its stage says; an open handle is on a file that is there.
Formed(r, fl, sb, tk) ==
    /\ r \in Request
    /\ r.kind = "append" =>
        /\ r.upload \in Uploads /\ r.key = None /\ r.stage \in {"body", "open", "write"}
        /\ IF r.stage = "write" THEN r.done <= PieceOf(r.offset) ELSE r.done = 0 /\ r.to = None
    /\ r.kind # "append" => r.key \in tk /\ r.to = None
    /\ r.kind = "finish" =>
        r.upload \in Uploads /\ r.stage \in {"hash", "move", "look", "commit", "discard"}
    /\ r.kind = "whole" =>
        r.upload = None /\ r.stage \in {"stream", "look", "commit"} /\ r.heard = None
    /\ r.stage \in {"hash", "move", "stream"} => fl[r.key] = None /\ sb[r.key] = None
    /\ r.stage \in {"look", "commit"} => fl[r.key] # None /\ sb[r.key] = None
    /\ r.stage = "discard" => (fl[r.key] # None => sb[r.key] # None)
    /\ r.to # None => fl[r.to] # None

Requests == \A c \in Calls : calls[c] # None => Formed(calls[c], file, subs, taken)

KeysApart ==
    \A c, d \in Calls : calls[c] # None /\ calls[d] # None /\ calls[c].key = calls[d].key =>
        c = d \/ calls[c].key = None

StoreSound == \A k \in Keys : subs[k] # None \/ file[k] # None => k \in taken

\* The purge works on submissions whose retention has passed.
PurgeSound ==
    /\ \A k \in old : subs[k] # None
    /\ purge.plan \subseteq old /\ purge.gone \subseteq old
    /\ \A k \in purge.gone : file[k] = None

UploadInv ==
    /\ TypeOK /\ Requests /\ KeysApart /\ StoreSound /\ PurgeSound
    /\ VideoKept /\ OneOfAnUpload /\ NoOrphans

\* A request that is heard is the one its tab waits for; one that is not was cut
\* off, or is submit-video, which is not the page's.
Awaited ==
    /\ \A c \in Calls : calls[c] # None /\ calls[c].heard # None =>
          LET t == calls[c].heard IN
          /\ page[t].state = "wait" /\ page[t].upload = calls[c].upload
          /\ \A d \in Calls : calls[d] # None /\ calls[d].heard = t => c = d
    /\ \A c \in Calls : calls[c] # None /\ calls[c].kind # "whole" =>
          calls[c].heard # None \/ calls[c].upload \in cut

\* One tab at a time is at work on an upload.
OneAtIt ==
    \A s, t \in Tabs :
        Busy(s) /\ Busy(t) /\ page[s].upload = page[t].upload /\ page[s].upload \notin cut
        => s = t

\* A tab that is at work has an upload, which has begun, as has the remembered one.
Begun ==
    /\ \A t \in Tabs : Busy(t) => page[t].upload \in begun
    /\ remembered # None => remembered \in begun
    /\ \A c \in Calls : calls[c] # None /\ calls[c].upload # None => calls[c].upload \in begun

\* A handle is open on the file of its upload; if that was moved meanwhile, the
\* upload was cut off and the file went where a finish of it has put it.
HandlesFollow ==
    \A c \in Calls : calls[c] # None /\ calls[c].to # None =>
        LET r == calls[c] IN
        \/ r.to = r.upload
        \/ /\ r.to \in Keys /\ r.upload \in cut
           /\ \A d \in Calls : calls[d] # None /\ calls[d].key = r.to => calls[d].upload = r.upload
           /\ subs[r.to] # None => subs[r.to].by = r.upload

\* The beginning of the video.
Part(f) == Len(f) <= Size /\ \A i \in 1 .. Len(f) : f[i] = i

Intact(u) == u \in session \ cut

Received == \A u \in Uploads : Intact(u) /\ file[u] # None => Part(file[u])

\* A piece goes where the file ends.
Sending ==
    \A c \in Calls : calls[c] # None /\ calls[c].kind = "append" /\ Intact(calls[c].upload) =>
        LET r == calls[c] IN
        /\ r.stage = "open" => file[r.upload] # None /\ Len(file[r.upload]) = r.offset
        /\ r.stage = "write" => r.to = r.upload /\ Len(file[r.upload]) = r.offset + r.done

\* The page finishes a complete file, and nobody writes to it any more.
Complete(u) == file[u] \in {Video, None}

Finishing ==
    /\ \A t \in Tabs : page[t].state = "finish" /\ Intact(page[t].upload) =>
          Complete(page[t].upload)
    /\ \A c \in Calls : calls[c] # None /\ calls[c].upload \notin cut =>
          LET r == calls[c] IN
          /\ r.stage \in {"hash", "move"} => Complete(r.upload)
          /\ r.stage = "move" => r.hash = Video
          /\ r.stage \in {"look", "commit"} => r.hash = Video /\ file[r.key] = Video

WholeInv ==
    UploadInv /\ Awaited /\ OneAtIt /\ Begun /\ HandlesFollow /\ Received /\ Sending /\ Finishing /\ VideoIsTheFile

\* Whatever the purge has deleted is marked in the end, though it dies between
\* the two: again and again, no submission past its retention and without its
\* file is unmarked.
PurgeIsMarked == []<>(\A k \in old : file[k] = None => subs[k].purged)

=============================================================================
