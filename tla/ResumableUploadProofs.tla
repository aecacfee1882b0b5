----------------------- MODULE ResumableUploadProofs -----------------------
(***************************************************************************)
(* UploadInv, and with it WholeInv, is an inductive invariant of           *)
(* ResumableUpload for any video, any sessions, requests and bounds.       *)
(***************************************************************************)
EXTENDS ResumableUpload, TLAPS

Places == Uploads \cup Keys

LEMMA MovedFields ==
    ASSUME NEW r \in Request \cup {None}, NEW places, NEW p \in Places \cup {None}
    PROVE  /\ Moved(r, places, p) \in Request \cup {None}
           /\ (Moved(r, places, p) = None) = (r = None)
           /\ r # None =>
                LET m == Moved(r, places, p) IN
                /\ m.stage = r.stage /\ m.kind = r.kind /\ m.upload = r.upload
                /\ m.offset = r.offset /\ m.done = r.done /\ m.key = r.key
                /\ m.hash = r.hash /\ m.heard = r.heard
                /\ m.to = IF r.to \in places THEN p ELSE r.to
<1> USE NoneIsNothing
<1>1. CASE r # None /\ r.to \in places
  <2>1. Moved(r, places, p) = [r EXCEPT !.to = p]
    BY <1>1 DEF Moved
  <2>2. [r EXCEPT !.to = p] \in Request
    BY <1>1 DEF Request, Places
  <2> QED BY <1>1, <2>1, <2>2 DEF Request
<1>2. CASE ~(r # None /\ r.to \in places)
  BY <1>2 DEF Moved
<1> QED BY <1>1, <1>2

LEMMA VideoIsBytes == Video \in Bytes /\ Video # None /\ <<>> \in Bytes /\ Video # <<>>
<1>1. Video \in [1 .. Size -> 1 .. Size]
  BY DEF Video
<1>2. Size \in Nat /\ Size # 0
  BY ResumableUploadAssumption
<1>3. Video \in Seq(1 .. Size) /\ Len(Video) = Size
  BY <1>1, <1>2, SMTT(30)
<1> QED BY <1>2, <1>3, NoneIsNothing DEF Bytes

LEMMA InitHolds == Init => UploadInv
<1> SUFFICES ASSUME Init PROVE UploadInv
  OBVIOUS
<1> USE DEF Init
<1>1. TypeOK
  <2>1. page \in [Tabs -> Page] /\ purge \in Purge
    BY DEF Page, Purge, IdlePage
  <2>2. lost \in 0 .. MaxLost /\ faults \in 0 .. MaxFaults
    BY ResumableUploadAssumption
  <2> QED BY <2>1, <2>2 DEF TypeOK
<1>2. Requests /\ KeysApart /\ StoreSound /\ PurgeSound
  BY DEF Requests, KeysApart, StoreSound, PurgeSound
<1>3. VideoKept /\ OneOfAnUpload /\ NoOrphans
  BY DEF VideoKept, OneOfAnUpload, NoOrphans
<1> QED BY <1>1, <1>2, <1>3 DEF UploadInv

-----------------------------------------------------------------------------
(* Types                                                                   *)

PageStep == \E t \in Tabs : Turned(t) \/ Resume(t) \/ Ask(t) \/ Leave(t)
Creates(u) == \E t \in Tabs : Create(t, u)
SendsChunk(c) == \E t \in Tabs : SendChunk(t, c)
SendsFinish(c) == \E t \in Tabs : SendFinish(t, c)

\* What stands for the free ones is one of them.
LEMMA OneIsFree ==
    /\ NewKeys \subseteq Keys \ taken
    /\ \A c \in FreeCalls : c \in Calls /\ calls[c] = None
    /\ \A t \in IdleTabs : t \in Tabs /\ page[t].state = "idle"
<1>1. ASSUME NEW S PROVE AnyOf(S) \subseteq S
  BY DEF AnyOf
<1>2. NewKeys \subseteq Keys \ taken
  BY <1>1 DEF NewKeys
<1>3. FreeCalls \subseteq {c \in Calls : calls[c] = None}
  BY <1>1 DEF FreeCalls
<1>4. IdleTabs \subseteq {t \in Tabs : ~Busy(t)}
  BY <1>1 DEF IdleTabs
<1> QED BY <1>2, <1>3, <1>4 DEF Busy

\* What TypeOK says of the variables other than the requests.
Scalars ==
    /\ page \in [Tabs -> Page] /\ remembered \in Uploads \cup {None}
    /\ begun \subseteq Uploads /\ session \subseteq begun /\ expired \subseteq begun
    /\ file \in [Places -> Bytes \cup {None}]
    /\ taken \subseteq Keys /\ subs \in [Keys -> Submission \cup {None}]
    /\ closed \in BOOLEAN /\ old \subseteq Keys /\ purge \in Purge
    /\ cut \subseteq Uploads /\ dropped \subseteq Keys /\ unheard \subseteq Keys
    /\ lost \in 0 .. MaxLost /\ faults \in 0 .. MaxFaults

\* The invariant of a request at work.
LEMMA AtWork ==
    ASSUME UploadInv, NEW c \in Calls, calls[c] # None
    PROVE  Formed(calls[c], file, subs, taken) /\ calls[c] \in Request
BY DEF UploadInv, Requests, Formed

\* What the script of a tab can come to.
LEMMA TurnIsPage ==
    ASSUME UploadInv
    PROVE  /\ IdlePage \in Page
           /\ \A t \in Tabs, s \in {"resume", "send", "wait", "ask", "finish"} :
                 Turn(t, s) \in Page
           /\ \A t \in Tabs, n \in Nat : SendFrom(t, n) \in Page /\ Continue(t, n) \in Page
           /\ \A t \in Tabs, kind \in {"append", "finish"} : AfterBreak(t, kind) \in Page
<1>1. \A t \in Tabs : page[t] \in Page
  BY DEF UploadInv, TypeOK
<1>2. \A t \in Tabs, s \in {"resume", "send", "wait", "ask", "finish"} : Turn(t, s) \in Page
  BY <1>1 DEF Turn, Page
<1>3. \A t \in Tabs, n \in Nat : SendFrom(t, n) \in Page
  BY <1>1 DEF SendFrom, Page
<1>4. IdlePage \in Page
  BY DEF IdlePage, Page
<1> QED BY <1>2, <1>3, <1>4 DEF Continue, AfterBreak

LEMMA PieceIsNat ==
    ASSUME NEW n \in Nat
    PROVE  PieceOf(n) \in Nat /\ (n + PieceOf(n) <= Size \/ PieceOf(n) = 0)
BY ResumableUploadAssumption DEF PieceOf

LEMMA NewIsRequest ==
    ASSUME NEW kind \in {"append", "finish", "whole"}, NEW t \in Tabs \cup {None},
           NEW u \in Uploads \cup {None}, NEW n \in Nat, NEW k \in Keys \cup {None},
           NEW stage \in {"body", "open", "write", "stream", "hash", "move", "look", "commit",
                          "discard"}
    PROVE  New(kind, t, u, n, k, stage) \in Request
BY VideoIsBytes DEF New, Request

\* Answers leave the pages pages.
LEMMA AnswerIsPage ==
    ASSUME UploadInv, NEW c \in Calls, NEW p, calls[c].heard \in Tabs => p \in Page, Answer(c, p)
    PROVE  page' \in [Tabs -> Page]
BY DEF Answer, UploadInv, TypeOK

LEMMA StoppedIsPage ==
    ASSUME UploadInv, NEW c \in Calls, Stopped(c)
    PROVE  page' \in [Tabs -> Page]
BY AnswerIsPage, TurnIsPage DEF Stopped

LEMMA UnlinkIsFile ==
    ASSUME UploadInv, NEW places, NEW cs, Unlink(places, cs)
    PROVE  file' \in [Places -> Bytes \cup {None}]
BY DEF Unlink, UploadInv, TypeOK, Places

LEMMA ScalarsKept == UploadInv /\ [Next]_vars => Scalars'
<1> SUFFICES ASSUME UploadInv, [Next]_vars PROVE Scalars'
  OBVIOUS
<1> USE ResumableUploadAssumption DEF Scalars, Sessions, World, Course, History, Places
<1>0. Scalars
  BY DEF UploadInv, TypeOK
<1>1. ASSUME PageStep PROVE Scalars'
  <2>1. PICK t \in Tabs : Turned(t) \/ Resume(t) \/ Ask(t) \/ Leave(t)
    BY <1>1 DEF PageStep
  <2>2. PICK p : p \in Page /\ page' = [page EXCEPT ![t] = p]
    <3>1. CASE Ask(t) /\ Found(page[t].upload)
      <4>1. page[t].upload \in Uploads /\ file[page[t].upload] \in Bytes
        BY <3>1, <1>0 DEF Found
      <4>2. Len(file[page[t].upload]) \in Nat
        BY <4>1 DEF Bytes
      <4> QED BY <3>1, <4>2, TurnIsPage DEF Ask, Shows
    <3>2. CASE Resume(t)
      <4>1. [state |-> "resume", upload |-> remembered, offset |-> 0] \in Page
        BY <1>0 DEF Page
      <4> QED BY <3>2, <4>1 DEF Resume, Shows
    <3>3. CASE Turned(t) \/ Leave(t) \/ (Ask(t) /\ ~Found(page[t].upload))
      BY <3>3, TurnIsPage DEF Turned, Leave, Ask, Shows
    <3> QED BY <2>1, <3>1, <3>2, <3>3
  <2>3. page' \in [Tabs -> Page]
    BY <1>0, <2>2
  <2>4. remembered' \in Uploads \cup {None}
    BY <1>0, <2>1 DEF Turned, Resume, Ask, Leave, Page
  <2>5. cut' \subseteq Uploads /\ lost' \in 0 .. MaxLost
    <3>1. CASE Resume(t)
      <4>1. remembered \in Uploads /\ (UNCHANGED <<lost, cut>> \/ (/\ cut' = cut \cup {remembered}
                                            /\ lost < MaxLost /\ lost' = lost + 1))
        BY <1>0, <3>1 DEF Resume
      <4> QED BY <1>0, <4>1
    <3>2. CASE Turned(t) \/ Ask(t) \/ Leave(t)
      BY <1>0, <3>2 DEF Turned, Ask, Leave
    <3> QED BY <2>1, <3>1, <3>2
  <2>6. UNCHANGED <<begun, session, expired, file, taken, subs, closed, old, purge, faults,
                    dropped, unheard>>
    BY <2>1 DEF Turned, Resume, Ask, Leave
  <2> QED BY <1>0, <2>3, <2>4, <2>5, <2>6
<1>2. ASSUME NEW t \in Tabs, NEW u \in Uploads, Create(t, u) PROVE Scalars'
  <2>1. page' \in [Tabs -> Page]
    <3>1. [state |-> "send", upload |-> u, offset |-> 0] \in Page
      BY DEF Page
    <3> QED BY <1>0, <1>2, <3>1 DEF Create, Shows
  <2>2. file' \in [Places -> Bytes \cup {None}]
    BY <1>2, <1>0, VideoIsBytes DEF Create
  <2> QED BY <1>0, <1>2, <2>1, <2>2 DEF Create
<1>3. ASSUME NEW c \in Calls, SendsChunk(c) \/ SendsFinish(c) \/ SubmitVideo(c) PROVE Scalars'
  <2>1. page' \in [Tabs -> Page]
    BY <1>0, <1>3, TurnIsPage DEF SendsChunk, SendChunk, SendsFinish, SendFinish, SubmitVideo, Shows
  <2>2. taken' \subseteq Keys
    BY <1>0, <1>3, OneIsFree DEF SendsChunk, SendChunk, SendsFinish, SendFinish, SubmitVideo
  <2>3. UNCHANGED <<remembered, begun, session, expired, file, subs, closed, old, purge, lost,
                    faults, cut, dropped, unheard>>
    BY <1>3 DEF SendsChunk, SendChunk, SendsFinish, SendFinish, SubmitVideo
  <2> QED BY <1>0, <2>1, <2>2, <2>3
<1>4. ASSUME NEW c \in Calls, Disconnect(c) \/ CutOff(c) PROVE Scalars'
  <2>2. calls[c] # None /\ calls[c] \in Request
    BY <1>4, AtWork DEF Disconnect, CutOff, At
  <2>3. calls[c].heard \in Tabs => calls[c].kind \in {"append", "finish"} /\ calls[c].upload \in Uploads
    BY <2>2, AtWork DEF Formed, Request
  <2>4. calls[c].heard \in Tabs => Broken(c) \in Page /\ IdlePage \in Page
    BY <2>3, TurnIsPage DEF Broken
  <2>1. page' \in [Tabs -> Page]
    BY <1>4, <2>4, AnswerIsPage DEF Disconnect, CutOff
  <2>5. CutOff(c) => calls[c].upload \in Uploads
    BY <2>2, <2>3 DEF CutOff, Request
  <2>6. lost' \in 0 .. MaxLost
    BY <1>0, <1>4 DEF Disconnect, CutOff
  <2> QED BY <1>0, <1>4, <2>1, <2>5, <2>6 DEF Disconnect, CutOff
<1>5. ASSUME NEW c \in Calls, Check(c) PROVE Scalars'
  <2>1. calls[c] # None /\ calls[c].upload \in Uploads
    BY <1>5, AtWork DEF Check, At, Formed, Request
  <2>2. page' \in [Tabs -> Page]
    <3>1. ~Found(calls[c].upload) \/ Len(file[calls[c].upload]) \in Nat
      BY <2>1, <1>0 DEF Found, Bytes
    <3>2. Found(calls[c].upload) /\ calls[c].heard \in Tabs =>
            SendFrom(calls[c].heard, Len(file[calls[c].upload])) \in Page
      BY <3>1, TurnIsPage
    <3> QED BY <3>2, <1>0, <1>5, StoppedIsPage, AnswerIsPage DEF Check
  <2> QED BY <1>0, <1>5, <2>2 DEF Check
<1>6. ASSUME NEW c \in Calls, Open(c) PROVE Scalars'
  <2>1. page' \in [Tabs -> Page]
    BY <1>0, <1>6, StoppedIsPage DEF Open
  <2>2. file' \in [Places -> Bytes \cup {None}]
    BY <1>0, <1>6, VideoIsBytes DEF Open
  <2> QED BY <1>0, <1>6, <2>1, <2>2 DEF Open
<1>7. ASSUME NEW c \in Calls, Write(c) PROVE Scalars'
  <2>1. calls[c] # None /\ Formed(calls[c], file, subs, taken) /\ calls[c] \in Request
    BY <1>7, AtWork DEF Write, At
  <2>2. calls[c].offset + calls[c].done + 1 \in 1 .. Size
    <3>1. calls[c].offset \in Nat /\ calls[c].done \in Nat
      BY <2>1 DEF Request
    <3>2. calls[c].done < PieceOf(calls[c].offset)
      BY <1>7 DEF Write
    <3>3. /\ PieceOf(calls[c].offset) \in Nat
          /\ calls[c].offset + PieceOf(calls[c].offset) <= Size \/ PieceOf(calls[c].offset) = 0
      BY <3>1, PieceIsNat
    <3> HIDE DEF Scalars, Sessions, World, Course, History, Places
    <3> QED BY <3>1, <3>2, <3>3, ResumableUploadAssumption
  <2>3. ASSUME NEW p \in Places, p = calls[c].to
        PROVE  Append(file[p], calls[c].offset + calls[c].done + 1) \in Bytes
    <3>1. file[p] \in Bytes
      BY <2>1, <2>3, <1>0 DEF Formed
    <3> QED BY <2>2, <3>1 DEF Bytes
  <2>4. file' \in [Places -> Bytes \cup {None}]
    BY <1>0, <1>7, <2>3 DEF Write
  <2> QED BY <1>0, <1>7, <2>4 DEF Write
<1>8. ASSUME NEW c \in Calls, Wrote(c) PROVE Scalars'
  <2>1. calls[c].offset + calls[c].done \in Nat
    BY <1>8, AtWork DEF Wrote, At, Request
  <2>2. page' \in [Tabs -> Page]
    BY <1>8, <2>1, TurnIsPage, AnswerIsPage DEF Wrote
  <2> QED BY <1>0, <1>8, <2>2 DEF Wrote
<1>9. ASSUME NEW c \in Calls, Streamed(c) PROVE Scalars'
  <2>1. file' \in [Places -> Bytes \cup {None}]
    BY <1>0, <1>9, VideoIsBytes DEF Streamed
  <2> QED BY <1>0, <1>9, <2>1 DEF Streamed
<1>10. ASSUME NEW c \in Calls, Hash(c) \/ Move(c) PROVE Scalars'
  <2>1. page' \in [Tabs -> Page]
    BY <1>0, <1>10, StoppedIsPage DEF Hash, Move
  <2>2. calls[c].upload \in Places
    BY <1>10, AtWork DEF Hash, Move, At, Formed, Request
  <2>3. file' \in [Places -> Bytes \cup {None}]
    BY <1>0, <1>10, <2>2 DEF Hash, Move
  <2> QED BY <1>0, <1>10, <2>1, <2>3 DEF Hash, Move
<1>11. ASSUME NEW c \in Calls, Look(c) PROVE Scalars'
  <2>1. page' \in [Tabs -> Page]
    BY <1>0, <1>11, StoppedIsPage DEF Look
  <2>2. file' \in [Places -> Bytes \cup {None}]
    BY <1>0, <1>11, UnlinkIsFile DEF Look
  <2> QED BY <1>0, <1>11, <2>1, <2>2 DEF Look
<1>12. ASSUME NEW c \in Calls, Commit(c) \/ CommitUnheard(c) PROVE Scalars'
  <2>1. page' \in [Tabs -> Page]
    BY <1>0, <1>12, StoppedIsPage DEF Commit, CommitUnheard
  <2>2. file' \in [Places -> Bytes \cup {None}]
    BY <1>0, <1>12, UnlinkIsFile DEF Commit, CommitUnheard
  <2>3. /\ calls[c] # None /\ KeyOf(calls[c]) \in Uploads \cup {Whole} /\ calls[c].hash \in Bytes
        /\ calls[c].key \in Keys
    BY <1>0, <1>12, AtWork DEF Commit, CommitUnheard, At, Formed, Request, KeyOf
  <2>4. [by |-> KeyOf(calls[c]), says |-> calls[c].hash, purged |-> FALSE] \in Submission
    BY <2>3 DEF Submission
  <2>5. subs' \in [Keys -> Submission \cup {None}]
    BY <1>0, <1>12, <2>4 DEF Commit, CommitUnheard
  <2>6. unheard' \subseteq Keys /\ faults' \in 0 .. MaxFaults
    BY <1>0, <1>12, <2>3 DEF Commit, CommitUnheard
  <2>7. UNCHANGED <<remembered, begun, session, expired, taken, closed, old, purge, lost, cut, dropped>>
    BY <1>12 DEF Commit, CommitUnheard
  <2> QED BY <1>0, <2>1, <2>2, <2>5, <2>6, <2>7
<1>13. ASSUME NEW c \in Calls, CommitFails(c) \/ Discard(c) PROVE Scalars'
  <2>1. page' \in [Tabs -> Page]
    BY <1>13, StoppedIsPage, AnswerIsPage, TurnIsPage DEF CommitFails, Discard
  <2>2. file' \in [Places -> Bytes \cup {None}]
    BY <1>0, <1>13, UnlinkIsFile DEF CommitFails, Discard
  <2>3. faults' \in 0 .. MaxFaults
    BY <1>0, <1>13 DEF CommitFails, Discard
  <2>4. remembered' \in Uploads \cup {None} /\ session' \subseteq session
    BY <1>0, <1>13 DEF CommitFails, Discard
  <2>5. UNCHANGED <<begun, expired, taken, subs, closed, old, purge, lost, cut, dropped, unheard>>
    BY <1>13 DEF CommitFails, Discard
  <2> QED BY <1>0, <2>1, <2>2, <2>3, <2>4, <2>5
<1>14. ASSUME Restart PROVE Scalars'
  <2>1. page' \in [Tabs -> Page]
    BY <1>0, <1>14, TurnIsPage DEF Restart
  <2>2. faults' \in 0 .. MaxFaults /\ dropped' \subseteq Keys
    BY <1>0, <1>14 DEF Restart
  <2> QED BY <1>0, <1>14, <2>1, <2>2 DEF Restart
<1>15. ASSUME SweepExpired PROVE Scalars'
  <2>1. file' \in [Places -> Bytes \cup {None}]
    BY <1>15, UnlinkIsFile DEF SweepExpired
  <2> QED BY <1>0, <1>15, <2>1 DEF SweepExpired
<1>16. ASSUME NEW u \in Uploads, Expire(u) PROVE Scalars'
  BY <1>0, <1>16 DEF Expire
<1>17. ASSUME Close PROVE Scalars'
  BY <1>0, <1>17 DEF Close
<1>18. ASSUME NEW k \in Keys, Retire(k) PROVE Scalars'
  BY <1>0, <1>18 DEF Retire
<1>19. ASSUME Plan \/ PurgeDies PROVE Scalars'
  <2>1. purge' \in Purge
    BY <1>0, <1>19 DEF Plan, PurgeDies, Purge, Due
  <2>2. faults' \in 0 .. MaxFaults
    BY <1>0, <1>19 DEF Plan, PurgeDies
  <2> QED BY <1>0, <1>19, <2>1, <2>2 DEF Plan, PurgeDies
<1>20. ASSUME NEW k \in Keys, Delete(k) \/ DeleteFails(k) PROVE Scalars'
  <2>1. purge' \in Purge
    <3>1. [purge EXCEPT !.plan = @ \ {k}, !.gone = @ \cup {k}] \in Purge
      BY <1>0 DEF Purge
    <3>2. [purge EXCEPT !.plan = @ \ {k}] \in Purge
      BY <1>0 DEF Purge
    <3> QED BY <3>1, <3>2, <1>20 DEF Delete, DeleteFails
  <2>2. file' \in [Places -> Bytes \cup {None}]
    BY <1>0, <1>20, UnlinkIsFile DEF Delete, DeleteFails
  <2>3. faults' \in 0 .. MaxFaults
    BY <1>0, <1>20 DEF Delete, DeleteFails
  <2> QED BY <1>0, <1>20, <2>1, <2>2, <2>3 DEF Delete, DeleteFails
<1>21. ASSUME Mark PROVE Scalars'
  <2>1. purge' \in Purge
    BY <1>21 DEF Mark, Purge
  <2>2. ASSUME NEW k \in Keys, Marked(k) PROVE [subs[k] EXCEPT !.purged = TRUE] \in Submission
    <3>1. subs[k] \in Submission
      BY <1>0, <2>2 DEF Marked, UploadInv, PurgeSound
    <3> QED BY <3>1 DEF Submission
  <2>3. subs' \in [Keys -> Submission \cup {None}]
    BY <1>0, <1>21, <2>2 DEF Mark
  <2> QED BY <1>0, <1>21, <2>1, <2>3 DEF Mark
<1>22. ASSUME UNCHANGED vars PROVE Scalars'
  BY <1>0, <1>22 DEF vars
<1> QED
  BY <1>1, <1>2, <1>3, <1>4, <1>5, <1>6, <1>7, <1>8, <1>9, <1>10, <1>11, <1>12, <1>13, <1>14,
     <1>15, <1>16, <1>17, <1>18, <1>19, <1>20, <1>21, <1>22
  DEF Next, Browser, Server, Purging, PageStep, SendsChunk, SendsFinish

-----------------------------------------------------------------------------
(* Requests                                                                *)

\* One request moves on, is answered or begins, and the handles on some
\* places follow a file or close.
LEMMA CallMoves ==
    ASSUME UploadInv, Scalars', NEW c \in Calls, NEW me \in Request \cup {None},
           NEW places \in SUBSET Places, NEW p \in Places \cup {None},
           calls' \in [Calls -> Request \cup {None}], calls'[c] = me,
           \A d \in Calls \ {c} : calls'[d] = Moved(calls[d], places, p),
           me # None => Formed(me, file', subs', taken'),
           me # None => \/ me.key = None
                        \/ calls[c] = None /\ me.key \notin taken
                        \/ calls[c] # None /\ me.key = calls[c].key,
           taken \subseteq taken',
           \A q \in Places \ places : file[q] # None => file'[q] # None,
           p # None => file'[p] # None,
           \A k \in taken : \/ calls[c] # None /\ calls[c].key = k
                            \/ /\ (file'[k] = None) <=> (file[k] = None)
                               /\ (subs'[k] = None) <=> (subs[k] = None)
    PROVE  TypeOK' /\ Requests' /\ KeysApart'
<1>0. TypeOK /\ Requests /\ KeysApart
  BY DEF UploadInv
<1>1. \A d \in Calls : calls[d] \in Request \cup {None}
  BY <1>0 DEF TypeOK
<1>3. TypeOK'
  BY DEF TypeOK, Scalars, Places
<1>4. ASSUME NEW d \in Calls, calls'[d] # None, d # c
      PROVE  /\ Formed(calls'[d], file', subs', taken')
             /\ calls[d] # None /\ calls'[d].key = calls[d].key
  <2>1. calls'[d] = Moved(calls[d], places, p) /\ calls[d] # None
    <3>1. calls'[d] = Moved(calls[d], places, p)
      BY <1>4
    <3>2. calls[d] = None => Moved(calls[d], places, p) = None
      BY DEF Moved
    <3> QED BY <1>4, <3>1, <3>2
  <2>2. Formed(calls[d], file, subs, taken) /\ calls[d] \in Request
    BY <2>1, AtWork
  <2> DEFINE r == calls[d]  m == calls'[d]
  <2>3. /\ m \in Request
        /\ m.stage = r.stage /\ m.kind = r.kind /\ m.upload = r.upload
        /\ m.offset = r.offset /\ m.done = r.done /\ m.key = r.key
        /\ m.hash = r.hash /\ m.heard = r.heard
        /\ m.to = IF r.to \in places THEN p ELSE r.to
    BY <2>1, <2>2, MovedFields
  <2>4. ASSUME r.key \in Keys, calls[c] # None PROVE calls[c].key # r.key
    <3>1. r.key # None
      BY <2>4, ResumableUploadAssumption
    <3> QED BY <1>0, <1>4, <2>1, <2>4, <3>1 DEF KeysApart
  <2>5. r.kind # "append" =>
          /\ (file'[r.key] = None) <=> (file[r.key] = None)
          /\ (subs'[r.key] = None) <=> (subs[r.key] = None)
          /\ r.key \in taken'
    <3>1. r.kind # "append" => r.key \in taken /\ taken \subseteq Keys
      BY <1>0, <2>2 DEF Formed, TypeOK
    <3> QED BY <2>4, <3>1
  <2>6. r.kind = "append" => r.stage \in {"body", "open", "write"}
    BY <2>2 DEF Formed
  <2>7. m.to # None => file'[m.to] # None
    <3>1. r.to \in Places \cup {None}
      BY <2>2 DEF Request, Places
    <3> QED BY <2>2, <2>3, <3>1 DEF Formed
  <2>8. Formed(m, file', subs', taken')
    <3>1. CASE r.kind = "append"
      <4>1. None \notin places
        BY ResumableUploadAssumption DEF Places
      <4>2. r.to = None => m.to = None
        BY <2>3, <4>1
      <4> QED BY <2>2, <2>3, <2>6, <2>7, <3>1, <4>2 DEF Formed
    <3>2. CASE r.kind # "append"
      <4>1. r.to = None
        BY <2>2, <3>2 DEF Formed
      <4>2. m.to \in {None, p}
        BY <2>3, <4>1
      <4>3. m.to = None
        <5>1. None \notin places
          BY ResumableUploadAssumption DEF Places
        <5> QED BY <2>3, <4>1, <5>1
      <4> QED BY <2>2, <2>3, <2>5, <3>2, <4>3 DEF Formed
    <3> QED BY <3>1, <3>2
  <2> QED BY <2>1, <2>3, <2>8
<1>5. Requests'
  <2> SUFFICES ASSUME NEW d \in Calls, calls'[d] # None
               PROVE  Formed(calls'[d], file', subs', taken')
    BY DEF Requests
  <2>1. calls'[c] = me
    OBVIOUS
  <2> QED BY <1>4, <2>1
<1>6. KeysApart'
  <2> SUFFICES ASSUME NEW d \in Calls, NEW e \in Calls, calls'[d] # None, calls'[e] # None,
                      calls'[d].key = calls'[e].key, calls'[d].key # None
               PROVE  d = e
    BY DEF KeysApart
  <2>1. CASE d # c /\ e # c
    BY <1>0, <1>4, <2>1 DEF KeysApart
  <2>2. ASSUME NEW x \in Calls, x # c, calls'[x] # None, calls'[c] # None,
               calls'[x].key = calls'[c].key, calls'[c].key # None
        PROVE  FALSE
    <3>1. calls'[c] = me
      OBVIOUS
    <3>2. calls[x] # None /\ calls'[x].key = calls[x].key
      BY <1>4, <2>2
    <3>3. calls[x].key \in taken
      BY <2>2, <3>2, AtWork DEF Formed
    <3> QED BY <1>0, <2>2, <3>1, <3>2, <3>3 DEF KeysApart
  <2> QED BY <2>1, <2>2
<1> QED BY <1>3, <1>5, <1>6

\* Files that no request is about to record are unlinked.
LEMMA HandlesClose ==
    ASSUME UploadInv, Scalars', NEW places \in SUBSET Places, Unlink(places, calls),
           \A k \in places \cap Keys : subs[k] # None,
           UNCHANGED <<subs, taken>>
    PROVE  TypeOK' /\ Requests' /\ KeysApart'
<1>0. TypeOK /\ Requests /\ KeysApart
  BY DEF UploadInv
<1>1. \A d \in Calls : calls[d] \in Request \cup {None}
  BY <1>0 DEF TypeOK
<1>2. /\ \A d \in Calls : calls'[d] = Moved(calls[d], places, None)
      /\ calls' \in [Calls -> Request \cup {None}]
  BY <1>1, MovedFields DEF Unlink, Repoint
<1>3. TypeOK'
  BY <1>2 DEF TypeOK, Scalars, Places
<1>4. ASSUME NEW d \in Calls, calls'[d] # None
      PROVE  /\ Formed(calls'[d], file', subs', taken')
             /\ calls[d] # None /\ calls'[d].key = calls[d].key
  <2>1. calls'[d] = Moved(calls[d], places, None) /\ calls[d] # None
    BY <1>1, <1>2, <1>4, MovedFields
  <2>2. Formed(calls[d], file, subs, taken) /\ calls[d] \in Request
    BY <2>1, AtWork
  <2> DEFINE r == calls[d]  m == calls'[d]
  <2>3. /\ m \in Request
        /\ m.stage = r.stage /\ m.kind = r.kind /\ m.upload = r.upload
        /\ m.offset = r.offset /\ m.done = r.done /\ m.key = r.key
        /\ m.hash = r.hash /\ m.heard = r.heard
        /\ m.to = IF r.to \in places THEN None ELSE r.to
    BY <2>1, <2>2, MovedFields
  <2>4. \A q \in Places : file'[q] = IF q \in places THEN None ELSE file[q]
    BY DEF Unlink, Places
  <2>5. m.to # None => file'[m.to] # None
    <3>1. r.to \in Places \cup {None}
      BY <2>2 DEF Request, Places
    <3> QED BY <2>2, <2>3, <2>4, <3>1 DEF Formed
  <2>6. r.kind # "append" => r.key \in Keys /\ r.key \in Places
    BY <1>0, <2>2 DEF Formed, TypeOK, Places
  <2>7. Formed(m, file', subs', taken')
    <3>1. CASE r.kind = "append"
      BY <2>2, <2>3, <2>5, <3>1 DEF Formed
    <3>2. CASE r.kind # "append"
      BY <2>2, <2>3, <2>4, <2>6, <3>2 DEF Formed
    <3> QED BY <3>1, <3>2
  <2> QED BY <2>1, <2>3, <2>7
<1>5. Requests' /\ KeysApart'
  BY <1>0, <1>4 DEF Requests, KeysApart
<1> QED BY <1>3, <1>5


\* The handles of the others follow when one request changes.
LEMMA OneChangesAmong ==
    ASSUME UploadInv, NEW c \in Calls, NEW me \in Request \cup {None},
           NEW places \in SUBSET Places, NEW p \in Places \cup {None},
           me = None \/ me.to = None,
           NEW cs, \A d \in Calls : cs[d] = IF d = c THEN me ELSE calls[d],
           calls' = Repoint(cs, places, p)
    PROVE  /\ calls' \in [Calls -> Request \cup {None}] /\ calls'[c] = me
           /\ \A d \in Calls \ {c} : calls'[d] = Moved(calls[d], places, p)
<1>1. Moved(me, places, p) = me
  BY ResumableUploadAssumption DEF Moved, Places
<1>2. calls \in [Calls -> Request \cup {None}]
  BY DEF UploadInv, TypeOK
<1>4. \A d \in Calls : calls'[d] = IF d = c THEN me ELSE Moved(calls[d], places, p)
  BY <1>1 DEF Repoint
<1>5. \A d \in Calls : Moved(calls[d], places, p) \in Request \cup {None}
  BY <1>2, MovedFields
<1> QED BY <1>4, <1>5 DEF Repoint

\* One request changes, and no handle.
LEMMA CallChanges ==
    ASSUME UploadInv, Scalars', NEW c \in Calls, NEW me \in Request \cup {None},
           calls' = [calls EXCEPT ![c] = me],
           me # None => Formed(me, file', subs', taken'),
           me # None => \/ me.key = None
                        \/ calls[c] = None /\ me.key \notin taken
                        \/ calls[c] # None /\ me.key = calls[c].key,
           taken \subseteq taken',
           \A q \in Places : file[q] # None => file'[q] # None,
           \A k \in taken : \/ calls[c] # None /\ calls[c].key = k
                            \/ /\ (file'[k] = None) <=> (file[k] = None)
                               /\ (subs'[k] = None) <=> (subs[k] = None)
    PROVE  TypeOK' /\ Requests' /\ KeysApart'
<1>1. calls \in [Calls -> Request \cup {None}]
  BY DEF UploadInv, TypeOK
<1>2. calls' \in [Calls -> Request \cup {None}] /\ calls'[c] = me
  BY <1>1
<1>3. \A d \in Calls \ {c} : calls'[d] = Moved(calls[d], {}, None)
  BY <1>1 DEF Moved
<1>4. {} \in SUBSET Places /\ None \in Places \cup {None}
  OBVIOUS
<1> QED BY <1>2, <1>3, <1>4, CallMoves

\* The requests stay as they are.
LEMMA CallsStay ==
    ASSUME UploadInv, Scalars', UNCHANGED <<calls, taken>>,
           \A q \in Places : file[q] # None => file'[q] # None,
           \A k \in Keys : /\ (file'[k] = None) <=> (file[k] = None)
                           /\ (subs'[k] = None) <=> (subs[k] = None)
    PROVE  TypeOK' /\ Requests' /\ KeysApart'
<1>0. TypeOK /\ Requests /\ KeysApart
  BY DEF UploadInv
<1>1. TypeOK'
  BY <1>0 DEF TypeOK, Scalars, Places
<1>2. ASSUME NEW c \in Calls, calls'[c] # None PROVE Formed(calls'[c], file', subs', taken')
  <2>1. calls[c] \in Request /\ Formed(calls[c], file, subs, taken)
    BY <1>2, AtWork
  <2>2. calls[c].to # None => file'[calls[c].to] # None
    BY <2>1 DEF Formed, Request, Places
  <2>3. calls[c].kind # "append" => calls[c].key \in Keys
    BY <1>0, <2>1 DEF Formed, TypeOK
  <2>4. CASE calls[c].kind = "append"
    BY <2>1, <2>2, <2>4 DEF Formed
  <2>5. CASE calls[c].kind # "append"
    BY <2>1, <2>2, <2>3, <2>5 DEF Formed
  <2> QED BY <2>4, <2>5
<1> QED BY <1>0, <1>1, <1>2 DEF Requests, KeysApart

\* A request that holds a key is one that is about to record.
LEMMA HoldsKey ==
    ASSUME UploadInv, NEW c \in Calls, At(c, "look") \/ At(c, "commit")
    PROVE  /\ calls[c] # None /\ calls[c] \in Request
           /\ Formed(calls[c], file, subs, taken)
           /\ calls[c].kind \in {"finish", "whole"} /\ calls[c].to = None
           /\ calls[c].key \in taken /\ calls[c].key \in Keys
           /\ subs[calls[c].key] = None /\ file[calls[c].key] # None
<1>1. calls[c] # None /\ calls[c] \in Request /\ Formed(calls[c], file, subs, taken)
  BY AtWork DEF At
<1>2. calls[c].kind # "append"
  BY <1>1 DEF At, Formed
<1>3. calls[c].key \in taken /\ calls[c].to = None
  BY <1>1, <1>2 DEF Formed
<1> QED BY <1>1, <1>2, <1>3 DEF At, Formed, Request, UploadInv, TypeOK

\* The file of a request goes, with the request or on its way to discard.
LEMMA OwnGoes ==
    ASSUME UploadInv, Scalars', NEW c \in Calls, At(c, "look") \/ At(c, "commit"),
           Unlink(Own(c), Ended(c)) \/ Unlink(Own(c), Recorded(c)),
           UNCHANGED taken, \A j \in Keys : j # calls[c].key => subs'[j] = subs[j]
    PROVE  TypeOK' /\ Requests' /\ KeysApart'
<1> DEFINE k == calls[c].key
           me == [calls[c] EXCEPT !.stage = "discard"]
           places == {k}
<1>0. TypeOK
  BY DEF UploadInv
<1>1. /\ calls[c] # None /\ calls[c] \in Request /\ Formed(calls[c], file, subs, taken)
      /\ calls[c].kind \in {"finish", "whole"} /\ calls[c].to = None /\ k \in Keys /\ k \in taken
      /\ subs[k] = None
  BY HoldsKey
<1>2. /\ file'[k] = None
      /\ \A q \in Places : q # k => file'[q] = file[q]
  BY <1>0, <1>1 DEF Unlink, Own, Places
<1>3. places \in SUBSET Places /\ None \in Places \cup {None} /\ k \in places
      /\ \A q \in Places : q \notin places => file'[q] = file[q]
  BY <1>1, <1>2 DEF Places
<1>4. \A j \in taken : \/ calls[c] # None /\ calls[c].key = j
                       \/ /\ (file'[j] = None) <=> (file[j] = None)
                          /\ (subs'[j] = None) <=> (subs[j] = None)
  BY <1>0, <1>1, <1>2 DEF TypeOK, Places
<1>5. CASE calls' = Repoint(Ended(c), places, None)
  <2> DEFINE cs == Ended(c)
  <2>1. \A d \in Calls : cs[d] = IF d = c THEN None ELSE calls[d]
    BY <1>0 DEF Ended, TypeOK
  <2>2. None \in Request \cup {None} /\ calls' = Repoint(cs, places, None)
    BY <1>5
  <2> HIDE DEF cs, places
  <2>3. /\ calls' \in [Calls -> Request \cup {None}] /\ calls'[c] = None
        /\ \A d \in Calls \ {c} : calls'[d] = Moved(calls[d], places, None)
    BY <1>3, <2>1, <2>2, OneChangesAmong
  <2> QED BY <1>3, <1>4, <2>2, <2>3, CallMoves
<1>6. CASE calls' = Repoint(Recorded(c), places, None) /\ calls[c].kind = "finish"
  <2> DEFINE cs == To(c, "discard")
  <2>0. me \in Request /\ me.key = k /\ me.to = None /\ me.stage = "discard"
        /\ me.kind = "finish" /\ me.upload = calls[c].upload
    BY <1>1, <1>6 DEF Request
  <2>1. \A d \in Calls : cs[d] = IF d = c THEN me ELSE calls[d]
    BY <1>0 DEF To, TypeOK
  <2>2. me \in Request \cup {None} /\ calls' = Repoint(cs, places, None)
    BY <2>0, <1>6 DEF Recorded
  <2>4. Formed(me, file', subs', taken')
    <3>1. file'[me.key] = None /\ me.key \in taken' /\ me.upload \in Uploads
      BY <1>1, <1>2, <1>6, <2>0 DEF Formed
    <3> HIDE DEF me, k
    <3> QED BY <2>0, <3>1 DEF Formed
  <2>5. calls[c] # None /\ me.key = calls[c].key
    BY <1>1, <2>0
  <2> HIDE DEF cs, places, me
  <2>3. /\ calls' \in [Calls -> Request \cup {None}] /\ calls'[c] = me
        /\ \A d \in Calls \ {c} : calls'[d] = Moved(calls[d], places, None)
    BY <1>3, <2>0, <2>1, <2>2, OneChangesAmong
  <2>6. taken \subseteq taken' /\ \A q \in Places \ places : file[q] # None => file'[q] # None
    BY <1>3
  <2> QED BY <1>3, <1>4, <2>2, <2>3, <2>4, <2>5, <2>6, CallMoves, SMTT(20)
<1> QED
  <2>1. calls' = Repoint(Ended(c), places, None) \/ calls' = Repoint(Recorded(c), places, None)
    BY DEF Unlink, Own
  <2>2. calls[c].kind = "whole" => Recorded(c) = Ended(c)
    BY DEF Recorded
  <2> QED BY <1>1, <1>5, <1>6, <2>1, <2>2

LEMMA CallsKept == UploadInv /\ [Next]_vars => TypeOK' /\ Requests' /\ KeysApart'
<1> SUFFICES ASSUME UploadInv, [Next]_vars PROVE TypeOK' /\ Requests' /\ KeysApart'
  OBVIOUS
<1> DEFINE Goal == TypeOK' /\ Requests' /\ KeysApart'
<1>0. Scalars' /\ TypeOK
  BY ScalarsKept DEF UploadInv
<1> USE DEF Sessions, World, Course, History
<1>1. ASSUME PageStep PROVE Goal
  <2>1. UNCHANGED <<file, calls, taken, subs>>
    BY <1>1 DEF PageStep, Turned, Resume, Ask, Leave
  <2> QED BY <1>0, <2>1, CallsStay
<1>2. ASSUME NEW u \in Uploads, Creates(u) PROVE Goal
  <2>1. UNCHANGED <<calls, taken, subs>> /\ file' = [file EXCEPT ![u] = <<>>]
    BY <1>2 DEF Creates, Create
  <2>2. \A q \in Places : file'[q] = IF q = u THEN <<>> ELSE file[q]
    BY <1>0, <2>1 DEF TypeOK, Places
  <2>3. u \notin Keys
    BY ResumableUploadAssumption
  <2> QED BY <1>0, <2>1, <2>2, <2>3, VideoIsBytes, NoneIsNothing, CallsStay DEF Places
<1>3. ASSUME NEW c \in Calls, SendsChunk(c) PROVE Goal
  <2>0. PICK t \in Tabs : SendChunk(t, c)
    BY <1>3 DEF SendsChunk
  <2> DEFINE me == New("append", t, page[t].upload, page[t].offset, None, "body")
  <2>1. page[t].upload \in Uploads /\ page[t].offset \in Nat
    BY <1>0, <2>0 DEF SendChunk, Found, TypeOK, Page
  <2>2. me \in Request
    BY <2>1, NewIsRequest
  <2>3. Formed(me, file, subs, taken)
    BY <2>1, <2>2 DEF New, Formed
  <2>4. calls' = [calls EXCEPT ![c] = me] /\ UNCHANGED <<file, subs, taken>>
    BY <2>0 DEF SendChunk
  <2>5. me.key = None
    BY DEF New
  <2> HIDE DEF me
  <2> QED BY <1>0, <2>2, <2>3, <2>4, <2>5, CallChanges, NoneIsNothing
<1>4. ASSUME NEW c \in Calls, SendsFinish(c) \/ SubmitVideo(c) PROVE Goal
  <2>1. PICK k \in Keys \ taken, kind \in {"finish", "whole"}, u \in Uploads \cup {None},
              stage \in {"hash", "stream"}, t \in Tabs \cup {None} :
          /\ calls' = [calls EXCEPT ![c] = New(kind, t, u, 0, k, stage)]
          /\ taken' = taken \cup {k}
          /\ kind = "finish" => u \in Uploads /\ stage = "hash"
          /\ kind = "whole" => u = None /\ stage = "stream" /\ t = None
    <3>1. ASSUME NEW t \in Tabs, SendFinish(t, c)
          PROVE  \E k \in Keys \ taken, u \in Uploads :
                    /\ calls' = [calls EXCEPT ![c] = New("finish", t, u, 0, k, "hash")]
                    /\ taken' = taken \cup {k}
      <4>1. page[t].upload \in Uploads
        BY <1>0, <3>1 DEF SendFinish, Found, TypeOK
      <4>2. PICK k \in NewKeys :
              /\ calls' = [calls EXCEPT ![c] = New("finish", t, page[t].upload, 0, k, "hash")]
              /\ taken' = taken \cup {k}
        BY <3>1 DEF SendFinish
      <4> QED BY <4>1, <4>2, OneIsFree
    <3>2. CASE SubmitVideo(c)
      BY <3>2, OneIsFree DEF SubmitVideo
    <3> QED BY <1>4, <3>1, <3>2 DEF SendsFinish
  <2> DEFINE me == New(kind, t, u, 0, k, stage)
  <2>2. me \in Request
    BY <2>1, NewIsRequest
  <2>3. file[k] = None /\ subs[k] = None
    BY <2>1 DEF UploadInv, StoreSound
  <2>4. UNCHANGED <<file, subs>> /\ calls[c] = None
    BY <1>4, OneIsFree DEF SendsFinish, SendFinish, SubmitVideo
  <2>5. Formed(me, file', subs', taken')
    BY <2>1, <2>2, <2>3, <2>4 DEF New, Formed
  <2>6. me.key = k /\ k \notin taken
    BY <2>1 DEF New
  <2>7. calls' = [calls EXCEPT ![c] = me] /\ taken \subseteq taken'
    BY <2>1
  <2> HIDE DEF me
  <2> QED BY <1>0, <2>2, <2>4, <2>5, <2>6, <2>7, CallChanges, NoneIsNothing
<1>5. ASSUME NEW c \in Calls, Disconnect(c) PROVE Goal
  <2>1. calls' = [calls EXCEPT ![c] = None] /\ UNCHANGED <<file, subs, taken>>
    BY <1>5 DEF Disconnect, Ended
  <2> QED BY <1>0, <2>1, CallChanges
<1>6. ASSUME NEW c \in Calls, CutOff(c) PROVE Goal
  <2> DEFINE me == [calls[c] EXCEPT !.heard = None]
  <2>1. calls[c] # None /\ calls[c] \in Request /\ Formed(calls[c], file, subs, taken)
    BY <1>6, AtWork DEF CutOff
  <2>2. me \in Request /\ me.key = calls[c].key
    BY <2>1 DEF Request
  <2>3. Formed(me, file, subs, taken)
    BY <2>1, <2>2 DEF Formed, Request
  <2>4. calls' = [calls EXCEPT ![c] = me] /\ UNCHANGED <<file, subs, taken>>
    BY <1>0, <1>6 DEF CutOff, TypeOK
  <2> HIDE DEF me
  <2> QED BY <1>0, <2>1, <2>2, <2>3, <2>4, CallChanges
<1>7. ASSUME NEW c \in Calls, Check(c) PROVE Goal
  <2> DEFINE me == [calls[c] EXCEPT !.stage = "open"]
  <2>1. calls[c] # None /\ calls[c] \in Request /\ Formed(calls[c], file, subs, taken)
        /\ calls[c].stage = "body"
    BY <1>7, AtWork DEF Check, At
  <2>2. me \in Request /\ me.key = calls[c].key
    BY <2>1 DEF Request
  <2>3. Formed(me, file, subs, taken)
    BY <2>1, <2>2 DEF Formed, Request
  <2>4. /\ calls' = [calls EXCEPT ![c] = me] \/ calls' = [calls EXCEPT ![c] = None]
        /\ UNCHANGED <<file, subs, taken>>
    BY <1>0, <1>7 DEF Check, TypeOK, To, Ended
  <2> HIDE DEF me
  <2> QED BY <1>0, <2>1, <2>2, <2>3, <2>4, CallChanges
<1>8. ASSUME NEW c \in Calls, Open(c) PROVE Goal
  <2> DEFINE u == calls[c].upload
             me == [calls[c] EXCEPT !.stage = "write", !.to = u]
  <2>1. calls[c] # None /\ calls[c] \in Request /\ Formed(calls[c], file, subs, taken)
        /\ calls[c].stage = "open" /\ u \in Uploads
    BY <1>8, AtWork DEF Open, At, Formed, Request
  <2>2. me \in Request /\ me.key = calls[c].key /\ me.to = u /\ me.stage = "write"
        /\ me.kind = calls[c].kind /\ me.offset = calls[c].offset /\ me.done = calls[c].done
        /\ me.upload = u
    BY <2>1 DEF Request
  <2>3. /\ file' = [file EXCEPT ![u] = IF file[u] = None THEN <<>> ELSE file[u]]
        /\ calls' = [calls EXCEPT ![c] = me] \/ calls' = [calls EXCEPT ![c] = None]
        /\ UNCHANGED <<subs, taken>>
    BY <1>0, <1>8 DEF Open, TypeOK, Ended
  <2>4. /\ file'[u] # None
        /\ \A q \in Places : q # u => file'[q] = file[q]
        /\ \A q \in Places : file[q] # None => file'[q] # None
    BY <1>0, <2>1, <2>3, VideoIsBytes, NoneIsNothing DEF TypeOK, Places
  <2>5. \A k \in Keys : file'[k] = file[k]
    BY <2>1, <2>4, ResumableUploadAssumption DEF Places
  <2>6. calls[c].done = 0
    BY <2>1 DEF Formed, Request
  <2>7. Formed(me, file', subs', taken')
    <3>1. me.done <= PieceOf(me.offset)
      BY <2>1, <2>2, <2>6, PieceIsNat DEF Request
    <3>2. me.kind = "append"
      BY <2>1, <2>2 DEF Formed, Request
    <3>3. me.key = None /\ me.upload \in Uploads
      BY <2>1, <2>2, <3>2 DEF Formed
    <3>4. file'[me.to] # None
      BY <2>2, <2>4
    <3> HIDE DEF me
    <3> QED BY <2>2, <3>1, <3>2, <3>3, <3>4 DEF Formed
  <2>8. \A k \in taken : file'[k] = file[k]
    BY <1>0, <2>5 DEF TypeOK
  <2>9. taken \subseteq taken' /\ \A k \in taken : subs'[k] = subs[k]
    BY <2>3
  <2> HIDE DEF me
  <2>10. CASE calls' = [calls EXCEPT ![c] = me]
    BY <1>0, <2>1, <2>2, <2>4, <2>7, <2>8, <2>9, <2>10, CallChanges
  <2>11. CASE calls' = [calls EXCEPT ![c] = None]
    BY <1>0, <2>4, <2>8, <2>9, <2>11, CallChanges
  <2> QED BY <2>3, <2>10, <2>11
<1>9. ASSUME NEW c \in Calls, Write(c) PROVE Goal
  <2> DEFINE me == [calls[c] EXCEPT !.done = @ + 1]
  <2>1. calls[c] # None /\ calls[c] \in Request /\ Formed(calls[c], file, subs, taken)
        /\ calls[c].stage = "write" /\ calls[c].done < PieceOf(calls[c].offset)
    BY <1>9, AtWork DEF Write, At
  <2>2. me \in Request /\ me.key = calls[c].key /\ me.to = calls[c].to /\ me.stage = "write"
        /\ me.kind = calls[c].kind /\ me.offset = calls[c].offset
        /\ me.done = calls[c].done + 1 /\ me.upload = calls[c].upload
    BY <2>1 DEF Request
  <2>3. /\ calls' = [calls EXCEPT ![c] = me] /\ UNCHANGED <<subs, taken>>
    BY <1>0, <1>9 DEF Write, TypeOK
  <2>4. \A q \in Places : (file'[q] = None) <=> (file[q] = None)
    <3>1. ASSUME NEW q \in Places, q = calls[c].to PROVE file'[q] # None /\ file[q] # None
      <4>1. file[q] \in Bytes
        BY <1>0, <2>1, <3>1, ResumableUploadAssumption DEF Formed, TypeOK, Places
      <4>2. calls[c].offset + calls[c].done + 1 \in 1 .. Size
        BY <2>1, PieceIsNat, ResumableUploadAssumption DEF Request
      <4>3. file'[q] = Append(file[q], calls[c].offset + calls[c].done + 1)
        BY <1>9, <3>1 DEF Write, Places
      <4>4. file'[q] \in Bytes
        BY <4>1, <4>2, <4>3 DEF Bytes
      <4> QED BY <4>1, <4>4, NoneIsNothing
    <3>2. ASSUME NEW q \in Places, q # calls[c].to PROVE file'[q] = file[q]
      BY <1>9, <3>2 DEF Write, Places
    <3> QED BY <3>1, <3>2
  <2>5. me.done <= PieceOf(me.offset)
    BY <2>1, <2>2, PieceIsNat DEF Request
  <2>6. Formed(me, file', subs', taken')
    <3>1. me.kind = "append" /\ me.to # None => file'[me.to] # None
      BY <2>1, <2>2, <2>4 DEF Formed, Request, Places
    <3>2. me.kind = "append"
      BY <2>1, <2>2 DEF Formed, Request
    <3> QED BY <2>1, <2>2, <2>5, <3>1, <3>2 DEF Formed
  <2> HIDE DEF me
  <2>7. \A k \in taken : (file'[k] = None) <=> (file[k] = None)
    BY <1>0, <2>4 DEF TypeOK, Places
  <2> QED BY <1>0, <2>1, <2>2, <2>3, <2>4, <2>6, <2>7, CallChanges
<1>10. ASSUME NEW c \in Calls, Wrote(c) PROVE Goal
  <2>1. calls' = [calls EXCEPT ![c] = None] /\ UNCHANGED <<file, subs, taken>>
    BY <1>10 DEF Wrote, Ended
  <2> QED BY <1>0, <2>1, CallChanges
<1>11. ASSUME NEW c \in Calls, Streamed(c) PROVE Goal
  <2> DEFINE k == calls[c].key
             me == [calls[c] EXCEPT !.stage = "look", !.hash = Video]
  <2>1. calls[c] # None /\ calls[c] \in Request /\ Formed(calls[c], file, subs, taken)
        /\ calls[c].stage = "stream" /\ calls[c].kind = "whole" /\ k \in Keys /\ k \in Places
    BY <1>0, <1>11, AtWork DEF Streamed, At, Formed, Request, TypeOK, Places
  <2>2. me \in Request /\ me.key = k /\ me.to = calls[c].to /\ me.stage = "look"
        /\ me.kind = calls[c].kind /\ me.upload = calls[c].upload /\ me.heard = calls[c].heard
    BY <2>1, VideoIsBytes DEF Request
  <2>3. CASE Size > Limit
    <3>1. calls' = [calls EXCEPT ![c] = None] /\ UNCHANGED <<file, subs, taken>>
      BY <1>11, <2>3 DEF Streamed, Ended
    <3> QED BY <1>0, <3>1, CallChanges
  <2>4. CASE ~(Size > Limit)
    <3>1. /\ calls' = [calls EXCEPT ![c] = me] /\ UNCHANGED <<subs, taken>>
          /\ file' = [file EXCEPT ![k] = Video]
      BY <1>0, <1>11, <2>4 DEF Streamed, TypeOK
    <3>2. /\ file'[k] = Video
          /\ \A q \in Places : q # k => file'[q] = file[q]
      BY <1>0, <2>1, <3>1 DEF TypeOK, Places
    <3>3. Formed(me, file', subs', taken')
      <4>1. me.to = None /\ me.key \in taken /\ subs[k] = None
        BY <2>1, <2>2 DEF Formed
      <4> HIDE DEF me, k
      <4> QED BY <2>1, <2>2, <3>1, <3>2, <4>1, VideoIsBytes DEF Formed
    <3>4. \A j \in taken : j \in Places
      BY <1>0 DEF TypeOK, Places
    <3> HIDE DEF me
    <3> QED BY <1>0, <2>1, <2>2, <3>1, <3>2, <3>3, <3>4, VideoIsBytes, CallChanges
  <2> QED BY <2>3, <2>4
<1>12. ASSUME NEW c \in Calls, Hash(c) PROVE Goal
  <2> DEFINE me == [calls[c] EXCEPT !.stage = "move", !.hash = file[calls[c].upload]]
  <2>1. calls[c] # None /\ calls[c] \in Request /\ Formed(calls[c], file, subs, taken)
        /\ calls[c].stage = "hash" /\ calls[c].upload \in Uploads
    BY <1>12, AtWork DEF Hash, At, Formed, Request
  <2>2. CASE file[calls[c].upload] = None
    <3>1. calls' = [calls EXCEPT ![c] = None] /\ UNCHANGED <<file, subs, taken>>
      BY <1>12, <2>2 DEF Hash, Ended
    <3> QED BY <1>0, <3>1, CallChanges
  <2>3. CASE file[calls[c].upload] # None
    <3>1. file[calls[c].upload] \in Bytes
      BY <1>0, <2>1, <2>3 DEF TypeOK
    <3>2. me \in Request /\ me.key = calls[c].key
      BY <2>1, <3>1 DEF Request
    <3>3. Formed(me, file, subs, taken)
      BY <2>1, <3>2 DEF Formed, Request
    <3>4. calls' = [calls EXCEPT ![c] = me] /\ UNCHANGED <<file, subs, taken>>
      BY <1>0, <1>12, <2>3 DEF Hash, TypeOK
    <3> HIDE DEF me
    <3> QED BY <1>0, <2>1, <3>2, <3>3, <3>4, CallChanges
  <2> QED BY <2>2, <2>3
<1>13. ASSUME NEW c \in Calls, Move(c) PROVE Goal
  <2> DEFINE u == calls[c].upload
             k == calls[c].key
             me == [calls[c] EXCEPT !.stage = "look"]
  <2>1. calls[c] # None /\ calls[c] \in Request /\ Formed(calls[c], file, subs, taken)
        /\ calls[c].stage = "move" /\ calls[c].kind = "finish" /\ u \in Uploads /\ k \in Keys
        /\ u # k
    <3>1. calls[c] # None /\ calls[c].stage = "move"
      BY <1>13 DEF Move, At
    <3>2. calls[c] \in Request /\ Formed(calls[c], file, subs, taken)
      BY <3>1, AtWork
    <3>3. calls[c].kind = "finish"
      BY <3>1, <3>2 DEF Formed, Request
    <3>4. u \in Uploads /\ k \in taken
      BY <3>2, <3>3 DEF Formed
    <3> QED BY <1>0, <3>1, <3>2, <3>3, <3>4, ResumableUploadAssumption DEF TypeOK
  <2>2. me \in Request /\ me.key = k /\ me.to = calls[c].to /\ me.stage = "look"
        /\ me.kind = "finish" /\ me.upload = u
    BY <2>1 DEF Request
  <2>3. me.to = None /\ k \in taken /\ subs[k] = None
    BY <2>1, <2>2 DEF Formed
  <2>4. CASE file[u] = None
    <3>1. calls' = [calls EXCEPT ![c] = None] /\ UNCHANGED <<file, subs, taken>>
      BY <1>13, <2>4, Zenon DEF Move, Ended
    <3> QED BY <1>0, <3>1, CallChanges
  <2>5. CASE file[u] # None
    <3>1. /\ calls' = Repoint([calls EXCEPT ![c] = me], {u}, k) /\ UNCHANGED <<subs, taken>>
          /\ file' = [file EXCEPT ![k] = file[u], ![u] = None]
      <4>1. To(c, "look") = [calls EXCEPT ![c] = me]
        BY <1>0 DEF To, TypeOK
      <4> QED BY <1>13, <2>5, <4>1 DEF Move
    <3>2. /\ file'[k] # None
          /\ \A q \in Places : q # k /\ q # u => file'[q] = file[q]
      BY <1>0, <2>1, <2>5, <3>1 DEF TypeOK, Places
    <3> HIDE DEF me
    <3>3. {u} \in SUBSET Places /\ k \in Places
      BY <2>1 DEF Places
    <3> DEFINE places == {u}
               cs == [calls EXCEPT ![c] = me]
    <3>4. /\ calls' \in [Calls -> Request \cup {None}] /\ calls'[c] = me
          /\ \A d \in Calls \ {c} : calls'[d] = Moved(calls[d], places, k)
      <4>1. places \in SUBSET Places /\ k \in Places \cup {None} /\ me \in Request \cup {None}
            /\ (me = None \/ me.to = None)
            /\ calls' = Repoint(cs, places, k)
            /\ \A d \in Calls : cs[d] = IF d = c THEN me ELSE calls[d]
        BY <1>0, <2>2, <2>3, <3>1, <3>3 DEF TypeOK
      <4> HIDE DEF places, k, cs
      <4> QED BY <4>1, OneChangesAmong
    <3>5. Formed(me, file', subs', taken')
      <4>1. subs'[me.key] = None /\ file'[me.key] # None /\ me.key \in taken'
        BY <2>2, <2>3, <3>1, <3>2
      <4> HIDE DEF k, u
      <4> QED BY <2>1, <2>2, <2>3, <4>1 DEF Formed
    <3>6. \A j \in taken : j \in Places /\ j # u
      BY <1>0, <2>1, ResumableUploadAssumption DEF TypeOK, Places
    <3>7. /\ \A q \in Places \ {u} : file[q] # None => file'[q] # None
          /\ \A j \in taken : j = k \/ (file'[j] = file[j] /\ subs'[j] = subs[j])
      BY <3>1, <3>2, <3>6
    <3>8. me # None => calls[c] # None /\ me.key = calls[c].key
      BY <2>1, <2>2
    <3>9. /\ me \in Request \cup {None} /\ k \in Places \cup {None}
          /\ taken \subseteq taken'
      BY <2>2, <3>1, <3>3
    <3>10. \A j \in taken : \/ calls[c] # None /\ calls[c].key = j
                            \/ /\ (file'[j] = None) <=> (file[j] = None)
                               /\ (subs'[j] = None) <=> (subs[j] = None)
      BY <2>1, <3>7
    <3>11. places \in SUBSET Places
           /\ \A q \in Places \ places : file[q] # None => file'[q] # None
      BY <3>3, <3>7
    <3>12. k # None => file'[k] # None
      BY <3>2
    <3> HIDE DEF k, u, places
    <3> QED BY <1>0, <3>11, <3>12, <3>4, <3>5, <3>7, <3>8, <3>9, <3>10, CallMoves
  <2> QED BY <2>4, <2>5
<1>14. ASSUME NEW c \in Calls, Look(c) PROVE Goal
  <2>1. CASE Unlink(Own(c), Ended(c)) \/ Unlink(Own(c), Recorded(c))
    BY <1>0, <1>14, <2>1, OwnGoes DEF Look
  <2>2. CASE calls' = To(c, "commit") /\ UNCHANGED file
    <3> DEFINE me == [calls[c] EXCEPT !.stage = "commit"]
    <3>1. calls[c] # None /\ calls[c] \in Request /\ Formed(calls[c], file, subs, taken)
          /\ calls[c].stage = "look" /\ calls[c].kind # "append"
      BY <1>14, HoldsKey DEF Look, At
    <3>2. me \in Request /\ me.key = calls[c].key
      BY <3>1 DEF Request
    <3>3. Formed(me, file, subs, taken)
      BY <3>1, <3>2 DEF Formed, Request
    <3>4. calls' = [calls EXCEPT ![c] = me] /\ UNCHANGED <<file, subs, taken>>
      BY <1>0, <1>14, <2>2 DEF Look, To, TypeOK
    <3> HIDE DEF me
    <3> QED BY <1>0, <3>1, <3>2, <3>3, <3>4, CallChanges
  <2> QED BY <1>14, <2>1, <2>2 DEF Look
<1>15. ASSUME NEW c \in Calls, Commit(c) PROVE Goal
  <2>1. CASE Collides(calls[c])
    <3>1. Unlink(Own(c), Ended(c)) /\ UNCHANGED <<subs, taken>>
      BY <1>15, <2>1 DEF Commit
    <3> QED BY <1>0, <1>15, <3>1, OwnGoes DEF Commit
  <2>2. CASE ~Collides(calls[c])
    <3> DEFINE k == calls[c].key
               me == IF calls[c].kind = "whole" THEN None
                     ELSE [calls[c] EXCEPT !.stage = "discard"]
               new == [by |-> KeyOf(calls[c]), says |-> calls[c].hash, purged |-> FALSE]
    <3>1. calls[c] # None /\ calls[c] \in Request /\ Formed(calls[c], file, subs, taken)
          /\ calls[c].stage = "commit" /\ calls[c].kind \in {"finish", "whole"} /\ k \in Keys
          /\ k \in taken /\ calls[c].to = None
      BY <1>15, HoldsKey DEF Commit, At
    <3>2. me \in Request \cup {None} /\ (me # None => me.key = k)
      BY <3>1 DEF Request
    <3>3. /\ subs' = [subs EXCEPT ![k] = new] /\ UNCHANGED <<file, taken>>
          /\ calls' = [calls EXCEPT ![c] = me]
      BY <1>0, <1>15, <2>2 DEF Commit, Recorded, Ended, To, TypeOK
    <3>4. new # None
      <4>1. KeyOf(calls[c]) \in Uploads \cup {Whole} /\ calls[c].hash \in Bytes
        BY <3>1 DEF Formed, Request, KeyOf
      <4>2. new \in Submission
        BY <4>1 DEF Submission
      <4> QED BY <4>2, NoneIsNothing
    <3>5. /\ subs'[k] # None /\ \A j \in Keys : j # k => subs'[j] = subs[j]
      BY <1>0, <3>1, <3>3, <3>4 DEF TypeOK
    <3>6. me # None => Formed(me, file', subs', taken')
      <4>1. SUFFICES ASSUME calls[c].kind = "finish" PROVE Formed(me, file', subs', taken')
        BY <3>1
      <4>2. me \in Request /\ me.key = k /\ me.to = None /\ me.stage = "discard"
            /\ me.kind = "finish" /\ me.upload = calls[c].upload /\ me.upload \in Uploads
        BY <3>1, <4>1 DEF Formed, Request
      <4> HIDE DEF me, k, new
      <4> QED BY <3>1, <3>3, <3>5, <4>2 DEF Formed
    <3>7. \A j \in taken : j \in Keys
      BY <1>0 DEF TypeOK
    <3> HIDE DEF me, new
    <3> QED BY <1>0, <3>1, <3>2, <3>3, <3>5, <3>6, <3>7, CallChanges
  <2> QED BY <2>1, <2>2
<1>16. ASSUME NEW c \in Calls, CommitFails(c) \/ CommitUnheard(c) PROVE Goal
  <2>1. /\ Unlink(Own(c), Ended(c)) /\ UNCHANGED taken /\ (At(c, "look") \/ At(c, "commit"))
        /\ \A j \in Keys : j # calls[c].key => subs'[j] = subs[j]
    BY <1>0, <1>16 DEF CommitFails, CommitUnheard, TypeOK
  <2> QED BY <1>0, <2>1, OwnGoes
<1>17. ASSUME NEW c \in Calls, Discard(c) PROVE Goal
  <2> DEFINE u == calls[c].upload
             places == {u}
             cs == Ended(c)
  <2>1. u \in Uploads
    BY <1>17, AtWork DEF Discard, At, Formed, Request
  <2>2. Unlink(places, cs) /\ UNCHANGED <<subs, taken>>
    BY <1>17 DEF Discard
  <2>3. \A d \in Calls : cs[d] = IF d = c THEN None ELSE calls[d]
    BY <1>0 DEF Ended, TypeOK
  <2>4. /\ places \in SUBSET Places /\ None \in Places \cup {None}
        /\ None \in Request \cup {None}
    BY <2>1 DEF Places
  <2>5. \A q \in Places : q \notin places => file'[q] = file[q]
    BY <2>2 DEF Unlink, Places
  <2>6. \A j \in taken : file'[j] = file[j]
    BY <1>0, <2>1, <2>5, ResumableUploadAssumption DEF TypeOK, Places
  <2> HIDE DEF cs, places
  <2>7. /\ calls' \in [Calls -> Request \cup {None}] /\ calls'[c] = None
        /\ \A d \in Calls \ {c} : calls'[d] = Moved(calls[d], places, None)
    <3>1. calls' = Repoint(cs, places, None)
      BY <2>2 DEF Unlink
    <3> QED BY <2>3, <2>4, <3>1, OneChangesAmong
  <2> QED BY <1>0, <2>2, <2>4, <2>5, <2>6, <2>7, CallMoves
<1>18. ASSUME Restart PROVE Goal
  <2>1. calls' = [c \in Calls |-> None]
    BY <1>18 DEF Restart
  <2> QED BY <1>0, <2>1 DEF TypeOK, Scalars, Places, Requests, KeysApart
<1>19. ASSUME SweepExpired PROVE Goal
  <2> DEFINE places == session \cap expired
  <2>1. Unlink(places, calls) /\ UNCHANGED <<subs, taken>>
    BY <1>19 DEF SweepExpired
  <2>2. places \in SUBSET Places /\ places \cap Keys = {}
    BY <1>0, ResumableUploadAssumption DEF TypeOK, Places
  <2> HIDE DEF places
  <2> QED BY <1>0, <2>1, <2>2, HandlesClose
<1>20. ASSUME NEW k \in Keys, Delete(k) PROVE Goal
  <2> DEFINE places == {k}
  <2>1. Unlink(places, calls) /\ UNCHANGED <<subs, taken>>
    BY <1>20 DEF Delete
  <2>2. places \in SUBSET Places /\ \A j \in places \cap Keys : subs[j] # None
    BY <1>20 DEF Delete, UploadInv, PurgeSound, Places
  <2> HIDE DEF places
  <2> QED BY <1>0, <2>1, <2>2, HandlesClose
<1>21. ASSUME \/ Plan \/ PurgeDies \/ Close
              \/ \E u \in Uploads : Expire(u)
              \/ \E k \in Keys : Retire(k) \/ DeleteFails(k)
              \/ UNCHANGED vars
       PROVE  Goal
  <2>1. UNCHANGED <<file, calls, taken, subs>>
    BY <1>21, Zenon DEF Plan, PurgeDies, Close, Expire, Retire, DeleteFails, vars
  <2> QED BY <1>0, <2>1, CallsStay
<1>22. ASSUME Mark PROVE Goal
  <2>1. UNCHANGED <<file, calls, taken>>
    BY <1>22 DEF Mark
  <2>2. \A k \in Keys : (subs'[k] = None) <=> (subs[k] = None)
    <3>1. ASSUME NEW k \in Keys, Marked(k) PROVE subs'[k] # None /\ subs[k] # None
      <4>1. subs[k] \in Submission
        BY <1>0, <3>1 DEF TypeOK, Marked, UploadInv, PurgeSound
      <4>2. [subs[k] EXCEPT !.purged = TRUE] \in Submission
        BY <4>1 DEF Submission
      <4> QED BY <1>22, <3>1, <4>1, <4>2, NoneIsNothing DEF Mark
    <3>2. ASSUME NEW k \in Keys, ~Marked(k) PROVE subs'[k] = subs[k]
      BY <1>22, <3>2 DEF Mark
    <3> QED BY <3>1, <3>2
  <2> QED BY <1>0, <2>1, <2>2, CallsStay
<1> QED
  BY <1>1, <1>2, <1>3, <1>4, <1>5, <1>6, <1>7, <1>8, <1>9, <1>10, <1>11, <1>12, <1>13, <1>14,
     <1>15, <1>16, <1>17, <1>18, <1>19, <1>20, <1>21, <1>22
  DEF Next, Browser, Server, Purging, PageStep, Creates, SendsChunk, SendsFinish

-----------------------------------------------------------------------------
(* The store, the submissions and the purge                                *)

Stored == StoreSound /\ PurgeSound /\ VideoKept /\ OneOfAnUpload

LEMMA StoreStays ==
    ASSUME UploadInv, taken \subseteq taken', UNCHANGED <<subs, old, purge, unheard>>,
           \A k \in Keys : (file'[k] = None) <=> (file[k] = None)
    PROVE  Stored'
<1>1. /\ StoreSound /\ PurgeSound /\ VideoKept /\ OneOfAnUpload
      /\ old \subseteq Keys /\ purge.gone \subseteq old
  BY DEF UploadInv, TypeOK, PurgeSound
<1>2. StoreSound' /\ PurgeSound'
  BY <1>1 DEF StoreSound, PurgeSound
<1>3. VideoKept' /\ OneOfAnUpload'
  BY <1>1 DEF VideoKept, HasItsVideo, GoneWhenPurged, OneOfAnUpload
<1> QED BY <1>2, <1>3 DEF Stored

\* A file without a submission is put or unlinked.
LEMMA OneFileChanges ==
    ASSUME UploadInv, UNCHANGED <<subs, taken, old, purge, unheard>>,
           NEW k \in taken, subs[k] = None,
           \A j \in Keys : j # k => file'[j] = file[j]
    PROVE  Stored'
<1>1. /\ StoreSound /\ PurgeSound /\ VideoKept /\ OneOfAnUpload
      /\ old \subseteq Keys /\ purge.gone \subseteq old
  BY DEF UploadInv, TypeOK, PurgeSound
<1>2. k \notin old
  BY <1>1 DEF PurgeSound
<1>3. StoreSound' /\ PurgeSound'
  BY <1>1, <1>2 DEF StoreSound, PurgeSound
<1>4. VideoKept' /\ OneOfAnUpload'
  BY <1>1 DEF VideoKept, HasItsVideo, GoneWhenPurged, OneOfAnUpload
<1> QED BY <1>3, <1>4 DEF Stored

LEMMA StoreKept == UploadInv /\ [Next]_vars => Stored'
<1> SUFFICES ASSUME UploadInv, [Next]_vars PROVE Stored'
  OBVIOUS
<1> USE DEF Sessions, World, Course, History
<1>0. TypeOK /\ Scalars'
  BY ScalarsKept DEF UploadInv
<1>1. ASSUME \/ PageStep \/ Close
             \/ \E c \in Calls : \/ SendsChunk(c) \/ SendsFinish(c) \/ Disconnect(c) \/ CutOff(c)
                                 \/ Check(c) \/ Wrote(c) \/ SubmitVideo(c) \/ Hash(c)
             \/ \E u \in Uploads : Expire(u)
             \/ Restart \/ UNCHANGED vars
      PROVE  Stored'
  <2>1. UNCHANGED <<subs, old, purge, file, unheard>> /\ taken \subseteq taken'
    BY <1>1 DEF PageStep, Turned, Resume, Ask, Leave, Close, SendsChunk, SendChunk, SendsFinish, SendFinish, Disconnect, CutOff, Check,
                Wrote, SubmitVideo, Hash, Expire, Restart, vars
  <2> QED BY <2>1, StoreStays
<1>2. ASSUME NEW u \in Uploads, Creates(u) PROVE Stored'
  <2>1. UNCHANGED <<subs, taken, old, purge, unheard>> /\ file' = [file EXCEPT ![u] = <<>>]
    BY <1>2 DEF Creates, Create
  <2>2. \A k \in Keys : file'[k] = file[k]
    BY <1>0, <2>1, ResumableUploadAssumption DEF TypeOK
  <2> QED BY <2>1, <2>2, StoreStays
<1>3. ASSUME NEW c \in Calls, Open(c) PROVE Stored'
  <2>1. calls[c].upload \in Uploads
    BY <1>3, AtWork DEF Open, At, Formed, Request
  <2>2. \A k \in Keys : file'[k] = file[k]
    BY <1>0, <1>3, <2>1, ResumableUploadAssumption DEF TypeOK, Open
  <2> QED BY <1>3, <2>2, StoreStays DEF Open
<1>4. ASSUME NEW c \in Calls, Write(c) PROVE Stored'
  <2>1. UNCHANGED <<subs, taken, old, purge, unheard>>
    BY <1>4 DEF Write
  <2>2. \A k \in Keys : (file'[k] = None) <=> (file[k] = None)
    <3>1. ASSUME NEW k \in Keys, k = calls[c].to PROVE file'[k] # None /\ file[k] # None
      <4>1. calls[c] # None /\ calls[c] \in Request /\ Formed(calls[c], file, subs, taken)
            /\ calls[c].done < PieceOf(calls[c].offset)
        BY <1>4, AtWork DEF Write, At
      <4>2. file[k] \in Bytes
        BY <1>0, <3>1, <4>1, ResumableUploadAssumption DEF Formed, TypeOK
      <4>3. calls[c].offset + calls[c].done + 1 \in 1 .. Size
        BY <4>1, PieceIsNat, ResumableUploadAssumption DEF Request
      <4>4. file'[k] = Append(file[k], calls[c].offset + calls[c].done + 1)
        BY <1>4, <3>1 DEF Write
      <4>5. file'[k] \in Bytes
        BY <4>2, <4>3, <4>4 DEF Bytes
      <4> QED BY <4>2, <4>5, NoneIsNothing
    <3>2. ASSUME NEW k \in Keys, k # calls[c].to PROVE file'[k] = file[k]
      BY <1>4, <3>2 DEF Write
    <3> QED BY <3>1, <3>2
  <2> QED BY <2>1, <2>2, StoreStays
<1>5. ASSUME NEW c \in Calls, Streamed(c) \/ Move(c) PROVE Stored'
  <2>1. UNCHANGED <<subs, taken, old, purge, unheard>>
    BY <1>5 DEF Streamed, Move
  <2>2. calls[c] # None /\ calls[c].stage \in {"stream", "move"}
    BY <1>5 DEF Streamed, Move, At
  <2>3. calls[c] \in Request /\ Formed(calls[c], file, subs, taken)
    BY <2>2, AtWork
  <2>4. calls[c].key \in taken /\ subs[calls[c].key] = None
        /\ (calls[c].stage = "move" => calls[c].upload \in Uploads)
    BY <2>2, <2>3 DEF Formed, Request
  <2>5. \A j \in Keys : j # calls[c].key => file'[j] = file[j]
    BY <1>0, <1>5, <2>4, ResumableUploadAssumption DEF Streamed, Move, At, TypeOK
  <2> QED BY <2>1, <2>4, <2>5, OneFileChanges
<1>6. ASSUME NEW c \in Calls, At(c, "look") \/ At(c, "commit"),
             UNCHANGED <<subs, taken, old, purge, unheard>>,
             UNCHANGED file \/ \E cs : Unlink(Own(c), cs)
      PROVE  Stored'
  <2>1. calls[c].key \in taken /\ subs[calls[c].key] = None
    BY <1>6, HoldsKey
  <2>2. \A j \in Keys : j # calls[c].key => file'[j] = file[j]
    BY <1>6 DEF Unlink, Own
  <2> QED BY <1>6, <2>1, <2>2, OneFileChanges
<1>7. ASSUME NEW c \in Calls, Look(c) \/ CommitFails(c) PROVE Stored'
  <2>1. UNCHANGED <<subs, taken, old, purge, unheard>> /\ (At(c, "look") \/ At(c, "commit"))
    BY <1>7 DEF Look, CommitFails
  <2>2. UNCHANGED file \/ \E cs : Unlink(Own(c), cs)
    BY <1>7, Zenon DEF Look, CommitFails
  <2> QED BY <1>6, <2>1, <2>2
<1>8. ASSUME NEW c \in Calls, Commit(c) PROVE Stored'
  <2>1. CASE Collides(calls[c])
    <3>1. UNCHANGED <<subs, taken, old, purge, unheard>> /\ At(c, "commit") /\ \E cs : Unlink(Own(c), cs)
      BY <1>8, <2>1 DEF Commit
    <3> QED BY <1>6, <3>1
  <2>2. CASE ~Collides(calls[c])
    <3> DEFINE k == calls[c].key
               new == [by |-> KeyOf(calls[c]), says |-> calls[c].hash, purged |-> FALSE]
    <3>1. k \in taken /\ k \in Keys /\ subs[k] = None /\ file[k] # None
      BY <1>8, HoldsKey DEF Commit
    <3>2. subs' = [subs EXCEPT ![k] = new] /\ UNCHANGED <<file, taken, old, purge, unheard>>
      BY <1>8, <2>2 DEF Commit
    <3>3. /\ subs'[k].by = KeyOf(calls[c]) /\ subs'[k].purged = FALSE
          /\ \A j \in Keys : j # k => subs'[j] = subs[j]
      BY <1>0, <3>1, <3>2 DEF TypeOK
    <3>4. \A j \in Keys : subs[j] # None => subs[j].by # KeyOf(calls[c])
      BY <2>2 DEF Collides, Claimed
    <3> HIDE DEF k, new
    <3>5. StoreSound'
      BY <3>1, <3>2, <3>3 DEF UploadInv, StoreSound
    <3>6. PurgeSound'
      BY <1>0, <3>1, <3>2, <3>3 DEF UploadInv, PurgeSound, TypeOK
    <3>7. VideoKept'
      BY <3>1, <3>2, <3>3 DEF UploadInv, VideoKept, HasItsVideo, GoneWhenPurged
    <3>8. OneOfAnUpload'
      BY <3>1, <3>3, <3>4 DEF UploadInv, OneOfAnUpload
    <3> QED BY <3>5, <3>6, <3>7, <3>8 DEF Stored
  <2> QED BY <2>1, <2>2
<1>15. ASSUME NEW c \in Calls, CommitUnheard(c) PROVE Stored'
  <2> DEFINE k == calls[c].key
             new == [by |-> KeyOf(calls[c]), says |-> calls[c].hash, purged |-> FALSE]
  <2>1. k \in taken /\ k \in Keys /\ subs[k] = None
    BY <1>15, HoldsKey DEF CommitUnheard
  <2>2. /\ subs' = [subs EXCEPT ![k] = new] /\ UNCHANGED <<taken, old, purge>>
        /\ unheard' = unheard \cup {k} /\ Unlink(Own(c), Ended(c))
    BY <1>15 DEF CommitUnheard
  <2>3. /\ subs'[k].by = KeyOf(calls[c]) /\ subs'[k].purged = FALSE
        /\ \A j \in Keys : j # k => subs'[j] = subs[j]
    BY <1>0, <2>1, <2>2 DEF TypeOK
  <2>4. file'[k] = None /\ \A j \in Keys : j # k => file'[j] = file[j]
    BY <2>1, <2>2 DEF Unlink, Own
  <2>5. \A j \in Keys : subs[j] # None => subs[j].by # KeyOf(calls[c])
    BY <1>15 DEF CommitUnheard, Collides, Claimed
  <2> HIDE DEF k, new
  <2>6. StoreSound'
    BY <2>1, <2>2, <2>3, <2>4 DEF UploadInv, StoreSound
  <2>7. PurgeSound'
    BY <1>0, <2>1, <2>2, <2>3, <2>4 DEF UploadInv, PurgeSound, TypeOK
  <2>8. VideoKept'
    BY <2>1, <2>2, <2>3, <2>4 DEF UploadInv, VideoKept, HasItsVideo, GoneWhenPurged
  <2>9. OneOfAnUpload'
    BY <2>1, <2>3, <2>5 DEF UploadInv, OneOfAnUpload
  <2> QED BY <2>6, <2>7, <2>8, <2>9 DEF Stored
<1>9. ASSUME NEW c \in Calls, Discard(c) PROVE Stored'
  <2>1. calls[c].upload \in Uploads
    BY <1>9, AtWork DEF Discard, At, Formed, Request
  <2>2. UNCHANGED <<subs, taken, old, purge, unheard>> /\ \A k \in Keys : file'[k] = file[k]
    BY <1>9, <2>1, ResumableUploadAssumption DEF Discard, Unlink
  <2> QED BY <2>2, StoreStays
<1>10. ASSUME SweepExpired PROVE Stored'
  <2>1. UNCHANGED <<subs, taken, old, purge, unheard>> /\ \A k \in Keys : file'[k] = file[k]
    BY <1>0, <1>10, ResumableUploadAssumption DEF SweepExpired, Unlink, TypeOK
  <2> QED BY <2>1, StoreStays
<1>11. ASSUME NEW k \in Keys, Retire(k) PROVE Stored'
  <2>1. subs[k] # None /\ old' = old \cup {k} /\ UNCHANGED <<subs, taken, file, purge, unheard>>
    BY <1>11 DEF Retire
  <2>2. StoreSound' /\ PurgeSound'
    BY <2>1 DEF UploadInv, StoreSound, PurgeSound
  <2>3. VideoKept' /\ OneOfAnUpload'
    BY <2>1 DEF UploadInv, VideoKept, HasItsVideo, GoneWhenPurged, OneOfAnUpload
  <2> QED BY <2>2, <2>3 DEF Stored
<1>12. ASSUME Plan \/ PurgeDies \/ \E k \in Keys : DeleteFails(k) PROVE Stored'
  <2>1. UNCHANGED <<subs, taken, file, old, unheard>>
    BY <1>12 DEF Plan, PurgeDies, DeleteFails
  <2>2. /\ purge'.plan \subseteq old
        /\ purge'.gone \subseteq purge.gone
    BY <1>0, <1>12 DEF UploadInv, PurgeSound, Plan, PurgeDies, DeleteFails, Due, TypeOK,
                       Purge
  <2>3. PurgeSound'
    BY <2>1, <2>2 DEF UploadInv, PurgeSound
  <2>4. StoreSound' /\ VideoKept' /\ OneOfAnUpload'
    BY <2>1 DEF UploadInv, StoreSound, VideoKept, HasItsVideo, GoneWhenPurged, OneOfAnUpload
  <2> QED BY <2>3, <2>4 DEF Stored
<1>13. ASSUME NEW k \in Keys, Delete(k) PROVE Stored'
  <2>1. /\ UNCHANGED <<subs, taken, old, unheard>> /\ k \in purge.plan
        /\ purge' = [purge EXCEPT !.plan = @ \ {k}, !.gone = @ \cup {k}]
        /\ file'[k] = None /\ \A j \in Keys : j # k => file'[j] = file[j]
    BY <1>13 DEF Delete, Unlink
  <2>2. k \in old /\ subs[k] # None /\ old \subseteq Keys
    BY <1>0, <2>1 DEF UploadInv, PurgeSound, TypeOK
  <2>3. purge'.plan = purge.plan \ {k} /\ purge'.gone = purge.gone \cup {k}
    BY <1>0, <2>1 DEF TypeOK, Purge
  <2>4. PurgeSound'
    BY <2>1, <2>2, <2>3 DEF UploadInv, PurgeSound
  <2>5. StoreSound' /\ VideoKept' /\ OneOfAnUpload'
    BY <2>1, <2>2 DEF UploadInv, StoreSound, VideoKept, HasItsVideo, GoneWhenPurged, OneOfAnUpload
  <2> QED BY <2>4, <2>5 DEF Stored
<1>14. ASSUME Mark PROVE Stored'
  <2>1. /\ UNCHANGED <<file, taken, old, unheard>>
        /\ purge' = [stage |-> "idle", plan |-> {}, gone |-> {}]
    BY <1>14 DEF Mark
  <2>2. ASSUME NEW k \in Keys
        PROVE  /\ (subs'[k] = None) <=> (subs[k] = None)
               /\ subs[k] # None => /\ subs'[k].by = subs[k].by
                                    /\ subs'[k].purged => subs[k].purged \/ file[k] = None
    <3>1. CASE Marked(k)
      <4>1. subs[k] \in Submission /\ file[k] = None
        BY <1>0, <3>1 DEF TypeOK, Marked, UploadInv, PurgeSound
      <4>2. subs'[k] = [subs[k] EXCEPT !.purged = TRUE]
        BY <1>14, <3>1 DEF Mark
      <4>3. subs'[k] \in Submission /\ subs'[k].by = subs[k].by
        BY <4>1, <4>2 DEF Submission
      <4> QED BY <4>1, <4>3, NoneIsNothing
    <3>2. CASE ~Marked(k)
      BY <1>14, <3>2 DEF Mark
    <3> QED BY <3>1, <3>2
  <2>3. StoreSound' /\ PurgeSound'
    BY <1>0, <2>1, <2>2 DEF UploadInv, StoreSound, PurgeSound, TypeOK
  <2>4. VideoKept'
    BY <2>1, <2>2 DEF UploadInv, VideoKept, HasItsVideo, GoneWhenPurged
  <2>5. OneOfAnUpload'
    BY <2>2 DEF UploadInv, OneOfAnUpload
  <2> QED BY <2>3, <2>4, <2>5 DEF Stored
<1> QED
  BY <1>1, <1>2, <1>3, <1>4, <1>5, <1>7, <1>8, <1>9, <1>10, <1>11, <1>12, <1>13, <1>14,
     <1>15
  DEF Next, Browser, Server, Purging, PageStep, Creates, SendsChunk, SendsFinish

-----------------------------------------------------------------------------
(* What a step leaves of the requests                                      *)

\* The same request, but for the file its handle is on.
Same(r, q) ==
    /\ (q = None) <=> (r = None)
    /\ r # None => /\ q.stage = r.stage /\ q.kind = r.kind /\ q.upload = r.upload
                   /\ q.offset = r.offset /\ q.done = r.done /\ q.key = r.key
                   /\ q.hash = r.hash /\ q.heard = r.heard

OneSteps(c) ==
    \/ SendsChunk(c) \/ SendsFinish(c) \/ Disconnect(c) \/ CutOff(c) \/ Server(c)

LEMMA SameMoved ==
    ASSUME UploadInv, NEW d \in Calls, NEW places, NEW p \in Places \cup {None}
    PROVE  Same(calls[d], Moved(calls[d], places, p))
<1>1. calls[d] \in Request \cup {None}
  BY DEF UploadInv, TypeOK
<1>2. /\ Moved(calls[d], places, p) \in Request \cup {None}
      /\ (Moved(calls[d], places, p) = None) = (calls[d] = None)
      /\ calls[d] # None =>
           LET m == Moved(calls[d], places, p)  r == calls[d] IN
           /\ m.stage = r.stage /\ m.kind = r.kind /\ m.upload = r.upload
           /\ m.offset = r.offset /\ m.done = r.done /\ m.key = r.key
           /\ m.hash = r.hash /\ m.heard = r.heard
           /\ m.to = IF r.to \in places THEN p ELSE r.to
  BY <1>1, MovedFields
<1> DEFINE m == Moved(calls[d], places, p)
<1> HIDE DEF m
<1> QED BY <1>2 DEF Same, m

LEMMA SameAmong ==
    ASSUME UploadInv, NEW c \in Calls, NEW cs, NEW places, NEW p \in Places \cup {None},
           \A d \in Calls \ {c} : cs[d] = calls[d], calls' = Repoint(cs, places, p)
    PROVE  \A d \in Calls \ {c} : Same(calls[d], calls'[d])
BY SameMoved DEF Repoint

\* A step of one request leaves the others the same ...
LEMMA OthersSame ==
    ASSUME UploadInv, NEW c \in Calls, OneSteps(c)
    PROVE  \A d \in Calls \ {c} : Same(calls[d], calls'[d])
<1>0. calls \in [Calls -> Request \cup {None}]
  BY DEF UploadInv, TypeOK
<1>1. CASE \E me : calls' = [calls EXCEPT ![c] = me]
  BY <1>0, <1>1 DEF Same
<1>2. ASSUME NEW places, NEW cs, cs = Ended(c) \/ cs = Recorded(c), Unlink(places, cs)
      PROVE  \A d \in Calls \ {c} : Same(calls[d], calls'[d])
  <2>1. \A d \in Calls \ {c} : cs[d] = calls[d]
    BY <1>0, <1>2 DEF Ended, Recorded, To
  <2>2. calls' = Repoint(cs, places, None)
    BY <1>2 DEF Unlink
  <2> QED BY <2>1, <2>2, SameAmong
<1>3. CASE Move(c)
  <2>1. CASE calls' = Ended(c)
    BY <1>1, <2>1 DEF Ended
  <2>2. CASE calls' = Repoint(To(c, "look"), {calls[c].upload}, calls[c].key)
    <3> DEFINE cs == To(c, "look")  places == {calls[c].upload}  k == calls[c].key
    <3>1. \A d \in Calls \ {c} : cs[d] = calls[d]
      BY <1>0 DEF To
    <3>2. calls[c] \in Request
      BY <1>3, AtWork DEF Move, At
    <3>3. k \in Places \cup {None} /\ calls' = Repoint(cs, places, k)
      BY <2>2, <3>2 DEF Request, Places
    <3> HIDE DEF cs, places, k
    <3> QED BY <3>1, <3>3, SameAmong
  <2> QED BY <1>3, <2>1, <2>2, Zenon DEF Move
<1>4. CASE Look(c)
  BY <1>1, <1>2, <1>4 DEF Look, To
<1>5. CASE Commit(c)
  BY <1>1, <1>2, <1>5 DEF Commit, Recorded, Ended, To
<1>6. CASE CommitFails(c) \/ CommitUnheard(c) \/ Discard(c)
  BY <1>2, <1>6 DEF CommitFails, CommitUnheard, Discard
<1>7. CASE \/ SendsChunk(c) \/ SendsFinish(c) \/ Disconnect(c) \/ CutOff(c) \/ Check(c) \/ Open(c)
           \/ Write(c) \/ Wrote(c) \/ SubmitVideo(c) \/ Streamed(c) \/ Hash(c)
  <2>1. ASSUME NEW d \in Calls \ {c} PROVE calls'[d] = calls[d]
    <3>1. CASE SendsChunk(c)
      BY <1>0, <3>1 DEF SendsChunk, SendChunk
    <3>2. CASE SendsFinish(c)
      BY <1>0, <3>2 DEF SendsFinish, SendFinish
    <3>3. CASE Disconnect(c)
      BY <1>0, <3>3 DEF Disconnect, Ended
    <3>4. CASE CutOff(c)
      BY <1>0, <3>4 DEF CutOff
    <3>5. CASE Check(c)
      BY <1>0, <3>5 DEF Check, Ended, To
    <3>6. CASE Open(c)
      BY <1>0, <3>6 DEF Open, Ended
    <3>7. CASE Write(c)
      BY <1>0, <3>7 DEF Write
    <3>8. CASE Wrote(c)
      BY <1>0, <3>8 DEF Wrote, Ended
    <3>9. CASE SubmitVideo(c)
      BY <1>0, <3>9 DEF SubmitVideo
    <3>10. CASE Streamed(c)
      BY <1>0, <3>10 DEF Streamed, Ended
    <3>11. CASE Hash(c)
      BY <1>0, <3>11 DEF Hash, Ended
    <3> QED BY <1>7, <3>1, <3>2, <3>3, <3>4, <3>5, <3>6, <3>7, <3>8, <3>9, <3>10, <3>11
  <2> QED BY <2>1 DEF Same
<1> QED BY <1>3, <1>4, <1>5, <1>6, <1>7 DEF OneSteps, Server

-----------------------------------------------------------------------------
(* No orphans                                                              *)

HoldsIt(c, k) == calls[c] # None /\ calls[c].key = k

\* What a step of one request does to the store.
LEMMA OneOwns ==
    ASSUME UploadInv, NEW c \in Calls, OneSteps(c)
    PROVE  \A k \in Keys :
              /\ subs[k] # None => subs'[k] # None
              /\ file'[k] # None => file[k] # None \/ HoldsIt(c, k)'
              /\ HoldsIt(c, k) => HoldsIt(c, k)' \/ file'[k] = None \/ subs'[k] # None
<1> USE DEF Sessions, World, Course, History
<1>0. TypeOK
  BY DEF UploadInv
<1> SUFFICES ASSUME NEW k \in Keys
             PROVE  /\ subs[k] # None => subs'[k] # None
                    /\ file'[k] # None => file[k] # None \/ HoldsIt(c, k)'
                    /\ HoldsIt(c, k) => HoldsIt(c, k)' \/ file'[k] = None \/ subs'[k] # None
  OBVIOUS
<1>1. k # None /\ k \notin Uploads
  BY ResumableUploadAssumption
<1>2. ASSUME calls[c] # None
      PROVE  calls[c] \in Request /\ Formed(calls[c], file, subs, taken)
  BY <1>2, AtWork
<1>3. CASE SendsChunk(c) \/ SendsFinish(c) \/ SubmitVideo(c)
  BY <1>3, OneIsFree DEF SendsChunk, SendChunk, SendsFinish, SendFinish, SubmitVideo, HoldsIt
<1>4. CASE Disconnect(c)
  <2>1. HoldsIt(c, k) => file[k] = None
    BY <1>1, <1>2, <1>4 DEF Disconnect, HoldsIt, At, Formed, Request
  <2> QED BY <1>4, <2>1 DEF Disconnect
<1>5. CASE CutOff(c)
  <2>1. calls'[c] = [calls[c] EXCEPT !.heard = None] /\ calls[c] # None
    BY <1>0, <1>5 DEF CutOff, TypeOK
  <2>2. calls'[c] \in Request /\ calls'[c].key = calls[c].key
    BY <1>2, <2>1 DEF Request
  <2> QED BY <1>5, <2>2, NoneIsNothing DEF CutOff, HoldsIt
<1>6. CASE Check(c) \/ Open(c) \/ Write(c) \/ Wrote(c)
  <2>1. calls[c] # None /\ calls[c].stage \in {"body", "open", "write"}
    BY <1>6 DEF Check, Open, Write, Wrote, At
  <2>2. calls[c].kind = "append" /\ calls[c].key = None /\ calls[c].upload \in Uploads
        /\ ~HoldsIt(c, k)
    BY <1>1, <1>2, <2>1 DEF Formed, Request, HoldsIt
  <2>3. file'[k] # None => file[k] # None
    <3>1. CASE Check(c) \/ Wrote(c)
      BY <3>1 DEF Check, Wrote
    <3>2. CASE Open(c)
      BY <1>0, <1>1, <2>2, <3>2 DEF Open, TypeOK
    <3>3. CASE Write(c)
      <4>1. calls[c].to = k => file[k] # None
        BY <1>1, <1>2, <2>1 DEF Formed
      <4> QED BY <3>3, <4>1 DEF Write
    <3> QED BY <1>6, <3>1, <3>2, <3>3
  <2> QED BY <1>6, <2>2, <2>3 DEF Check, Open, Write, Wrote
<1>7. CASE Streamed(c)
  <2>1. calls[c] # None /\ calls[c].stage = "stream" /\ file[calls[c].key] = None
        /\ calls[c] \in Request
    BY <1>2, <1>7 DEF Streamed, At, Formed
  <2>2. CASE Size > Limit
    BY <1>7, <2>1, <2>2 DEF Streamed, HoldsIt
  <2>3. CASE ~(Size > Limit)
    <3>1. /\ \A j \in Keys : j # calls[c].key => file'[j] = file[j]
          /\ calls' = [calls EXCEPT ![c].stage = "look", ![c].hash = Video] /\ UNCHANGED subs
      BY <1>0, <1>7, <2>3 DEF Streamed, TypeOK
    <3>2. calls'[c] = [calls[c] EXCEPT !.stage = "look", !.hash = Video]
      BY <1>0, <3>1 DEF TypeOK
    <3>3. calls'[c] \in Request /\ calls'[c].key = calls[c].key
      BY <2>1, <3>2, VideoIsBytes DEF Request
    <3> QED BY <3>1, <3>3, NoneIsNothing DEF HoldsIt
  <2> QED BY <2>2, <2>3
<1>8. CASE Hash(c)
  <2>1. calls[c] # None /\ file[calls[c].key] = None
    BY <1>2, <1>8 DEF Hash, At, Formed
  <2> QED BY <1>8, <2>1 DEF Hash, HoldsIt
<1>9. CASE Move(c)
  <2>1. calls[c] # None /\ calls[c] \in Request /\ file[calls[c].key] = None
        /\ calls[c].upload \in Uploads /\ calls[c].to = None
    BY <1>2, <1>9 DEF Move, At, Formed, Request
  <2>2. CASE file[calls[c].upload] = None
    BY <1>9, <2>1, <2>2 DEF Move, HoldsIt
  <2>3. CASE file[calls[c].upload] # None
    <3>1. /\ \A j \in Keys : j # calls[c].key => file'[j] = file[j] \/ file'[j] = None
          /\ calls' = Repoint(To(c, "look"), {calls[c].upload}, calls[c].key) /\ UNCHANGED subs
      BY <1>0, <1>9, <2>3 DEF Move, TypeOK
    <3> DEFINE me == [calls[c] EXCEPT !.stage = "look"]
    <3>2. me \in Request /\ me.key = calls[c].key /\ me.to = None
      BY <2>1 DEF Request
    <3>3. calls'[c] = Moved(me, {calls[c].upload}, calls[c].key)
      BY <1>0, <3>1 DEF Repoint, To, TypeOK
    <3>4. Moved(me, {calls[c].upload}, calls[c].key) = me
      BY <2>1, <3>2, ResumableUploadAssumption DEF Moved
    <3> HIDE DEF me
    <3>5. calls'[c] # None /\ calls'[c].key = calls[c].key
      BY <3>2, <3>3, <3>4, NoneIsNothing
    <3> QED BY <3>1, <3>5 DEF HoldsIt
  <2> QED BY <2>2, <2>3
<1>10. ASSUME NEW cs, At(c, "look") \/ At(c, "commit"), Unlink(Own(c), cs), UNCHANGED subs
       PROVE  /\ subs[k] # None => subs'[k] # None
              /\ file'[k] # None => file[k] # None \/ HoldsIt(c, k)'
              /\ HoldsIt(c, k) => HoldsIt(c, k)' \/ file'[k] = None \/ subs'[k] # None
  <2>1. file'[k] = IF k = calls[c].key THEN None ELSE file[k]
    BY <1>10 DEF Unlink, Own
  <2> QED BY <1>10, <2>1 DEF HoldsIt
<1>11. CASE Look(c)
  <2>1. CASE Unlink(Own(c), Ended(c)) \/ Unlink(Own(c), Recorded(c))
    BY <1>10, <1>11, <2>1 DEF Look
  <2>2. CASE calls' = To(c, "commit") /\ UNCHANGED file
    <3>1. calls[c] # None /\ calls[c] \in Request
      BY <1>2, <1>11 DEF Look, At
    <3>2. calls'[c] = [calls[c] EXCEPT !.stage = "commit"]
      BY <1>0, <2>2 DEF To, TypeOK
    <3>3. calls'[c] \in Request /\ calls'[c].key = calls[c].key
      BY <3>1, <3>2 DEF Request
    <3> QED BY <1>11, <2>2, <3>3, NoneIsNothing DEF HoldsIt, Look
  <2> QED BY <1>11, <2>1, <2>2 DEF Look
<1>12. CASE Commit(c) \/ CommitUnheard(c)
  <2>1. CASE Commit(c) /\ Collides(calls[c])
    BY <1>10, <2>1 DEF Commit
  <2>2. CASE ~Collides(calls[c])
    <3> DEFINE new == [by |-> KeyOf(calls[c]), says |-> calls[c].hash, purged |-> FALSE]
    <3>1. calls[c] # None /\ calls[c] \in Request /\ Formed(calls[c], file, subs, taken)
          /\ calls[c].kind \in {"finish", "whole"}
      BY <1>12, HoldsKey DEF Commit, CommitUnheard
    <3>2. new # None
      <4>1. KeyOf(calls[c]) \in Uploads \cup {Whole} /\ calls[c].hash \in Bytes
        BY <3>1 DEF Formed, Request, KeyOf
      <4>2. new \in Submission
        BY <4>1 DEF Submission
      <4> QED BY <4>2, NoneIsNothing
    <3>3. subs' = [subs EXCEPT ![calls[c].key] = new] /\ file'[k] \in {file[k], None}
      BY <1>12, <2>2 DEF Commit, CommitUnheard, Unlink
    <3>4. subs'[k] = IF k = calls[c].key THEN new ELSE subs[k]
      BY <1>0, <3>3 DEF TypeOK
    <3> HIDE DEF new
    <3> QED BY <3>2, <3>3, <3>4 DEF HoldsIt
  <2> QED BY <1>12, <2>1, <2>2 DEF CommitUnheard
<1>13. CASE CommitFails(c)
  BY <1>10, <1>13 DEF CommitFails
<1>14. CASE Discard(c)
  <2>1. calls[c] # None /\ calls[c].upload \in Uploads
        /\ (file[calls[c].key] # None => subs[calls[c].key] # None)
    BY <1>2, <1>14 DEF Discard, At, Formed, Request
  <2>2. file'[k] = file[k] /\ UNCHANGED subs
    BY <1>1, <1>14, <2>1 DEF Discard, Unlink
  <2> QED BY <2>1, <2>2 DEF HoldsIt
<1> QED
  BY <1>3, <1>4, <1>5, <1>6, <1>7, <1>8, <1>9, <1>11, <1>12, <1>13, <1>14 DEF OneSteps, Server

LEMMA OrphansKept == UploadInv /\ [Next]_vars => NoOrphans'
<1> SUFFICES ASSUME UploadInv, [Next]_vars, NEW k \in Keys, file'[k] # None
             PROVE  Owned(k)' \/ k \in dropped'
  BY DEF NoOrphans
<1> USE DEF Sessions, World, Course, History
<1>0. TypeOK /\ (file[k] # None => Owned(k) \/ k \in dropped)
  BY DEF UploadInv, NoOrphans
<1>1. k # None /\ k \notin Uploads
  BY ResumableUploadAssumption
<1>2. ASSUME NEW c \in Calls, OneSteps(c) PROVE Owned(k)' \/ k \in dropped'
  <2>1. dropped' = dropped
    BY <1>2 DEF OneSteps, Server, SendsChunk, SendChunk, SendsFinish, SendFinish, Disconnect,
                CutOff, Check, Open, Write, Wrote, SubmitVideo, Streamed, Hash, Move, Look,
                Commit, CommitFails, CommitUnheard, Discard
  <2>2. /\ subs[k] # None => subs'[k] # None
        /\ file'[k] # None => file[k] # None \/ HoldsIt(c, k)'
        /\ HoldsIt(c, k) => HoldsIt(c, k)' \/ file'[k] = None \/ subs'[k] # None
    BY <1>2, OneOwns
  <2>3. HoldsIt(c, k)' => Owned(k)'
    BY DEF HoldsIt, Owned
  <2>4. ASSUME NEW d \in Calls, HoldsIt(d, k) PROVE Owned(k)'
    <3>1. CASE d = c
      BY <2>2, <2>3, <2>4, <3>1 DEF Owned
    <3>2. CASE d # c
      <4>1. calls'[d] # None /\ calls'[d].key = k
        BY <1>2, <2>4, <3>2, OthersSame DEF Same, HoldsIt
      <4> QED BY <4>1 DEF Owned
    <3> QED BY <3>1, <3>2
  <2>5. subs[k] # None => Owned(k)'
    BY <2>2 DEF Owned
  <2> QED BY <1>0, <2>1, <2>2, <2>3, <2>4, <2>5 DEF Owned, HoldsIt
<1>3. ASSUME dropped' = dropped, \A d \in Calls : Same(calls[d], calls'[d]),
             subs[k] # None => subs'[k] # None, file'[k] # None => file[k] # None
      PROVE  Owned(k)' \/ k \in dropped'
  BY <1>0, <1>3 DEF Owned, Same
<1>4. ASSUME NEW places, Unlink(places, calls), dropped' = dropped, UNCHANGED subs
      PROVE  Owned(k)' \/ k \in dropped'
  <2>1. \A d \in Calls : Same(calls[d], calls'[d])
    <3>1. None \in Places \cup {None}
      OBVIOUS
    <3>2. \A d \in Calls : calls'[d] = Moved(calls[d], places, None)
      BY <1>4 DEF Unlink, Repoint
    <3> QED BY <3>1, <3>2, SameMoved
  <2>2. file'[k] # None => file[k] # None
    BY <1>4 DEF Unlink
  <2> QED BY <1>3, <1>4, <2>1, <2>2
<1>5. CASE \/ PageStep \/ Close \/ Plan \/ PurgeDies
           \/ \E u \in Uploads : Expire(u)
           \/ \E j \in Keys : Retire(j) \/ DeleteFails(j)
           \/ UNCHANGED vars
  <2>1. UNCHANGED <<calls, subs, file, dropped>>
    BY <1>5, Zenon DEF PageStep, Turned, Resume, Ask, Leave, Close, Plan, PurgeDies, Expire,
                       Retire, DeleteFails, vars
  <2> QED BY <1>3, <2>1 DEF Same
<1>6. ASSUME NEW u \in Uploads, Creates(u) PROVE Owned(k)' \/ k \in dropped'
  <2>1. UNCHANGED <<calls, subs, dropped>> /\ file'[k] = file[k]
    BY <1>0, <1>1, <1>6 DEF Creates, Create, TypeOK
  <2> QED BY <1>3, <2>1 DEF Same
<1>7. CASE SweepExpired
  BY <1>4, <1>7 DEF SweepExpired
<1>8. ASSUME NEW j \in Keys, Delete(j) PROVE Owned(k)' \/ k \in dropped'
  BY <1>4, <1>8 DEF Delete
<1>9. CASE Mark
  <2>1. UNCHANGED <<calls, file, dropped>>
    BY <1>9 DEF Mark
  <2>2. subs[k] # None => subs'[k] # None
    <3>1. CASE Marked(k)
      <4>1. subs[k] \in Submission
        BY <1>0, <3>1 DEF TypeOK, Marked, UploadInv, PurgeSound
      <4>2. [subs[k] EXCEPT !.purged = TRUE] \in Submission
        BY <4>1 DEF Submission
      <4> QED BY <1>9, <3>1, <4>2, NoneIsNothing DEF Mark
    <3>2. CASE ~Marked(k)
      BY <1>9, <3>2 DEF Mark
    <3> QED BY <3>1, <3>2
  <2> QED BY <1>3, <2>1, <2>2 DEF Same
<1>10. CASE Restart
  <2>1. /\ UNCHANGED <<file, subs>>
        /\ dropped' = dropped \cup {j \in Keys : \E c \in Calls : calls[c] # None /\ calls[c].key = j}
    BY <1>10 DEF Restart
  <2> QED BY <1>0, <2>1 DEF Owned
<1> QED
  BY <1>2, <1>5, <1>6, <1>7, <1>8, <1>9, <1>10
  DEF Next, Browser, Purging, OneSteps, PageStep, Creates, SendsChunk, SendsFinish

-----------------------------------------------------------------------------
(* The video is the file                                                   *)

\* The steps that are nobody's request.
Elsewhere ==
    \/ PageStep \/ SweepExpired \/ Close \/ PurgeDies \/ Purging
    \/ \E u \in Uploads : Creates(u) \/ Expire(u)
    \/ \E k \in Keys : Retire(k) \/ DeleteFails(k)
    \/ UNCHANGED vars

LEMMA Steps ==
    ASSUME [Next]_vars
    PROVE  Elsewhere \/ Restart \/ \E c \in Calls : OneSteps(c)
BY DEF Next, Browser, Elsewhere, OneSteps, PageStep, Creates, SendsChunk, SendsFinish

\* Of what no request does, four kinds of steps concern a page, a file or a request.
LEMMA ElsewhereIs ==
    ASSUME Elsewhere
    PROVE  \/ \E t \in Tabs : Turned(t) \/ Resume(t) \/ Ask(t) \/ Leave(t)
           \/ \E t \in Tabs, u \in Uploads : Create(t, u)
           \/ SweepExpired
           \/ \E k \in Keys : Delete(k)
           \/ UNCHANGED <<page, remembered, begun, session, file, calls, taken, cut>>
<1> USE DEF Sessions, World, Course, History
<1>1. CASE PageStep
  BY <1>1, Zenon DEF PageStep
<1>2. CASE \E u \in Uploads : Creates(u)
  BY <1>2 DEF Creates
<1>3. CASE Purging
  <2>1. CASE Plan
    BY <2>1 DEF Plan
  <2>2. CASE Mark
    BY <2>2 DEF Mark
  <2> QED BY <1>3, <2>1, <2>2 DEF Purging
<1>4. CASE Close \/ PurgeDies \/ UNCHANGED vars
  BY <1>4 DEF Close, PurgeDies, vars
<1>5. ASSUME NEW u \in Uploads, Expire(u)
      PROVE  UNCHANGED <<page, remembered, begun, session, file, calls, taken, cut>>
  BY <1>5 DEF Expire
<1>6. ASSUME NEW k \in Keys, Retire(k) \/ DeleteFails(k)
      PROVE  UNCHANGED <<page, remembered, begun, session, file, calls, taken, cut>>
  BY <1>6 DEF Retire, DeleteFails
<1> QED BY <1>1, <1>2, <1>3, <1>4, <1>5, <1>6 DEF Elsewhere

\* What can happen to a file.
Writes(c, p) ==
    /\ Write(c) /\ calls[c].to = p
    /\ file'[p] = Append(file[p], calls[c].offset + calls[c].done + 1)
Makes(p) ==
    /\ file'[p] = <<>>
    /\ Creates(p) \/ \E c \in Calls : Open(c) /\ p = calls[c].upload /\ file[p] = None
Fills(c, p) ==
    /\ p = calls[c].key /\ p \in Keys
    /\ \/ Streamed(c) /\ file'[p] = Video
       \/ Move(c) /\ file[calls[c].upload] # None /\ file'[p] = file[calls[c].upload]
Empties(c, p) == Move(c) /\ p = calls[c].upload /\ p \in Uploads /\ file'[p] = None

FileGoesOn(p) ==
    \/ file'[p] = file[p]
    \/ file'[p] = None /\ p \notin session'
    \/ Makes(p)
    \/ \E c \in Calls : Writes(c, p) \/ Fills(c, p) \/ Empties(c, p)

LEMMA FileMoves ==
    ASSUME UploadInv, [Next]_vars, NEW p \in Places
    PROVE  FileGoesOn(p)
<1> USE DEF Sessions, World, Course, History, FileGoesOn
<1>0. TypeOK /\ session' \subseteq Uploads /\ p # None
  BY ScalarsKept, ResumableUploadAssumption DEF UploadInv, Scalars, TypeOK, Places
<1>1. ASSUME NEW places, NEW cs, Unlink(places, cs), p \in places => p \notin session'
      PROVE  FileGoesOn(p)
  BY <1>1 DEF Unlink, Places
<1>2. CASE Elsewhere
  <2>1. CASE SweepExpired
    BY <1>1, <2>1 DEF SweepExpired
  <2>2. ASSUME NEW k \in Keys, Delete(k) PROVE FileGoesOn(p)
    BY <1>0, <1>1, <2>2, ResumableUploadAssumption DEF Delete
  <2>3. ASSUME NEW u \in Uploads, Creates(u) PROVE FileGoesOn(p)
    BY <1>0, <2>3 DEF Creates, Create, Makes, TypeOK, Places
  <2>4. CASE UNCHANGED file
    BY <2>4
  <2> QED BY <1>2, <2>1, <2>2, <2>3, <2>4
          DEF Elsewhere, PageStep, Turned, Resume, Ask, Leave, Close, PurgeDies, Purging, Plan, Mark,
              Expire, Retire, DeleteFails, vars
<1>3. CASE Restart
  BY <1>3 DEF Restart
<1>4. ASSUME NEW c \in Calls, OneSteps(c) PROVE FileGoesOn(p)
  <2>1. CASE UNCHANGED file
    BY <2>1
  <2>2. CASE Open(c)
    BY <1>0, <2>2 DEF Open, Makes, TypeOK, Places
  <2>3. CASE Write(c)
    BY <2>3 DEF Write, Writes, Places
  <2>4. CASE Streamed(c)
    <3>1. calls[c].key \in Keys
      BY <1>0, <2>4, AtWork DEF Streamed, At, Formed, Request, TypeOK
    <3> QED BY <1>0, <2>4, <3>1 DEF Streamed, Fills, TypeOK, Places
  <2>5. CASE Move(c)
    <3>1. calls[c].key \in Keys /\ calls[c].upload \in Uploads
      BY <1>0, <2>5, AtWork DEF Move, At, Formed, Request, TypeOK
    <3>2. calls[c].key # calls[c].upload
      BY <3>1, ResumableUploadAssumption
    <3>3. CASE file[calls[c].upload] = None
      BY <2>5, <3>3 DEF Move
    <3>4. CASE file[calls[c].upload] # None
      <4>1. file'[p] = IF p = calls[c].upload THEN None
                       ELSE IF p = calls[c].key THEN file[calls[c].upload] ELSE file[p]
        BY <1>0, <2>5, <3>1, <3>2, <3>4 DEF Move, TypeOK, Places
      <4> QED BY <2>5, <3>1, <3>2, <3>4, <4>1 DEF Fills, Empties
    <3> QED BY <3>3, <3>4
  <2>6. CASE Look(c) \/ Commit(c) \/ CommitFails(c) \/ CommitUnheard(c)
    <3>1. calls[c].key \notin session'
      BY <1>0, <2>6, HoldsKey, ResumableUploadAssumption DEF Look, Commit, CommitFails, CommitUnheard
    <3>2. CASE \E cs : Unlink(Own(c), cs)
      BY <1>1, <3>1, <3>2 DEF Own
    <3> QED BY <2>1, <2>6, <3>2 DEF Look, Commit, CommitFails, CommitUnheard
  <2>7. CASE Discard(c)
    BY <1>1, <2>7 DEF Discard
  <2> QED BY <1>4, <2>1, <2>2, <2>3, <2>4, <2>5, <2>6, <2>7
          DEF OneSteps, Server, SendsChunk, SendChunk, SendsFinish, SendFinish, Disconnect, CutOff, Check, Wrote,
              SubmitVideo, Hash
<1> QED BY <1>2, <1>3, <1>4, Steps

\* What a step leaves of a request that does not take it.
HandleGoesOn(c) ==
    \/ calls'[c].to = calls[c].to
    \/ calls'[c].to = None /\ calls[c].to \notin session'
    \/ \E d \in Calls \ {c} :
          Move(d) /\ calls[c].to = calls[d].upload /\ calls'[c].to = calls[d].key

LEMMA MovedHandle ==
    ASSUME UploadInv, NEW c \in Calls, calls[c] # None, NEW places, NEW p \in Places \cup {None}
    PROVE  Moved(calls[c], places, p).to = IF calls[c].to \in places THEN p ELSE calls[c].to
BY MovedFields, AtWork

LEMMA Bystander ==
    ASSUME UploadInv, [Next]_vars, NEW c \in Calls, calls'[c] # None,
           Elsewhere \/ \E d \in Calls \ {c} : OneSteps(d)
    PROVE  /\ calls[c] # None /\ Same(calls[c], calls'[c])
           /\ HandleGoesOn(c)
<1> USE DEF Sessions, World, Course, History
<1>0. TypeOK /\ session' \subseteq Uploads
  BY ScalarsKept DEF UploadInv, Scalars, TypeOK
<1>1. CASE calls'[c] = calls[c]
  BY <1>1 DEF Same, HandleGoesOn
<1>2. ASSUME NEW places, NEW cs, Unlink(places, cs), cs[c] = calls[c],
             \A q \in places : q \notin session'
      PROVE  Same(calls[c], calls'[c]) /\ (calls[c] # None => HandleGoesOn(c))
  <2>1. calls'[c] = Moved(calls[c], places, None)
    BY <1>2 DEF Unlink, Repoint
  <2>2. Same(calls[c], calls'[c])
    BY <2>1, SameMoved
  <2>3. None \in Places \cup {None}
    OBVIOUS
  <2>4. ASSUME calls[c] # None
        PROVE  calls'[c].to = IF calls[c].to \in places THEN None ELSE calls[c].to
    BY <2>1, <2>3, <2>4, MovedHandle
  <2> QED BY <1>2, <2>2, <2>4 DEF HandleGoesOn
<1>3. CASE Elsewhere
  <2>1. CASE SweepExpired
    <3> DEFINE places == session \cap expired
    <3>1. Unlink(places, calls) /\ \A q \in places : q \notin session'
      BY <2>1 DEF SweepExpired
    <3> HIDE DEF places
    <3>2. Same(calls[c], calls'[c]) /\ (calls[c] # None => HandleGoesOn(c))
      BY <1>2, <3>1
    <3> QED BY <3>2 DEF Same
  <2>2. ASSUME NEW k \in Keys, Delete(k)
        PROVE  calls[c] # None /\ Same(calls[c], calls'[c]) /\ HandleGoesOn(c)
    BY <1>0, <1>2, <2>2, ResumableUploadAssumption DEF Delete, Same
  <2>3. CASE UNCHANGED calls
    BY <1>1, <2>3
  <2> QED BY <1>3, <2>1, <2>2, <2>3
          DEF Elsewhere, PageStep, Turned, Resume, Ask, Leave, Creates, Create, Close, PurgeDies, Purging, Plan,
              Mark, Expire, Retire, DeleteFails, vars
<1>4. ASSUME NEW d \in Calls \ {c}, OneSteps(d)
      PROVE  calls[c] # None /\ Same(calls[c], calls'[c]) /\ HandleGoesOn(c)
  <2>1. Same(calls[c], calls'[c]) /\ calls[c] # None
    BY <1>4, OthersSame DEF Same
  <2>2. CASE \E me : calls' = [calls EXCEPT ![d] = me]
    BY <1>0, <1>1, <2>2 DEF TypeOK
  <2>3. CASE Move(d)
    <3>1. CASE calls' = Ended(d)
      BY <1>0, <1>1, <3>1 DEF Ended, TypeOK
    <3>2. CASE calls' = Repoint(To(d, "look"), {calls[d].upload}, calls[d].key)
      <4> DEFINE places == {calls[d].upload}  k == calls[d].key
      <4>1. calls'[c] = Moved(calls[c], places, k)
        BY <1>0, <3>2 DEF Repoint, To, TypeOK
      <4>2. k \in Places \cup {None}
        BY <2>3, AtWork DEF Move, At, Request, Places
      <4> HIDE DEF places, k
      <4>3. Moved(calls[c], places, k).to = IF calls[c].to \in places THEN k ELSE calls[c].to
        BY <2>1, <4>2, MovedHandle
      <4> USE DEF places, k
      <4> QED BY <2>1, <2>3, <4>1, <4>3 DEF HandleGoesOn
    <3> QED BY <2>3, <3>1, <3>2, Zenon DEF Move
  <2>4. CASE Look(d) \/ Commit(d) \/ CommitFails(d) \/ CommitUnheard(d)
    <3>1. \A q \in Own(d) : q \notin session'
      BY <1>0, <2>4, HoldsKey, ResumableUploadAssumption DEF Look, Commit, CommitFails, CommitUnheard, Own
    <3>2. Ended(d)[c] = calls[c] /\ Recorded(d)[c] = calls[c]
      BY <1>0 DEF Ended, Recorded, To, TypeOK
    <3>3. CASE Unlink(Own(d), Ended(d)) \/ Unlink(Own(d), Recorded(d))
      BY <1>2, <2>1, <3>1, <3>2, <3>3
    <3>4. CASE \/ calls' = [calls EXCEPT ![d].stage = "commit"]
               \/ calls' = [calls EXCEPT ![d].stage = "discard"]
               \/ calls' = [calls EXCEPT ![d] = None]
      BY <1>0, <1>1, <3>4 DEF TypeOK
    <3> QED BY <2>4, <3>3, <3>4 DEF Look, Commit, CommitFails, CommitUnheard, Recorded, Ended, To
  <2>5. CASE Discard(d)
    <3> DEFINE places == {calls[d].upload}  cs == Ended(d)
    <3>1. Unlink(places, cs) /\ (\A q \in places : q \notin session') /\ cs[c] = calls[c]
      BY <1>0, <2>5 DEF Discard, Ended, TypeOK
    <3> HIDE DEF places, cs
    <3> QED BY <1>2, <2>1, <3>1
  <2>6. CASE \/ SendsChunk(d) \/ SendsFinish(d) \/ Disconnect(d) \/ CutOff(d) \/ Check(d) \/ Open(d)
             \/ Write(d) \/ Wrote(d) \/ SubmitVideo(d) \/ Streamed(d) \/ Hash(d)
    <3>1. calls'[c] = calls[c]
      BY <1>0, <1>4, <2>6 DEF SendsChunk, SendChunk, SendsFinish, SendFinish, Disconnect, CutOff, Check, Open, Write, Wrote,
            SubmitVideo, Streamed, Hash, Ended, To, TypeOK
    <3> QED BY <1>1, <3>1
  <2> QED BY <1>4, <2>3, <2>4, <2>5, <2>6 DEF OneSteps, Server
<1> QED BY <1>3, <1>4

\* No upload is forgotten to have been cut off, and a session is begun by Create.
LEMMA WorldMoves ==
    ASSUME UploadInv, [Next]_vars
    PROVE  /\ cut \subseteq cut' /\ begun \subseteq begun'
           /\ \A u \in session' : u \in session \/ Creates(u)
<1> USE DEF Sessions, World, Course, History
<1>1. CASE Elsewhere
  <2>1. ASSUME NEW t \in Tabs, NEW u \in Uploads, Create(t, u)
        PROVE  /\ session' = session \cup {u} /\ begun' = begun \cup {u} /\ cut' = cut
               /\ Creates(u)
    BY <2>1 DEF Creates, Create
  <2>2. CASE SweepExpired
    BY <2>2 DEF SweepExpired
  <2>3. ASSUME NEW t \in Tabs, Turned(t) \/ Resume(t) \/ Ask(t) \/ Leave(t)
        PROVE  UNCHANGED <<session, begun>> /\ cut \subseteq cut'
    BY <2>3 DEF Turned, Resume, Ask, Leave
  <2>4. ASSUME NEW k \in Keys, Delete(k) PROVE UNCHANGED <<session, begun, cut>>
    BY <2>4 DEF Delete
  <2> QED BY <1>1, <2>1, <2>2, <2>3, <2>4, ElsewhereIs
<1>2. CASE Restart
  BY <1>2 DEF Restart
<1>3. ASSUME NEW c \in Calls, OneSteps(c)
      PROVE  cut \subseteq cut' /\ session' \subseteq session /\ begun' = begun
  BY <1>3 DEF OneSteps, Server, SendsChunk, SendChunk, SendsFinish, SendFinish, Disconnect,
     CutOff, Check, Open, Write, Wrote, SubmitVideo, Streamed, Hash, Move, Look, Commit,
     CommitFails, CommitUnheard, Discard
<1> QED BY <1>1, <1>2, <1>3, Steps

\* What a request becomes when it takes a step and is not answered.
Begins(c) ==
    LET q == calls'[c] IN
    /\ calls[c] = None /\ q.to = None
    /\ \/ \E t \in Tabs :
             /\ SendChunk(t, c) /\ q.kind = "append" /\ q.stage = "body"
             /\ q.upload = page[t].upload /\ q.key = None /\ q.heard = t
       \/ \E t \in Tabs :
             /\ SendFinish(t, c) /\ q.kind = "finish" /\ q.stage = "hash"
             /\ q.upload = page[t].upload /\ q.key \notin taken /\ q.heard = t
       \/ /\ SubmitVideo(c) /\ q.kind = "whole" /\ q.stage = "stream"
          /\ q.upload = None /\ q.key \notin taken /\ q.heard = None

GoesOn(c) ==
    LET r == calls[c]  q == calls'[c] IN
    /\ r # None /\ q.kind = r.kind /\ q.upload = r.upload /\ q.offset = r.offset /\ q.key = r.key
    /\ \/ CutOff(c) /\ q.heard = None /\ q.to = r.to
       \/ /\ q.heard = r.heard /\ page' = page
          /\ \/ Check(c) /\ q.stage = "open" /\ q.to = r.to
             \/ Open(c) /\ q.stage = "write" /\ q.to = r.upload /\ q.done = r.done
             \/ Write(c) /\ q.stage = "write" /\ q.to = r.to /\ q.done = r.done + 1
             \/ Streamed(c) /\ q.stage = "look" /\ q.hash = Video /\ q.to = r.to
             \/ Hash(c) /\ q.stage = "move" /\ q.hash = file[r.upload] /\ file[r.upload] # None
                /\ q.to = r.to
             \/ Move(c) /\ q.stage = "look" /\ q.hash = r.hash /\ file[r.upload] # None
                /\ q.to = None
             \/ Look(c) /\ q.stage = "commit" /\ q.hash = r.hash /\ UNCHANGED file /\ q.to = None
             \/ (Look(c) \/ Commit(c)) /\ q.stage = "discard" /\ q.to = None

LEMMA OwnStep ==
    ASSUME UploadInv, [Next]_vars, NEW c \in Calls, OneSteps(c), calls'[c] # None
    PROVE  Begins(c) \/ GoesOn(c)
<1>0. TypeOK /\ UploadInv'
  BY CallsKept, StoreKept, OrphansKept DEF UploadInv, Stored
<1>1. CASE SendsChunk(c)
  <2>1. PICK t \in Tabs : SendChunk(t, c)
    BY <1>1 DEF SendsChunk
  <2>2. calls'[c] = New("append", t, page[t].upload, page[t].offset, None, "body")
    BY <1>0, <2>1 DEF SendChunk, TypeOK
  <2>3. calls[c] = None
    BY <2>1, OneIsFree DEF SendChunk
  <2> QED BY <2>1, <2>2, <2>3 DEF New, Begins
<1>2. CASE SendsFinish(c)
  <2>1. PICK t \in Tabs : SendFinish(t, c)
    BY <1>2 DEF SendsFinish
  <2>2. PICK k \in NewKeys : calls' = [calls EXCEPT ![c] = New("finish", t, page[t].upload, 0, k, "hash")]
    BY <2>1 DEF SendFinish
  <2>3. calls'[c] = New("finish", t, page[t].upload, 0, k, "hash") /\ k \notin taken
    BY <1>0, <2>2, OneIsFree DEF TypeOK
  <2>4. calls[c] = None
    BY <2>1, OneIsFree DEF SendFinish
  <2> QED BY <2>1, <2>3, <2>4 DEF New, Begins
<1>3. CASE SubmitVideo(c)
  <2>1. PICK k \in NewKeys : calls' = [calls EXCEPT ![c] = New("whole", None, None, 0, k, "stream")]
    BY <1>3 DEF SubmitVideo
  <2>2. calls'[c] = New("whole", None, None, 0, k, "stream") /\ k \notin taken
    BY <1>0, <2>1, OneIsFree DEF TypeOK
  <2>3. calls[c] = None
    BY <1>3, OneIsFree DEF SubmitVideo
  <2> QED BY <1>3, <2>2, <2>3 DEF New, Begins
<1>4. CASE CutOff(c)
  BY <1>0, <1>4, AtWork DEF CutOff, GoesOn, TypeOK, Request
<1>5. CASE Check(c)
  <2>1. calls' = To(c, "open") /\ UNCHANGED page
    BY <1>0, <1>5 DEF Check, Ended, TypeOK
  <2> QED BY <1>0, <1>5, <2>1, AtWork DEF Check, To, At, GoesOn, TypeOK, Request
<1>6. CASE Open(c)
  <2>1. calls' = [calls EXCEPT ![c].stage = "write", ![c].to = calls[c].upload] /\ UNCHANGED page
    BY <1>0, <1>6 DEF Open, Ended, TypeOK
  <2> QED BY <1>0, <1>6, <2>1, AtWork DEF Open, At, GoesOn, TypeOK, Request
<1>7. CASE Write(c)
  BY <1>0, <1>7, AtWork DEF Write, At, GoesOn, TypeOK, Request
<1>8. CASE Streamed(c)
  <2>1. calls' = [calls EXCEPT ![c].stage = "look", ![c].hash = Video]
    BY <1>0, <1>8 DEF Streamed, Ended, TypeOK
  <2> QED BY <1>0, <1>8, <2>1, AtWork DEF Streamed, At, GoesOn, TypeOK, Request
<1>9. CASE Hash(c)
  <2>1. /\ calls' = [calls EXCEPT ![c].stage = "move", ![c].hash = file[calls[c].upload]]
        /\ UNCHANGED page /\ file[calls[c].upload] # None
    BY <1>0, <1>9 DEF Hash, Ended, TypeOK
  <2> QED BY <1>0, <1>9, <2>1, AtWork DEF Hash, At, GoesOn, TypeOK, Request
<1>10. CASE Move(c)
  <2> DEFINE r == calls[c]  me == [calls[c] EXCEPT !.stage = "look"]
  <2>1. r # None /\ r \in Request /\ r.stage = "move" /\ r.to = None
    BY <1>10, AtWork DEF Move, At, Formed
  <2>2. file[r.upload] # None /\ page' = page
        /\ calls' = Repoint(To(c, "look"), {r.upload}, r.key)
    BY <1>0, <1>10 DEF Move, Ended, TypeOK
  <2>3. To(c, "look")[c] = me /\ me.to = None
    BY <1>0, <2>1 DEF To, TypeOK, Request
  <2>4. None \notin {r.upload}
    BY <1>10, <2>1, AtWork, ResumableUploadAssumption DEF Formed, Request
  <2>5. calls'[c] = me
    BY <2>2, <2>3, <2>4 DEF Repoint, Moved
  <2> QED BY <1>10, <2>1, <2>2, <2>5 DEF GoesOn, Request
<1>11. CASE Look(c) \/ Commit(c) \/ CommitFails(c) \/ CommitUnheard(c)
  <2> DEFINE r == calls[c]
  <2>1. r # None /\ r \in Request /\ r.to = None /\ r.kind \in {"finish", "whole"}
    BY <1>11, HoldsKey DEF Look, Commit, CommitFails, CommitUnheard
  <2>2. ASSUME NEW s \in {"commit", "discard"}, calls' = To(c, s)
        PROVE  /\ calls'[c].stage = s /\ calls'[c].kind = r.kind /\ calls'[c].upload = r.upload
               /\ calls'[c].offset = r.offset /\ calls'[c].key = r.key /\ calls'[c].to = None
               /\ calls'[c].heard = r.heard /\ calls'[c].hash = r.hash
    BY <1>0, <2>1, <2>2 DEF To, TypeOK, Request
  <2>3. ASSUME NEW cs, Unlink(Own(c), cs), cs = To(c, "discard")
        PROVE  /\ calls'[c].stage = "discard" /\ calls'[c].kind = r.kind
               /\ calls'[c].upload = r.upload /\ calls'[c].offset = r.offset
               /\ calls'[c].key = r.key /\ calls'[c].to = None /\ calls'[c].heard = r.heard
    <3> DEFINE me == [r EXCEPT !.stage = "discard"]
    <3>1. cs[c] = me /\ me.to = None
      BY <1>0, <2>1, <2>3 DEF To, TypeOK, Request
    <3>2. calls'[c] = Moved(me, Own(c), None)
      BY <2>3, <3>1 DEF Unlink, Repoint
    <3>3. None \notin Own(c)
      BY <1>11, HoldsKey, ResumableUploadAssumption DEF Own, Look, Commit, CommitFails, CommitUnheard
    <3>4. calls'[c] = me
      BY <3>1, <3>2, <3>3 DEF Moved
    <3> QED BY <2>1, <3>4 DEF Request
  <2>4. ~Unlink(Own(c), Ended(c)) /\ calls' # Ended(c)
    BY <1>0 DEF Unlink, Repoint, Ended, Moved, TypeOK
  <2>5. CASE Look(c)
    <3>1. /\ page' = page
          /\ \/ calls' = To(c, "commit") /\ UNCHANGED file
             \/ Unlink(Own(c), Recorded(c))
      BY <2>4, <2>5 DEF Look
    <3>2. CASE Unlink(Own(c), Recorded(c))
      <4>1. Recorded(c) = To(c, "discard")
        BY <2>4, <3>2 DEF Recorded
      <4> QED BY <2>1, <2>3, <2>5, <3>1, <3>2, <4>1 DEF GoesOn
    <3>3. CASE calls' = To(c, "commit") /\ UNCHANGED file
      BY <2>1, <2>2, <2>5, <3>1, <3>3 DEF GoesOn
    <3> QED BY <3>1, <3>2, <3>3
  <2>6. CASE Commit(c)
    <3>1. page' = page /\ calls' = Recorded(c)
      BY <2>4, <2>6 DEF Commit
    <3>2. calls' = To(c, "discard")
      BY <2>4, <3>1 DEF Recorded
    <3> QED BY <2>1, <2>2, <2>6, <3>1, <3>2 DEF GoesOn
  <2> QED BY <1>11, <2>4, <2>5, <2>6 DEF CommitFails, CommitUnheard
<1>12. CASE Disconnect(c) \/ Wrote(c) \/ Discard(c)
  BY <1>0, <1>12 DEF Disconnect, Wrote, Discard, Ended, Unlink, Repoint, Moved, TypeOK
<1> QED BY <1>1, <1>2, <1>3, <1>4, <1>5, <1>6, <1>7, <1>8, <1>9, <1>10, <1>11, <1>12
        DEF OneSteps, Server

\* Of an upload that was not cut off one request is at work; the tab that waits
\* for it is the only one at the upload.
LEMMA Alone ==
    ASSUME WholeInv, NEW c \in Calls, calls[c] # None, calls[c].kind # "whole",
           calls[c].upload \notin cut
    PROVE  /\ calls[c].heard \in Tabs /\ page[calls[c].heard].state = "wait"
           /\ page[calls[c].heard].upload = calls[c].upload
           /\ \A d \in Calls : calls[d] # None /\ calls[d].kind # "whole"
                                /\ calls[d].upload = calls[c].upload => d = c
           /\ \A t \in Tabs : Busy(t) /\ page[t].upload = calls[c].upload => t = calls[c].heard
<1>1. ASSUME NEW d \in Calls, calls[d] # None, calls[d].kind # "whole",
             calls[d].upload = calls[c].upload
      PROVE  /\ calls[d].heard \in Tabs /\ page[calls[d].heard].state = "wait"
             /\ page[calls[d].heard].upload = calls[c].upload
  BY <1>1, AtWork DEF WholeInv, Awaited, Request
<1>2. ASSUME NEW t \in Tabs, Busy(t), page[t].upload = calls[c].upload
      PROVE  t = calls[c].heard
  BY <1>1, <1>2 DEF WholeInv, OneAtIt, Busy
<1>3. ASSUME NEW d \in Calls, calls[d] # None, calls[d].kind # "whole",
             calls[d].upload = calls[c].upload
      PROVE  d = c
  <2>1. calls[d].heard = calls[c].heard /\ calls[d].heard # None
    BY <1>1, <1>2, <1>3, ResumableUploadAssumption DEF Busy
  <2> QED BY <1>3, <2>1 DEF WholeInv, Awaited
<1> QED BY <1>1, <1>2, <1>3

\* How the script of a tab comes to a page it was not at.
Turns(t) ==
    \/ page'[t] = page[t]
    \/ page'[t] = IdlePage
    \/ /\ page'[t].upload = page[t].upload /\ Busy(t)
       /\ page'[t].state # "finish"
    \/ /\ page'[t].upload = page[t].upload /\ Busy(t)
       /\ \E c \in Calls : Wrote(c) /\ calls[c].heard = t
                           /\ calls[c].offset + calls[c].done >= Size
    \/ \E u \in Uploads : Create(t, u) /\ page'[t].upload = u /\ page'[t].state = "send"
    \/ Resume(t) /\ page'[t].upload = remembered /\ page'[t].state = "resume"

\* Only what answers a request turns the page of the tab that waits for it.
LEMMA AnswerTurns ==
    ASSUME WholeInv, NEW c \in Calls, calls[c] # None, NEW t \in Tabs, NEW p, Answer(c, p)
    PROVE  \/ page'[t] = page[t]
           \/ t = calls[c].heard /\ page'[t] = p /\ page[t].state = "wait" /\ page[t] \in Page
BY AtWork DEF WholeInv, UploadInv, TypeOK, Answer, Awaited, Request

LEMMA TabMoves ==
    ASSUME WholeInv, [Next]_vars, NEW t \in Tabs
    PROVE  Turns(t)
<1> USE DEF Sessions, World, Course, History
<1>0. page \in [Tabs -> Page]
  BY DEF WholeInv, UploadInv, TypeOK
<1>1. /\ \A s \in {"wait", "ask"} :
            Turn(t, s).upload = page[t].upload /\ Turn(t, s).state = s
      /\ \A n : SendFrom(t, n).upload = page[t].upload /\ SendFrom(t, n).state = "send"
  BY <1>0 DEF Turn, SendFrom, Page
<1>2. ASSUME NEW c \in Calls, calls[c] # None, NEW p, Answer(c, p),
             t = calls[c].heard =>
               \/ p = IdlePage
               \/ p.upload = page[t].upload /\ p.state # "finish"
               \/ /\ p.upload = page[t].upload
                  /\ Wrote(c) /\ calls[c].offset + calls[c].done >= Size
      PROVE  Turns(t)
  BY <1>2, AnswerTurns DEF Turns, Busy
<1>3. ASSUME NEW c \in Calls, calls[c] # None, Stopped(c) PROVE Turns(t)
  BY <1>2, <1>3 DEF Stopped
<1>4. CASE Elsewhere
  <2>1. ASSUME NEW s \in Tabs, Turned(s) \/ Resume(s) \/ Ask(s) \/ Leave(s) PROVE Turns(t)
    <3>1. CASE s # t
      BY <1>0, <2>1, <3>1 DEF Turned, Resume, Ask, Leave, Shows, Turns
    <3>2. CASE s = t /\ (Turned(t) \/ Leave(t))
      BY <1>0, <3>2 DEF Turned, Leave, Shows, Turns
    <3>3. CASE s = t /\ Ask(t)
      BY <1>0, <1>1, <3>3 DEF Ask, Shows, Turns, Busy
    <3>4. CASE s = t /\ Resume(t)
      BY <1>0, <3>4 DEF Resume, Shows, Turns
    <3> QED BY <2>1, <3>1, <3>2, <3>3, <3>4
  <2>2. ASSUME NEW s \in Tabs, NEW u \in Uploads, Create(s, u) PROVE Turns(t)
    BY <1>0, <2>2 DEF Create, Shows, Turns
  <2>3. CASE UNCHANGED page
    BY <2>3 DEF Turns
  <2>4. SweepExpired => UNCHANGED page
    BY DEF SweepExpired
  <2>9. ASSUME NEW k \in Keys, Delete(k) PROVE UNCHANGED page
    BY <2>9 DEF Delete
  <2> QED BY <1>4, <2>1, <2>2, <2>3, <2>4, <2>9, ElsewhereIs
<1>5. CASE Restart
  <2>1. \A c \in Calls : calls[c] # None /\ calls[c].heard = t => Busy(t)
    BY ResumableUploadAssumption DEF WholeInv, Awaited, Busy
  <2>2. page'[t] = page[t] \/ page'[t] = IdlePage \/ (page'[t] = Turn(t, "ask") /\ Busy(t))
    BY <1>5, <2>1 DEF Restart, WaitsFor, AfterBreak
  <2> QED BY <1>1, <2>2 DEF Turns
<1>6. ASSUME NEW c \in Calls, OneSteps(c) PROVE Turns(t)
  <2>1. CASE Disconnect(c) \/ CutOff(c)
    <3>1. calls[c] # None /\ (Answer(c, Broken(c)) \/ Answer(c, IdlePage))
      BY <2>1 DEF Disconnect, CutOff, At
    <3>2. t = calls[c].heard => Broken(c) = IdlePage \/ Broken(c) = Turn(t, "ask")
      BY DEF Broken, AfterBreak
    <3> QED BY <1>1, <1>2, <3>1, <3>2
  <2>2. CASE SendsChunk(c) \/ SendsFinish(c)
    <3>1. PICK s \in Tabs : /\ Shows(s, Turn(s, "wait")) /\ Busy(s)
      BY <2>2 DEF SendsChunk, SendChunk, SendsFinish, SendFinish, Busy
    <3> QED BY <1>0, <1>1, <3>1 DEF Shows, Turns
  <2>3. CASE Check(c)
    <3>1. calls[c] # None /\ (\/ Stopped(c) \/ UNCHANGED page
                              \/ \E n : Answer(c, SendFrom(calls[c].heard, n)))
      BY <2>3 DEF Check, At
    <3> QED BY <1>1, <1>2, <1>3, <3>1 DEF Turns
  <2>4. CASE Open(c) \/ Hash(c) \/ Move(c) \/ Look(c) \/ Commit(c) \/ CommitFails(c) \/ CommitUnheard(c)
    <3>1. calls[c] # None /\ (Stopped(c) \/ UNCHANGED page)
      BY <2>4 DEF Open, Hash, Move, Look, Commit, CommitFails, CommitUnheard, At
    <3> QED BY <1>3, <3>1 DEF Turns
  <2>5. CASE Wrote(c)
    <3>1. calls[c] # None /\ Answer(c, Continue(calls[c].heard, calls[c].offset + calls[c].done))
      BY <2>5 DEF Wrote, At
    <3>2. \A n : \/ Continue(t, n) = SendFrom(t, n)
                 \/ Continue(t, n) = Turn(t, "finish") /\ n >= Size
      BY DEF Continue
    <3>3. Turn(t, "finish").upload = page[t].upload
      BY <1>0 DEF Turn, Page
    <3> QED BY <1>1, <1>2, <2>5, <3>1, <3>2, <3>3
  <2>6. CASE Discard(c)
    <3>1. calls[c] # None /\ Answer(c, IdlePage)
      BY <2>6 DEF Discard, At
    <3> QED BY <1>2, <3>1
  <2>7. CASE Write(c) \/ SubmitVideo(c) \/ Streamed(c)
    BY <2>7 DEF Write, SubmitVideo, Streamed, Turns
  <2> QED BY <1>6, <2>1, <2>2, <2>3, <2>4, <2>5, <2>6, <2>7 DEF OneSteps, Server
<1> QED BY <1>4, <1>5, <1>6, Steps

\* While a tab waits for a request, nothing but its answer turns its page.
LEMMA PageWaits ==
    ASSUME WholeInv, [Next]_vars, NEW c \in Calls, calls[c] # None, NEW t \in Tabs,
           t = calls[c].heard, Elsewhere \/ \E d \in Calls \ {c} : OneSteps(d)
    PROVE  page'[t] = page[t]
<1> USE DEF Sessions, World, Course, History
<1>1. page[t].state = "wait" /\ \A d \in Calls \ {c} : calls[d] = None \/ calls[d].heard # t
  BY ResumableUploadAssumption DEF WholeInv, Awaited
<1>0. page \in [Tabs -> Page]
  BY DEF WholeInv, UploadInv, TypeOK
<1>2. CASE Elsewhere
  <2>1. ASSUME NEW s \in Tabs, Turned(s) \/ Resume(s) \/ Ask(s) \/ Leave(s)
        PROVE  page'[t] = page[t]
    <3>1. s # t
      BY <1>1, <2>1, OneIsFree DEF Turned, Resume, Ask, Leave
    <3> QED BY <1>0, <2>1, <3>1 DEF Turned, Resume, Ask, Leave, Shows
  <2>2. ASSUME NEW s \in Tabs, NEW u \in Uploads, Create(s, u) PROVE page'[t] = page[t]
    BY <1>0, <1>1, <2>2, OneIsFree DEF Create, Shows
  <2>3. SweepExpired => UNCHANGED page
    BY DEF SweepExpired
  <2>8. ASSUME NEW k \in Keys, Delete(k) PROVE UNCHANGED page
    BY <2>8 DEF Delete
  <2> QED BY <1>2, <2>1, <2>2, <2>3, <2>8, ElsewhereIs
<1>3. ASSUME NEW d \in Calls \ {c}, OneSteps(d) PROVE page'[t] = page[t]
  <2>1. ASSUME NEW p, Answer(d, p), calls[d] # None PROVE page'[t] = page[t]
    BY <1>0, <1>1, <2>1 DEF Answer
  <2>2. CASE SendsChunk(d) \/ SendsFinish(d)
    BY <1>0, <1>1, <2>2 DEF SendsChunk, SendChunk, SendsFinish, SendFinish, Shows
  <2>3. CASE Disconnect(d) \/ CutOff(d) \/ Check(d) \/ Open(d) \/ Wrote(d) \/ Discard(d)
    BY <2>1, <2>3 DEF Disconnect, CutOff, Check, Open, Wrote, Discard, At, Stopped
  <2>4. CASE Hash(d) \/ Move(d) \/ Look(d) \/ Commit(d) \/ CommitFails(d) \/ CommitUnheard(d)
    BY <2>1, <2>4 DEF Hash, Move, Look, Commit, CommitFails, CommitUnheard, Stopped, At
  <2>5. CASE Write(d) \/ SubmitVideo(d) \/ Streamed(d)
    BY <2>5 DEF Write, SubmitVideo, Streamed
  <2> QED BY <1>3, <2>2, <2>3, <2>4, <2>5 DEF OneSteps, Server
<1> QED BY <1>2, <1>3

\* A request that goes on was there, or has just been sent.
LEMMA WasThere ==
    ASSUME WholeInv, [Next]_vars, NEW c \in Calls, calls'[c] # None
    PROVE  \/ /\ calls[c] # None /\ Same(calls[c], calls'[c]) /\ HandleGoesOn(c)
              /\ \A t \in Tabs : t = calls[c].heard => page'[t] = page[t]
           \/ OneSteps(c) /\ (Begins(c) \/ GoesOn(c))
<1>1. UploadInv
  BY DEF WholeInv
<1>2. CASE Elsewhere \/ \E d \in Calls \ {c} : OneSteps(d)
  <2>1. calls[c] # None /\ Same(calls[c], calls'[c]) /\ HandleGoesOn(c)
    BY <1>1, <1>2, Bystander
  <2> QED BY <1>2, <2>1, PageWaits
<1>3. CASE OneSteps(c)
  BY <1>1, <1>3, OwnStep
<1>4. CASE Restart
  BY <1>4 DEF Restart
<1> QED BY <1>2, <1>3, <1>4, Steps

LEMMA AwaitedKept == WholeInv /\ [Next]_vars => Awaited'
<1> SUFFICES ASSUME WholeInv, [Next]_vars PROVE Awaited'
  OBVIOUS
<1> USE DEF Sessions, World, Course, History
<1>0. UploadInv /\ Awaited /\ cut \subseteq cut'
  BY WorldMoves DEF WholeInv
<1>10. page \in [Tabs -> Page] /\ \A c \in Calls : calls[c] # None => calls[c].heard \in Tabs \cup {None}
  BY <1>0, AtWork DEF UploadInv, TypeOK, Request
\* Who is heard has been heard before, and its tab has not moved; or it is new.
<1>1. ASSUME NEW c \in Calls, calls'[c] # None, calls'[c].heard # None
      PROVE  /\ calls'[c].heard \in Tabs
             /\ \/ /\ calls[c] # None /\ calls[c].heard = calls'[c].heard
                   /\ page'[calls[c].heard] = page[calls[c].heard]
                   /\ calls'[c].upload = calls[c].upload
                \/ \E t \in Tabs :
                     /\ calls[c] = None /\ page[t].state \in {"send", "finish"}
                     /\ Shows(t, Turn(t, "wait")) /\ calls'[c].upload = page[t].upload
                     /\ SendsChunk(c) \/ SendsFinish(c)
                     /\ calls'[c].heard = t
  <2>1. CASE calls[c] # None /\ Same(calls[c], calls'[c])
             /\ \A t \in Tabs : t = calls[c].heard => page'[t] = page[t]
    <3>1. calls'[c].heard = calls[c].heard /\ calls'[c].upload = calls[c].upload
      BY <2>1 DEF Same
    <3> QED BY <1>1, <1>10, <2>1, <3>1
  <2>2. CASE Begins(c)
    BY <1>1, <2>2 DEF Begins, SendsChunk, SendChunk, SendsFinish, SendFinish
  <2>3. CASE GoesOn(c)
    BY <1>1, <1>10, <2>3 DEF GoesOn
  <2> QED BY <1>1, <2>1, <2>2, <2>3, WasThere
<1>2. ASSUME NEW c \in Calls, calls'[c] # None, calls'[c].heard # None
      PROVE  page'[calls'[c].heard].state = "wait" /\ page'[calls'[c].heard].upload = calls'[c].upload
  <2>1. CASE calls[c] # None /\ calls[c].heard = calls'[c].heard
             /\ page'[calls[c].heard] = page[calls[c].heard] /\ calls'[c].upload = calls[c].upload
    BY <1>0, <1>2, <2>1 DEF Awaited
  <2>2. ASSUME NEW t \in Tabs, Shows(t, Turn(t, "wait")), calls'[c].upload = page[t].upload,
               calls'[c].heard = t
        PROVE  page'[calls'[c].heard].state = "wait" /\ page'[calls'[c].heard].upload = calls'[c].upload
    <3>1. page'[t] = Turn(t, "wait") /\ page[t] \in Page
      BY <1>10, <2>2 DEF Shows
    <3> QED BY <2>2, <3>1 DEF Turn, Page
  <2> QED BY <1>1, <1>2, <2>1, <2>2
<1>3. ASSUME NEW c \in Calls, calls'[c] # None, calls'[c].heard # None,
             NEW d \in Calls, calls'[d] # None, calls'[d].heard = calls'[c].heard
      PROVE  c = d
  <2>1. CASE calls[c] # None /\ calls[c].heard = calls'[c].heard
             /\ calls[d] # None /\ calls[d].heard = calls'[d].heard
    BY <1>0, <1>3, <2>1 DEF Awaited
  <2>2. ASSUME NEW x \in Calls, calls[x] # None, calls[x].heard = calls'[c].heard,
               page'[calls[x].heard] = page[calls[x].heard],
               NEW t \in Tabs, t = calls'[c].heard, page[t].state \in {"send", "finish"}
        PROVE  FALSE
    <3>1. page[t].state = "wait"
      BY <1>0, <1>3, <2>2, ResumableUploadAssumption DEF Awaited
    <3> QED BY <2>2, <3>1
  <2>3. CASE calls[c] = None /\ calls[d] = None
    <3>1. OneSteps(c)
      BY <1>1, <1>3, <2>3 DEF OneSteps
    <3>2. c # d => Same(calls[d], calls'[d])
      BY <1>0, <3>1, OthersSame
    <3> QED BY <1>3, <2>3, <3>2 DEF Same
  <2> QED BY <1>1, <1>3, <2>1, <2>2, <2>3
<1>4. ASSUME NEW c \in Calls, calls'[c] # None, calls'[c].kind # "whole"
      PROVE  calls'[c].heard # None \/ calls'[c].upload \in cut'
  <2>1. CASE calls[c] # None /\ Same(calls[c], calls'[c])
    BY <1>0, <1>4, <2>1 DEF Awaited, Same
  <2>2. CASE Begins(c)
    BY <1>4, <2>2, ResumableUploadAssumption DEF Begins
  <2>3. CASE GoesOn(c)
    BY <1>0, <1>4, <2>3 DEF Awaited, GoesOn, CutOff
  <2> QED BY <1>4, <2>1, <2>2, <2>3, WasThere
<1> QED BY <1>2, <1>3, <1>4 DEF Awaited

\* A tab that is at work was at it before, or has just begun or taken it up.
LEMMA WasBusy ==
    ASSUME WholeInv, [Next]_vars, NEW t \in Tabs, page'[t].state # "idle"
    PROVE  \/ Busy(t) /\ page'[t].upload = page[t].upload
           \/ \E u \in Uploads : Create(t, u) /\ page'[t].upload = u
           \/ Resume(t) /\ page'[t].upload = remembered
BY TabMoves DEF Turns, Busy, IdlePage

LEMMA OneAtItKept == WholeInv /\ [Next]_vars => OneAtIt'
<1> SUFFICES ASSUME WholeInv, [Next]_vars, NEW s \in Tabs, NEW t \in Tabs,
                    page'[s].state # "idle", page'[t].state # "idle",
                    page'[s].upload = page'[t].upload, page'[s].upload \notin cut', s # t
             PROVE  FALSE
  BY DEF OneAtIt, Busy
<1>0. cut \subseteq cut' /\ OneAtIt /\ Begun /\ page \in [Tabs -> Page]
  BY WorldMoves DEF WholeInv, UploadInv, TypeOK
\* Who begins or takes up leaves the other tab alone.
<1>1. ASSUME NEW x \in Tabs, NEW y \in Tabs, x # y,
             Resume(x) \/ \E u \in Uploads : Create(x, u)
      PROVE  page'[y] = page[y]
  BY <1>0, <1>1 DEF Resume, Create, Shows
<1>2. ASSUME NEW x \in Tabs, NEW y \in Tabs, x # y, page'[y].state # "idle",
             page'[x].upload = page'[y].upload, page'[x].upload \notin cut'
      PROVE  ~Resume(x) /\ \A u \in Uploads : ~(Create(x, u) /\ page'[x].upload = u)
  <2>1. SUFFICES ASSUME (Resume(x) /\ page'[x].upload = remembered)
                        \/ \E u \in Uploads : Create(x, u) /\ page'[x].upload = u
                 PROVE  FALSE
    BY <1>0 DEF Resume, Shows
  <2>2. Busy(y) /\ page[y].upload = page'[x].upload
    BY <1>1, <1>2, <2>1 DEF Busy
  <2>3. page[y].upload \in begun
    BY <1>0, <2>2 DEF Begun
  <2>4. CASE Resume(x) /\ page'[x].upload = remembered
    BY <1>2, <2>2, <2>4 DEF Resume
  <2>5. CASE \E u \in Uploads : Create(x, u) /\ page'[x].upload = u
    BY <2>2, <2>3, <2>5 DEF Create
  <2> QED BY <2>1, <2>4, <2>5
<1>3. Busy(s) /\ Busy(t) /\ page'[s].upload = page[s].upload /\ page'[t].upload = page[t].upload
  BY <1>2, WasBusy
<1> QED BY <1>0, <1>3 DEF OneAtIt

LEMMA BegunKept == WholeInv /\ [Next]_vars => Begun'
<1> SUFFICES ASSUME WholeInv, [Next]_vars PROVE Begun'
  OBVIOUS
<1> USE DEF Sessions, World, Course, History
<1>0. Begun /\ UploadInv /\ begun \subseteq begun' /\ TypeOK
  BY WorldMoves DEF WholeInv, UploadInv
<1>1. ASSUME NEW t \in Tabs, page'[t].state # "idle" PROVE page'[t].upload \in begun'
  BY <1>0, <1>1, WasBusy DEF Begun, Create, Resume
<1>2. ASSUME remembered' # None PROVE remembered' \in begun'
  <2>1. CASE Elsewhere
    <3>1. ASSUME NEW t \in Tabs, Ask(t) PROVE remembered' \in begun'
      BY <1>0, <1>2, <3>1 DEF Ask, Begun, Busy
    <3>2. ASSUME NEW t \in Tabs, NEW u \in Uploads, Create(t, u) PROVE remembered' \in begun'
      BY <3>2 DEF Create
    <3>3. CASE remembered' = remembered
      BY <1>0, <1>2, <3>3 DEF Begun
    <3>4. ASSUME NEW t \in Tabs, Turned(t) \/ Resume(t) \/ Leave(t)
          PROVE  UNCHANGED remembered
      BY <3>4 DEF Turned, Resume, Leave
    <3>5. SweepExpired => UNCHANGED remembered
      BY DEF SweepExpired
    <3>10. ASSUME NEW k \in Keys, Delete(k) PROVE UNCHANGED remembered
      BY <3>10 DEF Delete
    <3> QED BY <2>1, <3>1, <3>2, <3>3, <3>4, <3>5, <3>10, ElsewhereIs
  <2>2. CASE Restart
    BY <1>0, <1>2, <2>2 DEF Restart, Begun
  <2>3. ASSUME NEW c \in Calls, OneSteps(c) PROVE remembered' \in {remembered, None}
    BY <2>3 DEF OneSteps, Server, SendsChunk, SendChunk, SendsFinish, SendFinish, Disconnect,
       CutOff, Check, Open, Write, Wrote, SubmitVideo, Streamed, Hash, Move, Look, Commit,
       CommitFails, CommitUnheard, Discard
  <2> QED BY <1>0, <1>2, <2>1, <2>2, <2>3, Steps DEF Begun
<1>3. ASSUME NEW c \in Calls, calls'[c] # None, calls'[c].upload # None
      PROVE  calls'[c].upload \in begun'
  <2>1. CASE calls[c] # None /\ calls'[c].upload = calls[c].upload
    BY <1>0, <1>3, <2>1 DEF Begun
  <2>2. CASE Begins(c)
    BY <1>0, <1>3, <2>2 DEF Begins, Begun, Busy, SendChunk, SendFinish
  <2> QED BY <1>3, <2>1, <2>2, WasThere DEF Same, GoesOn
<1> QED BY <1>1, <1>2, <1>3 DEF Begun, Busy

\* A submission stays what it is of, or has just been recorded.
LEMMA SubsMove ==
    ASSUME UploadInv, [Next]_vars, NEW k \in Keys, subs'[k] # None
    PROVE  \/ subs[k] # None /\ subs'[k].by = subs[k].by /\ subs'[k].says = subs[k].says
           \/ /\ subs[k] = None
              /\ \E d \in Calls :
                    /\ calls[d] # None /\ calls[d].stage = "commit" /\ k = calls[d].key
                    /\ subs'[k].by = KeyOf(calls[d]) /\ subs'[k].says = calls[d].hash
                    /\ file'[k] \in {file[k], None}
<1> USE DEF Sessions, World, Course, History
<1>0. TypeOK
  BY DEF UploadInv
<1>1. CASE Elsewhere
  <2>1. CASE Mark
    <3>1. Marked(k) => subs[k] # None /\ subs[k] \in Submission
      BY <1>0 DEF Marked, UploadInv, PurgeSound, TypeOK
    <3>2. CASE Marked(k)
      <4>1. subs'[k] = [subs[k] EXCEPT !.purged = TRUE]
        BY <2>1, <3>2 DEF Mark
      <4> QED BY <3>1, <3>2, <4>1 DEF Submission
    <3>3. CASE ~Marked(k)
      BY <2>1, <3>3 DEF Mark
    <3> QED BY <3>2, <3>3
  <2>2. CASE UNCHANGED subs
    BY <2>2
  <2>3. PageStep \/ SweepExpired \/ Close \/ PurgeDies \/ Plan \/ UNCHANGED vars => UNCHANGED subs
    BY Zenon DEF PageStep, Turned, Resume, Ask, Leave, SweepExpired, Close, PurgeDies, Plan, vars
  <2>4. ASSUME NEW u \in Uploads, Creates(u) \/ Expire(u) PROVE UNCHANGED subs
    BY <2>4 DEF Creates, Create, Expire
  <2>5. ASSUME NEW j \in Keys, Retire(j) \/ DeleteFails(j) \/ Delete(j) PROVE UNCHANGED subs
    BY <2>5 DEF Retire, DeleteFails, Delete
  <2> QED BY <1>1, <2>1, <2>2, <2>3, <2>4, <2>5 DEF Elsewhere, Purging
<1>2. CASE Restart
  BY <1>2 DEF Restart
<1>3. ASSUME NEW d \in Calls, OneSteps(d), subs' # subs
      PROVE  \/ subs[k] # None /\ subs'[k].by = subs[k].by /\ subs'[k].says = subs[k].says
             \/ /\ subs[k] = None
                /\ calls[d] # None /\ calls[d].stage = "commit" /\ k = calls[d].key
                /\ subs'[k].by = KeyOf(calls[d]) /\ subs'[k].says = calls[d].hash
                /\ file'[k] \in {file[k], None}
  <2>1. (Commit(d) \/ CommitUnheard(d)) /\ ~Collides(calls[d])
    BY <1>3 DEF OneSteps, Server, SendsChunk, SendChunk, SendsFinish, SendFinish, Disconnect, CutOff, Check, Open, Write,
       Wrote, SubmitVideo, Streamed, Hash, Move, Look, Commit, CommitFails, CommitUnheard, Discard
  <2>2. subs' = [subs EXCEPT ![calls[d].key] =
                    [by |-> KeyOf(calls[d]), says |-> calls[d].hash, purged |-> FALSE]]
    BY <2>1 DEF Commit, CommitUnheard
  <2>3. calls[d] # None /\ calls[d].stage = "commit" /\ subs[calls[d].key] = None
    BY <2>1, HoldsKey DEF Commit, CommitUnheard, At
  <2>4. UNCHANGED file \/ Unlink(Own(d), Ended(d))
    BY <2>1 DEF Commit, CommitUnheard
  <2>5. file'[k] \in {file[k], None}
    BY <2>4 DEF Unlink, Places
  <2> QED BY <1>0, <2>2, <2>3, <2>5 DEF TypeOK
<1>4. CASE UNCHANGED subs
  BY <1>4
<1> QED BY <1>1, <1>2, <1>3, <1>4, Steps

LEMMA HandlesKept == WholeInv /\ [Next]_vars => HandlesFollow'
<1> SUFFICES ASSUME WholeInv, [Next]_vars, NEW c \in Calls, calls'[c] # None, calls'[c].to # None
             PROVE  \/ calls'[c].to = calls'[c].upload
                    \/ /\ calls'[c].to \in Keys /\ calls'[c].upload \in cut'
                       /\ \A d \in Calls : calls'[d] # None /\ calls'[d].key = calls'[c].to =>
                                           calls'[d].upload = calls'[c].upload
                       /\ subs'[calls'[c].to] # None =>
                             subs'[calls'[c].to].by = calls'[c].upload
  BY DEF HandlesFollow
<1> USE DEF Sessions, World, Course, History
<1>0. UploadInv /\ HandlesFollow /\ cut \subseteq cut' /\ TypeOK
  BY WorldMoves DEF WholeInv, UploadInv
<1>1. UploadInv' /\ KeysApart'
  BY <1>0, CallsKept, StoreKept, OrphansKept DEF UploadInv, Stored
\* A handle that stays where it is.
<1>2. ASSUME calls[c] # None, calls[c].to # None, calls'[c].to = calls[c].to,
             calls'[c].upload = calls[c].upload, calls[c].to # calls[c].upload
      PROVE  /\ calls'[c].to \in Keys /\ calls'[c].upload \in cut'
             /\ \A d \in Calls : calls'[d] # None /\ calls'[d].key = calls'[c].to =>
                                 calls'[d].upload = calls'[c].upload
             /\ subs'[calls'[c].to] # None => subs'[calls'[c].to].by = calls'[c].upload
  <2> DEFINE k == calls[c].to
  <2>1. /\ k \in Keys /\ calls[c].upload \in cut
        /\ \A d \in Calls : calls[d] # None /\ calls[d].key = k =>
                            calls[d].upload = calls[c].upload
        /\ subs[k] # None => subs[k].by = calls[c].upload
    BY <1>0, <1>2 DEF HandlesFollow
  <2>2. file[k] # None /\ k \in taken
    BY <1>0, <1>2, <2>1, AtWork DEF Formed, UploadInv, StoreSound
  <2>3. calls[c].upload # None
    BY <1>0, <2>1, ResumableUploadAssumption DEF TypeOK
  <2>4. ASSUME NEW d \in Calls, calls'[d] # None, calls'[d].key = k
        PROVE  calls'[d].upload = calls[c].upload
    <3>1. CASE calls[d] # None /\ Same(calls[d], calls'[d])
      BY <2>1, <2>4, <3>1 DEF Same
    <3>2. CASE Begins(d)
      BY <2>1, <2>2, <2>4, <3>2, ResumableUploadAssumption DEF Begins
    <3>3. CASE GoesOn(d)
      BY <2>1, <2>4, <3>3 DEF GoesOn
    <3> QED BY <2>4, <3>1, <3>2, <3>3, WasThere
  <2>5. subs'[k] # None => subs'[k].by = calls[c].upload
    <3>1. ASSUME NEW d \in Calls, calls[d] # None, calls[d].stage = "commit", k = calls[d].key
          PROVE  KeyOf(calls[d]) = calls[c].upload
      <4>1. calls[d].upload = calls[c].upload
        BY <2>1, <3>1
      <4>2. calls[d].kind # "whole"
        BY <1>0, <2>3, <3>1, <4>1, AtWork DEF Formed
      <4> QED BY <4>1, <4>2 DEF KeyOf
    <3> QED BY <1>0, <2>1, <3>1, SubsMove
  <2> QED BY <1>0, <1>2, <2>1, <2>4, <2>5
\* A handle that follows its file into the store.
<1>3. ASSUME calls[c] # None, Same(calls[c], calls'[c]), NEW d \in Calls \ {c}, Move(d),
             calls[c].to = calls[d].upload, calls'[c].to = calls[d].key
      PROVE  /\ calls'[c].to \in Keys /\ calls'[c].upload \in cut'
             /\ \A e \in Calls : calls'[e] # None /\ calls'[e].key = calls'[c].to =>
                                 calls'[e].upload = calls'[c].upload
             /\ subs'[calls'[c].to] # None => subs'[calls'[c].to].by = calls'[c].upload
  <2> DEFINE k == calls[d].key  u == calls[d].upload
  <2>1. /\ calls[d] # None /\ calls[d].stage = "move" /\ calls[d].kind = "finish"
        /\ u \in Uploads /\ k \in Keys /\ subs[k] = None
    <3>1. calls[d] # None /\ calls[d].stage = "move" /\ calls[d] \in Request
          /\ Formed(calls[d], file, subs, taken)
      BY <1>0, <1>3, AtWork DEF Move, At
    <3>2. calls[d].kind = "finish"
      BY <3>1 DEF Formed, Request
    <3> QED BY <1>0, <3>1, <3>2 DEF Formed, TypeOK
  <2>2. calls[c].kind = "append" /\ file[u] # None
    BY <1>0, <1>3, <2>1, AtWork, ResumableUploadAssumption DEF Formed
  <2>3. calls[c].upload = u
    BY <1>0, <1>3, <2>1, ResumableUploadAssumption DEF HandlesFollow
  <2>4. u \in cut
    BY <1>0, <1>3, <2>1, <2>2, <2>3, Alone
  <2>5. calls'[d] # None
    <3>1. calls' = Repoint(To(d, "look"), {u}, k) /\ calls[d] \in Request
      BY <1>0, <1>3, <2>1, <2>2, AtWork DEF Move
    <3>2. To(d, "look")[d] = [calls[d] EXCEPT !.stage = "look"]
      BY <1>0, <2>1 DEF To, TypeOK
    <3>3. [calls[d] EXCEPT !.stage = "look"] \in Request
      BY <3>1 DEF Request
    <3>4. k \in Places \cup {None} /\ [calls[d] EXCEPT !.stage = "look"] # None
      BY <2>1, <3>3, NoneIsNothing DEF Places
    <3> DEFINE me == [calls[d] EXCEPT !.stage = "look"]
    <3>5. calls'[d] = Moved(me, {u}, k)
      BY <3>1, <3>2 DEF Repoint
    <3>6. me.to = None
      BY <1>0, <2>1, <3>1, AtWork DEF Formed, Request
    <3>7. calls'[d] = me
      BY <2>1, <3>5, <3>6, ResumableUploadAssumption DEF Moved
    <3> QED BY <3>4, <3>7
  <2>6. calls'[d].key = k /\ calls'[d].upload = u
    <3>1. OneSteps(d)
      BY <1>3 DEF OneSteps, Server
    <3> QED BY <1>0, <2>1, <2>5, <3>1, OwnStep DEF Begins, GoesOn
  <2>7. \A e \in Calls : calls'[e] # None /\ calls'[e].key = k => calls'[e].upload = u
    BY <1>1, <2>1, <2>5, <2>6, ResumableUploadAssumption DEF KeysApart
  <2>8. subs' = subs
    BY <1>3 DEF Move
  <2> QED BY <1>0, <1>3, <2>1, <2>3, <2>4, <2>7, <2>8 DEF Same
<1>4. CASE calls[c] # None /\ Same(calls[c], calls'[c]) /\ HandleGoesOn(c)
  <2>1. CASE calls'[c].to = calls[c].to
    BY <1>2, <1>4, <2>1 DEF Same
  <2>2. ASSUME NEW d \in Calls \ {c}, Move(d), calls[c].to = calls[d].upload,
               calls'[c].to = calls[d].key
        PROVE  /\ calls'[c].to \in Keys /\ calls'[c].upload \in cut'
               /\ \A e \in Calls : calls'[e] # None /\ calls'[e].key = calls'[c].to =>
                                   calls'[e].upload = calls'[c].upload
               /\ subs'[calls'[c].to] # None => subs'[calls'[c].to].by = calls'[c].upload
    BY <1>3, <1>4, <2>2
  <2> QED BY <1>4, <2>1, <2>2 DEF HandleGoesOn
<1>5. CASE GoesOn(c)
  <2>1. calls'[c].to = calls[c].to \/ calls'[c].to = calls[c].upload
    BY <1>5 DEF GoesOn
  <2> QED BY <1>2, <1>5, <2>1 DEF GoesOn
<1> QED BY <1>4, <1>5, WasThere DEF Begins

\* The file of an upload that was not cut off is made empty, grows by the piece
\* of its upload, or goes.
LEMMA UploadFile ==
    ASSUME WholeInv, [Next]_vars, NEW u \in Uploads, u \notin cut
    PROVE  \/ file'[u] = file[u]
           \/ /\ file'[u] = None
              /\ u \notin session' \/ \E c \in Calls : Move(c) /\ calls[c].upload = u
           \/ Creates(u) /\ file'[u] = <<>>
           \/ \E c \in Calls :
                 /\ calls[c] # None /\ calls[c].upload = u
                 /\ \/ Open(c) /\ file[u] = None /\ file'[u] = <<>>
                    \/ Write(c) /\ file'[u] = Append(file[u], calls[c].offset + calls[c].done + 1)
<1>1. UploadInv /\ HandlesFollow /\ u \in Places /\ u \notin Keys
  BY ResumableUploadAssumption DEF WholeInv, Places
<1>2. ASSUME NEW c \in Calls, Writes(c, u)
      PROVE  calls[c] # None /\ calls[c].upload = u
  BY <1>1, <1>2, ResumableUploadAssumption DEF Writes, Write, At, HandlesFollow
<1>3. FileGoesOn(u)
  BY <1>1, FileMoves
<1> QED BY <1>1, <1>2, <1>3 DEF FileGoesOn, Makes, Writes, Fills, Empties, Open, At

\* A file of the store goes, is put there by the request that has its key, or
\* is written by a handle that followed it.
LEMMA KeyFile ==
    ASSUME WholeInv, [Next]_vars, NEW k \in Keys
    PROVE  \/ file'[k] \in {file[k], None}
           \/ \E d \in Calls : calls[d] # None /\ Fills(d, k)
           \/ \E d \in Calls :
                 /\ calls[d].upload \in cut
                 /\ \A e \in Calls : calls[e] # None /\ calls[e].key = k =>
                                     calls[e].upload = calls[d].upload
                 /\ subs[k] # None => subs[k].by = calls[d].upload
<1>1. UploadInv /\ HandlesFollow /\ k \in Places /\ k \notin Uploads
  BY ResumableUploadAssumption DEF WholeInv, Places
<1>2. session' \subseteq Uploads /\ k # None
  BY <1>1, ScalarsKept, ResumableUploadAssumption DEF Scalars
<1>3. ASSUME NEW c \in Calls, At(c, "write") \/ At(c, "open") \/ At(c, "move")
      PROVE  calls[c].upload \in Uploads
  BY <1>1, <1>3, AtWork DEF At, Formed, Request
<1>4. ~Makes(k)
  <2>1. ~Creates(k)
    BY <1>1, <1>2 DEF Creates, Create
  <2> QED BY <1>1, <1>3, <2>1 DEF Makes, Open
<1>5. ASSUME NEW d \in Calls, Writes(d, k)
      PROVE  /\ calls[d].upload \in cut
             /\ \A e \in Calls : calls[e] # None /\ calls[e].key = k =>
                                 calls[e].upload = calls[d].upload
             /\ subs[k] # None => subs[k].by = calls[d].upload
  <2>1. calls[d] # None /\ calls[d].to = k /\ calls[d].upload \in Uploads
    BY <1>3, <1>5 DEF Writes, Write, At
  <2> QED BY <1>1, <1>2, <2>1 DEF HandlesFollow
<1>6. ASSUME NEW d \in Calls, Fills(d, k) PROVE calls[d] # None
  BY <1>6 DEF Fills, Streamed, Move, At
<1>7. FileGoesOn(k)
  BY <1>1, FileMoves
<1> QED BY <1>1, <1>4, <1>5, <1>6, <1>7 DEF FileGoesOn, Empties

\* The beginning of the video grows by the next unit.
LEMMA PartGrows ==
    ASSUME NEW f \in Bytes, Part(f), Len(f) < Size
    PROVE  Part(Append(f, Len(f) + 1)) /\ Len(Append(f, Len(f) + 1)) = Len(f) + 1
<1> DEFINE g == Append(f, Len(f) + 1)
<1>1. Size \in Nat /\ Len(f) \in Nat /\ Len(f) + 1 \in 1 .. Size /\ f \in Seq(1 .. Size)
  BY ResumableUploadAssumption DEF Bytes
<1>2. g \in Seq(1 .. Size) /\ Len(g) = Len(f) + 1
  BY <1>1
<1>3. \A i \in 1 .. Len(g) : g[i] = i
  BY <1>1, <1>2 DEF Part
<1> QED BY <1>1, <1>2, <1>3 DEF Part

LEMMA PartIsVideo ==
    ASSUME NEW f \in Bytes, Part(f), Len(f) >= Size
    PROVE  f = Video
<1>1. Size \in Nat /\ Len(f) \in Nat /\ f \in Seq(1 .. Size)
  BY ResumableUploadAssumption DEF Bytes
<1>2. Len(f) = Size /\ \A i \in 1 .. Size : f[i] = i
  BY <1>1 DEF Part
<1>3. f = [i \in 1 .. Size |-> f[i]]
  BY <1>1, <1>2
<1> QED BY <1>2, <1>3 DEF Video

LEMMA NothingIsPart == Part(<<>>)
BY ResumableUploadAssumption DEF Part

\* A piece is written where the file ends, and within the video.
LEMMA WriteExtends ==
    ASSUME WholeInv, NEW c \in Calls, Write(c), Intact(calls[c].upload)
    PROVE  /\ calls[c].to = calls[c].upload /\ calls[c].upload \in Uploads
           /\ file[calls[c].upload] \in Bytes /\ Part(file[calls[c].upload])
           /\ Len(file[calls[c].upload]) = calls[c].offset + calls[c].done
           /\ Len(file[calls[c].upload]) < Size
<1> DEFINE r == calls[c]  u == calls[c].upload
<1>1. r # None /\ r \in Request /\ r.stage = "write" /\ Formed(r, file, subs, taken)
      /\ r.done < PieceOf(r.offset)
  BY AtWork DEF Write, At, WholeInv
<1>2. r.kind = "append" /\ u \in Uploads
  BY <1>1 DEF Formed, Request
<1>3. r.to = u /\ Len(file[u]) = r.offset + r.done
  BY <1>1, <1>2 DEF WholeInv, Sending
<1>4. file[u] # None /\ file[u] \in Bytes
  BY <1>1, <1>2, <1>3, ResumableUploadAssumption DEF Formed, WholeInv, UploadInv, TypeOK
<1>5. Part(file[u])
  BY <1>2, <1>4 DEF WholeInv, Received
<1>6. r.offset + r.done < Size
  <2>1. r.offset \in Nat /\ r.done \in Nat
    BY <1>1 DEF Request
  <2> QED BY <1>1, <2>1, PieceIsNat, ResumableUploadAssumption
<1> QED BY <1>2, <1>3, <1>4, <1>5, <1>6

\* The upload of a request that goes on was open before the step.
LEMMA StillIntact ==
    ASSUME WholeInv, [Next]_vars, NEW c \in Calls, calls'[c] # None,
           calls'[c].kind # "whole", calls'[c].upload \in session' \ cut'
    PROVE  Intact(calls'[c].upload)
<1> DEFINE u == calls'[c].upload
<1>0. UploadInv /\ cut \subseteq cut' /\ (u \in session \/ Creates(u)) /\ Begun /\ u # None
  BY ScalarsKept, WorldMoves, ResumableUploadAssumption DEF WholeInv, Scalars
<1>1. ~Creates(u)
  <2>1. SUFFICES ASSUME NEW t \in Tabs, Create(t, u) PROVE FALSE
    BY DEF Creates
  <2>2. calls' = calls /\ u \notin begun
    BY <2>1 DEF Create
  <2> QED BY <1>0, <2>2 DEF Begun
<1> QED BY <1>0, <1>1 DEF Intact

LEMMA ReceivedKept == WholeInv /\ [Next]_vars => Received'
<1> SUFFICES ASSUME WholeInv, [Next]_vars, NEW u \in Uploads, u \in session' \ cut', file'[u] # None
             PROVE  Part(file'[u])
  BY DEF Received, Intact, Part
<1> USE DEF Sessions, World, Course, History
<1>0. UploadInv /\ u \notin cut /\ (u \in session \/ Creates(u))
  BY WorldMoves DEF WholeInv
<1>1. CASE Creates(u) \/ file'[u] = <<>>
  <2>1. file'[u] = <<>>
    BY <1>0, <1>1 DEF Creates, Create, UploadInv, TypeOK
  <2> QED BY <2>1, NothingIsPart
<1>2. CASE u \in session /\ file'[u] = file[u]
  BY <1>0, <1>2 DEF WholeInv, Received, Intact
<1>3. ASSUME u \in session, NEW c \in Calls, Write(c), calls[c].upload = u,
             file'[u] = Append(file[u], calls[c].offset + calls[c].done + 1)
      PROVE  Part(file'[u])
  <2>1. /\ file[u] \in Bytes /\ Part(file[u]) /\ Len(file[u]) = calls[c].offset + calls[c].done
        /\ Len(file[u]) < Size
    BY <1>0, <1>3, WriteExtends DEF Intact
  <2>2. Part(Append(file[u], Len(file[u]) + 1))
    BY <2>1, PartGrows
  <2> QED BY <1>3, <2>1, <2>2
<1> QED BY <1>0, <1>1, <1>2, <1>3, UploadFile

\* The file of the piece that is being sent is left alone by everything else.
LEMMA FileWaits ==
    ASSUME WholeInv, [Next]_vars, NEW c \in Calls, calls[c] # None, calls[c].kind # "whole",
           calls[c].upload \in Uploads \ cut, ~Open(c), ~Write(c)
    PROVE  \/ file'[calls[c].upload] = file[calls[c].upload]
           \/ /\ file'[calls[c].upload] = None
              /\ calls[c].upload \notin session' \/ calls[c].kind = "finish"
<1> DEFINE u == calls[c].upload
<1>1. u \in begun
  BY ResumableUploadAssumption DEF WholeInv, Begun
<1>2. ~Creates(u)
  BY <1>1 DEF Creates, Create
<1>3. ASSUME NEW d \in Calls, calls[d] # None, calls[d].upload = u, Open(d) \/ Write(d)
      PROVE  d = c
  <2>1. calls[d].kind = "append"
    BY <1>3, AtWork DEF Open, Write, At, Formed, Request, WholeInv
  <2> QED BY <1>3, <2>1, Alone
<1>4. ASSUME NEW d \in Calls, Move(d), calls[d].upload = u
      PROVE  d = c /\ calls[c].kind = "finish"
  <2>1. calls[d] # None /\ calls[d].kind = "finish"
    BY <1>4, AtWork DEF Move, At, Formed, Request, WholeInv
  <2> QED BY <1>4, <2>1, Alone
<1> QED BY <1>2, <1>3, <1>4, UploadFile

LEMMA SendingKept == WholeInv /\ [Next]_vars => Sending'
<1> SUFFICES ASSUME WholeInv, [Next]_vars, NEW c \in Calls, calls'[c] # None,
                    calls'[c].kind = "append", calls'[c].upload \in session' \ cut'
             PROVE  LET q == calls'[c] IN
                    /\ q.stage = "open" => file'[q.upload] # None /\ Len(file'[q.upload]) = q.offset
                    /\ q.stage = "write" =>
                          q.to = q.upload /\ Len(file'[q.upload]) = q.offset + q.done
  BY DEF Sending, Intact
<1> USE DEF Sessions, World, Course, History
<1> DEFINE r == calls[c]  q == calls'[c]  u == calls'[c].upload
<1>0. /\ UploadInv /\ Intact(u) /\ u \in Uploads /\ TypeOK /\ u \in Places /\ u # None
      /\ u \notin cut
  BY StillIntact, ResumableUploadAssumption DEF WholeInv, UploadInv, TypeOK, Intact, Places
<1>2. CASE r # None /\ Same(r, q) /\ HandleGoesOn(c)
  <2>1. /\ q.stage = r.stage /\ r.kind = "append" /\ r.upload = u /\ q.offset = r.offset
        /\ q.done = r.done
    BY <1>2 DEF Same
  <2>2. ~Open(c) /\ ~Write(c)
    <3>0. r \in Request
      BY <1>0, <1>2, AtWork
    <3>1. Open(c) => r.stage = "open" /\ q.stage = "write"
      BY <1>0, <3>0 DEF Open, At, Ended, TypeOK, Request
    <3>2. Write(c) => q.done = r.done + 1 /\ r.done \in Nat
      BY <1>0, <3>0 DEF Write, TypeOK, Request
    <3> QED BY <2>1, <3>1, <3>2
  <2>3. file'[u] = file[u]
    BY <1>0, <1>2, <2>1, <2>2, FileWaits
  <2>4. r.stage = "write" => r.to = u /\ q.to = u
    <3>1. r.stage = "write" => r.to = u
      BY <1>0, <1>2, <2>1 DEF WholeInv, Sending
    <3>2. ASSUME NEW d \in Calls \ {c}, Move(d), calls[d].upload = u PROVE FALSE
      <4>1. calls[d] # None /\ calls[d].kind # "whole"
        BY <1>0, <3>2, AtWork DEF Move, At, Formed
      <4> QED BY <1>0, <1>2, <2>1, <3>2, <4>1, Alone
    <3> QED BY <1>0, <1>2, <3>1, <3>2 DEF HandleGoesOn
  <2>5. CASE q.stage = "open"
    <3>1. file[u] # None /\ Len(file[u]) = r.offset
      BY <1>0, <1>2, <2>1, <2>5 DEF WholeInv, Sending
    <3> QED BY <2>1, <2>3, <2>5, <3>1
  <2>6. CASE q.stage = "write"
    <3>1. Len(file[u]) = r.offset + r.done
      BY <1>0, <1>2, <2>1, <2>6 DEF WholeInv, Sending
    <3> QED BY <2>1, <2>3, <2>4, <2>6, <3>1
  <2> QED BY <2>5, <2>6
<1>3. CASE Begins(c)
  BY <1>3 DEF Begins
<1>4. CASE GoesOn(c)
  <2>1. /\ r # None /\ r.kind = "append" /\ r.upload = u /\ q.offset = r.offset
        /\ ~CutOff(c) /\ r \in Request /\ Formed(r, file, subs, taken)
    BY <1>0, <1>4, AtWork DEF GoesOn, CutOff
  <2>2. CASE Check(c) /\ q.stage = "open"
    <3>1. file[u] # None /\ r.offset = Len(file[u])
      BY <1>0, <2>1, <2>2 DEF Check, Found, Ended, TypeOK
    <3> QED BY <2>1, <2>2, <3>1 DEF Check
  <2>3. CASE Open(c) /\ q.stage = "write" /\ q.to = r.upload /\ q.done = r.done
    <3>1. file[u] # None /\ Len(file[u]) = r.offset /\ r.done = 0
      BY <1>0, <2>1, <2>3 DEF WholeInv, Sending, Open, At, Formed
    <3>2. file'[u] = file[u] /\ r.offset \in Nat
      BY <1>0, <2>1, <2>3, <3>1 DEF Open, TypeOK, Places, Request
    <3> QED BY <2>1, <2>3, <3>1, <3>2
  <2>4. CASE Write(c) /\ q.stage = "write" /\ q.to = r.to /\ q.done = r.done + 1
    <3>1. /\ r.to = u /\ file[u] \in Bytes /\ Part(file[u])
          /\ Len(file[u]) = r.offset + r.done /\ Len(file[u]) < Size
      BY <1>0, <2>1, <2>4, WriteExtends
    <3>2. file'[u] = Append(file[u], Len(file[u]) + 1)
      BY <1>0, <2>4, <3>1 DEF Write, Places
    <3>3. r.offset \in Nat /\ r.done \in Nat
      BY <2>1 DEF Request
    <3>4. Len(file'[u]) = Len(file[u]) + 1
      BY <3>1, <3>2, PartGrows
    <3>5. q.to = u /\ q.offset + q.done = Len(file[u]) + 1
      BY <2>1, <2>4, <3>1, <3>3
    <3> QED BY <2>4, <3>4, <3>5
  <2>5. (q.stage # "open" /\ q.stage # "write") \/ Check(c) \/ Open(c) \/ Write(c)
    BY <1>4, <2>1 DEF GoesOn
  <2> QED BY <1>4, <2>1, <2>2, <2>3, <2>4, <2>5
          DEF GoesOn, Check, Open, Write, Streamed, Hash, Move, Look, Commit, At
<1> QED BY <1>2, <1>3, <1>4, WasThere

\* The page comes to finish when the last piece has been heard of.
LEMMA PageFinishes ==
    ASSUME WholeInv, [Next]_vars, NEW t \in Tabs, page'[t].state = "finish"
    PROVE  /\ page'[t].upload = page[t].upload /\ Busy(t)
           /\ \/ page[t].state = "finish"
              \/ \E c \in Calls : Wrote(c) /\ calls[c].heard = t
                                  /\ calls[c].offset + calls[c].done >= Size
BY TabMoves DEF Turns, IdlePage, Busy

\* When the page finishes, the file is complete.
LEMMA PageHasAll ==
    ASSUME WholeInv, [Next]_vars, NEW t \in Tabs, page'[t].state = "finish",
           page'[t].upload \in session' \ cut'
    PROVE  file'[page'[t].upload] \in {Video, None}
<1> USE DEF Sessions, World, Course, History
<1>0. PICK u : u = page'[t].upload
  OBVIOUS
<1>1. /\ UploadInv /\ u \in Uploads /\ u \notin cut /\ u # None
      /\ u = page[t].upload /\ Busy(t) /\ u \in begun
  BY <1>0, ScalarsKept, WorldMoves, PageFinishes, ResumableUploadAssumption
     DEF WholeInv, Scalars, Begun
<1>2. ~Creates(u) /\ Intact(u)
  <2>1. ~Creates(u)
    BY <1>1 DEF Creates, Create
  <2> QED BY <1>0, <1>1, <2>1, WorldMoves DEF Intact
<1>3. CASE page[t].state = "finish"
  <2>1. file[u] \in {Video, None}
    BY <1>1, <1>2, <1>3 DEF WholeInv, Finishing, Complete
  <2>2. ASSUME NEW c \in Calls, calls[c] # None, calls[c].upload = u, Open(c) \/ Write(c)
        PROVE  FALSE
    <3>1. calls[c].kind = "append"
      BY <1>1, <2>2, AtWork DEF Open, Write, At, Formed, Request
    <3> QED BY <1>1, <1>3, <2>2, <3>1, Alone
  <2> QED BY <1>0, <1>1, <1>2, <2>1, <2>2, UploadFile
<1>4. ASSUME NEW c \in Calls, Wrote(c), calls[c].heard = t, calls[c].offset + calls[c].done >= Size
      PROVE  file'[u] \in {Video, None}
  <2>1. calls[c] # None /\ calls[c].stage = "write" /\ Formed(calls[c], file, subs, taken)
        /\ calls[c] \in Request
    BY <1>1, <1>4, AtWork DEF Wrote, At
  <2>2. calls[c].upload = u /\ calls[c].kind = "append"
    BY <1>1, <1>4, <2>1, ResumableUploadAssumption DEF WholeInv, Awaited, Formed, Request
  <2>3. file' = file
    BY <1>4 DEF Wrote
  <2>4. calls[c].to = u /\ Len(file[u]) = calls[c].offset + calls[c].done
    BY <1>2, <2>1, <2>2 DEF WholeInv, Sending
  <2>5. file[u] \in Bytes /\ Part(file[u])
    BY <1>1, <1>2, <2>1, <2>4 DEF Formed, UploadInv, TypeOK, WholeInv, Received
  <2>6. file[u] = Video
    BY <1>4, <2>4, <2>5, PartIsVideo
  <2> QED BY <2>3, <2>6
<1> QED BY <1>0, <1>3, <1>4, PageFinishes

\* While the server finishes an upload, its file is the video.
LEMMA FinishHasAll ==
    ASSUME WholeInv, [Next]_vars, NEW c \in Calls, calls'[c] # None,
           calls'[c].upload \notin cut', calls'[c].stage \in {"hash", "move"}
    PROVE  /\ file'[calls'[c].upload] \in {Video, None}
           /\ calls'[c].stage = "move" => calls'[c].hash = Video
<1> USE DEF Sessions, World, Course, History
<1> DEFINE r == calls[c]  q == calls'[c]  u == calls'[c].upload
<1>0. UploadInv /\ TypeOK /\ u \notin cut
  BY WorldMoves DEF WholeInv, UploadInv
<1>1. UploadInv' /\ Requests'
  BY <1>0, CallsKept, StoreKept, OrphansKept DEF UploadInv, Stored
<1>2. u \in Uploads /\ q.kind = "finish"
  BY <1>1 DEF Requests, Formed, Request
<1>3. CASE r # None /\ Same(r, q)
  <2>1. r.stage = q.stage /\ r.upload = u /\ r.kind = "finish" /\ r.hash = q.hash
    BY <1>2, <1>3 DEF Same
  <2>2. file[u] \in {Video, None} /\ (r.stage = "move" => r.hash = Video)
    BY <1>0, <1>3, <2>1 DEF WholeInv, Finishing, Complete
  <2>3. ~Open(c) /\ ~Write(c)
    BY <2>1 DEF Open, Write, At
  <2>4. file'[u] \in {file[u], None}
    BY <1>0, <1>2, <1>3, <2>1, <2>3, FileWaits
  <2> QED BY <2>1, <2>2, <2>4
<1>4. CASE Begins(c)
  <2>1. PICK t \in Tabs : SendFinish(t, c) /\ u = page[t].upload /\ q.stage = "hash"
    BY <1>2, <1>4 DEF Begins
  <2>2. page[t].state = "finish" /\ Intact(u) /\ UNCHANGED file
    BY <1>0, <2>1 DEF SendFinish, Found, Intact
  <2> QED BY <2>1, <2>2 DEF WholeInv, Finishing, Complete
<1>5. CASE GoesOn(c)
  <2>1. r # None /\ r.upload = u /\ ~CutOff(c)
    BY <1>0, <1>5 DEF GoesOn, CutOff
  <2>2. Hash(c) /\ q.stage = "move" /\ q.hash = file[u] /\ file[u] # None
    BY <1>5, <2>1 DEF GoesOn
  <2>3. file[u] \in {Video, None}
    BY <1>0, <2>1, <2>2 DEF WholeInv, Finishing, Complete, Hash, At
  <2> QED BY <2>2, <2>3 DEF Hash
<1> QED BY <1>3, <1>4, <1>5, WasThere

\* What a finish has put into the store is the video, and stays it.
LEMMA RecordHasAll ==
    ASSUME WholeInv, [Next]_vars, NEW c \in Calls, calls'[c] # None,
           calls'[c].upload \notin cut', calls'[c].stage \in {"look", "commit"}
    PROVE  calls'[c].hash = Video /\ file'[calls'[c].key] = Video
<1> USE DEF Sessions, World, Course, History
<1> DEFINE r == calls[c]  q == calls'[c]  u == calls'[c].upload  k == calls'[c].key
<1>0. UploadInv /\ TypeOK /\ u \notin cut
  BY WorldMoves DEF WholeInv, UploadInv
<1>1. UploadInv' /\ Requests' /\ TypeOK'
  BY <1>0, CallsKept, StoreKept, OrphansKept DEF UploadInv, Stored
<1>2. k \in Keys /\ k # None /\ file'[k] # None
  BY <1>1, ResumableUploadAssumption DEF Requests, Formed, TypeOK
<1>3. CASE r # None /\ Same(r, q)
  <2>1. r.stage = q.stage /\ r.upload = u /\ r.key = k /\ r.hash = q.hash
    BY <1>3 DEF Same
  <2>2. r.hash = Video /\ file[k] = Video
    BY <1>0, <1>3, <2>1 DEF WholeInv, Finishing
  <2>3. ASSUME NEW d \in Calls, calls[d] # None, Fills(d, k) PROVE FALSE
    <3>1. calls[d].key = k /\ calls[d].stage \in {"stream", "move"}
      BY <2>3 DEF Fills, Streamed, Move, At
    <3>2. d = c
      BY <1>0, <1>2, <1>3, <2>1, <2>3, <3>1 DEF UploadInv, KeysApart
    <3> QED BY <2>1, <3>1, <3>2
  <2> QED BY <1>0, <1>2, <1>3, <2>1, <2>2, <2>3, KeyFile
<1>4. CASE Begins(c)
  BY <1>4 DEF Begins
<1>5. CASE GoesOn(c)
  <2>1. r # None /\ r.upload = u /\ ~CutOff(c) /\ r.key = k
    BY <1>0, <1>5 DEF GoesOn, CutOff
  <2>2. CASE Streamed(c) /\ q.hash = Video
    <3>1. calls' # Ended(c)
      BY <1>0 DEF Ended, TypeOK
    <3> QED BY <1>0, <1>2, <2>1, <2>2, <3>1 DEF Streamed, TypeOK, Places
  <2>3. CASE Move(c) /\ q.hash = r.hash /\ file[u] # None
    <3>1. r.stage = "move" /\ u \in Uploads /\ u # k
      BY <1>0, <1>2, <2>1, <2>3, AtWork, ResumableUploadAssumption DEF Move, At, Formed, Request
    <3>2. file[u] = Video /\ r.hash = Video
      BY <1>0, <2>1, <2>3, <3>1 DEF WholeInv, Finishing, Complete
    <3>3. file'[k] = file[u]
      BY <1>0, <1>2, <2>1, <2>3, <3>1 DEF Move, TypeOK
    <3> QED BY <2>3, <3>2, <3>3
  <2>4. CASE Look(c) /\ q.hash = r.hash /\ UNCHANGED file
    BY <1>0, <2>1, <2>4 DEF WholeInv, Finishing, Look, At
  <2> QED BY <1>5, <2>1, <2>2, <2>3, <2>4 DEF GoesOn
<1> QED BY <1>3, <1>4, <1>5, WasThere

LEMMA FinishingKept == WholeInv /\ [Next]_vars => Finishing'
<1> SUFFICES ASSUME WholeInv, [Next]_vars PROVE Finishing'
  OBVIOUS
<1>1. \A t \in Tabs : page'[t].state = "finish" /\ page'[t].upload \in session' \ cut' =>
          file'[page'[t].upload] \in {Video, None}
  BY PageHasAll
<1> QED BY <1>1, FinishHasAll, RecordHasAll DEF Finishing, Intact, Complete

LEMMA VideoIsKept == WholeInv /\ [Next]_vars => VideoIsTheFile'
<1> SUFFICES ASSUME WholeInv, [Next]_vars, NEW k \in Keys, subs'[k] # None, subs'[k].by \notin cut'
             PROVE  subs'[k].says = Video /\ file'[k] \in {Video, None}
  BY DEF VideoIsTheFile
<1>0. UploadInv /\ subs'[k].by \notin cut
  BY WorldMoves DEF WholeInv
<1>1. CASE subs[k] # None /\ subs'[k].by = subs[k].by /\ subs'[k].says = subs[k].says
  <2>1. subs[k].says = Video /\ file[k] \in {Video, None}
    BY <1>0, <1>1 DEF WholeInv, VideoIsTheFile
  <2>2. ASSUME NEW d \in Calls, calls[d] # None, Fills(d, k) PROVE FALSE
    BY <1>0, <1>1, <2>2, AtWork DEF Fills, Streamed, Move, At, Formed
  <2> QED BY <1>0, <1>1, <2>1, <2>2, KeyFile
<1>2. ASSUME NEW d \in Calls, calls[d] # None, calls[d].stage = "commit", k = calls[d].key,
             subs'[k].by = KeyOf(calls[d]), subs'[k].says = calls[d].hash, file'[k] \in {file[k], None}
      PROVE  subs'[k].says = Video /\ file'[k] \in {Video, None}
  <2>1. calls[d].upload \notin cut
    <3>1. calls[d].kind = "whole" => calls[d].upload = None
      BY <1>0, <1>2, AtWork DEF Formed
    <3>2. None \notin cut
      BY <1>0, ResumableUploadAssumption DEF UploadInv, TypeOK
    <3> QED BY <1>0, <1>2, <3>1, <3>2 DEF KeyOf
  <2> QED BY <1>2, <2>1 DEF WholeInv, Finishing
<1> QED BY <1>0, <1>1, <1>2, SubsMove

LEMMA WholeHoldsAtFirst == Init => WholeInv
<1> SUFFICES ASSUME Init PROVE WholeInv
  OBVIOUS
<1>1. Awaited /\ HandlesFollow /\ Sending /\ OneAtIt /\ Begun
  BY DEF Init, Awaited, HandlesFollow, Sending, OneAtIt, Begun, Busy, IdlePage
<1>2. Received /\ Finishing /\ VideoIsTheFile
  BY DEF Init, Received, Intact, Finishing, VideoIsTheFile, IdlePage
<1> QED BY <1>1, <1>2, InitHolds DEF WholeInv

-----------------------------------------------------------------------------
(* What holds of every behaviour                                           *)

\* Requests at work stay well-formed and apart, and the store, the records
\* and the purge agree, whatever is sent, broken off, swept or restarted.
THEOREM UploadInvariant == Spec => []UploadInv
<1>1. UploadInv /\ [Next]_vars => UploadInv'
  BY CallsKept, StoreKept, OrphansKept DEF UploadInv, Stored
<1> QED BY InitHolds, <1>1, PTL DEF Spec

\* The variables have their types: app.py, resumable.py and intake.py.
THEOREM UploadTyped == Spec => []TypeOK
<1>1. UploadInv => TypeOK
  BY DEF UploadInv
<1> QED BY UploadInvariant, <1>1, PTL

\* No failed, collided or repeated request takes the file of a submission
\* away, unless its own commit took effect and was reported as failed, and what
\* is marked as purged is gone (record_streamed, purge_videos).
THEOREM VideoStaysUntilRetention == Spec => []VideoKept
<1>1. UploadInv => VideoKept
  BY DEF UploadInv
<1> QED BY UploadInvariant, <1>1, PTL

\* The unique key of an upload lets it become one submission at most
\* (remember_idempotency_key), however many finishes and files compete.
THEOREM OneSubmissionOfAnUpload == Spec => []OneOfAnUpload
<1>1. UploadInv => OneOfAnUpload
  BY DEF UploadInv
<1> QED BY UploadInvariant, <1>1, PTL

\* Every file of the store is named by a submission or held by a request that
\* is about to record it, but for the files of the requests that the student
\* web was serving when it died (record_streamed).
THEOREM NothingIsOrphaned == Spec => []NoOrphans
<1>1. UploadInv => NoOrphans
  BY DEF UploadInv
<1> QED BY UploadInvariant, <1>1, PTL

\* What the tabs wait for, which of them is at an upload, where the handles lead
\* and how much of the video a file holds fit together at every moment
\* (task.html, append, adopt).
THEOREM WholeInvariant == Spec => []WholeInv
<1>1. WholeInv /\ [Next]_vars => WholeInv'
  BY CallsKept, StoreKept, OrphansKept, AwaitedKept, OneAtItKept, BegunKept, HandlesKept,
     ReceivedKept, SendingKept, FinishingKept, VideoIsKept DEF WholeInv, UploadInv, Stored
<1> QED BY WholeHoldsAtFirst, <1>1, PTL DEF Spec

\* However often an upload was interrupted, taken up by another tab or left half
\* written, as long as none of its requests was cut off and no tab took it up
\* while another was at it, its submission records the hash of the whole video,
\* and the store holds just that (append, adopt, record_streamed).
THEOREM UploadBecomesTheVideo == Spec => []VideoIsTheFile
<1>1. WholeInv => VideoIsTheFile
  BY DEF WholeInv
<1> QED BY WholeInvariant, <1>1, PTL

=============================================================================
