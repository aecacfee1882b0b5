------------------------- MODULE EditorIntakeProofs -------------------------
(***************************************************************************)
(* IntakeInv is an inductive invariant of EditorIntake for any texts, any  *)
(* number of requests and any bounds: however requests, resent requests    *)
(* and the sweep overlap, one content becomes one submission, and the      *)
(* marks tell the truth.  Most actions move one request from a stage to    *)
(* the next (CallMoves); the four that write more have lemmas of their own.*)
(***************************************************************************)
EXTENDS EditorIntake, TLAPS

\* What TypeOK says of the variables other than the records and the requests.
Scalars ==
    /\ screen \in Texts /\ dirty \in BOOLEAN /\ closed \in BOOLEAN
    /\ version \in 1 .. MaxVersion
    /\ buffer \in Buffer \union {None}
    /\ edits \in Nat /\ sent \in Nat /\ crashes \in Nat /\ lost \in Nat

\* What the invariant says of the request me when c works on it, with the
\* content put and the submissions made so far.
Fits(c, me, put, made) ==
    /\ me \in Request
    /\ (me.kind = "auto") = (c = Sweep)
    /\ me.stage = "commit" => [version |-> me.version, text |-> me.text, by |-> c] \in put
    /\ me.stage \in {"stamp", "write"} =>
            me.kind = "save" \/ (me.kind = "submit" /\ me.sub \in made)
    /\ me.stage = "mark" => c = Sweep /\ me.sub \in made /\ me.sub.by = Sweep

LEMMA RequestFits ==
    ASSUME IntakeInv, NEW c \in Server, calls[c] # None
    PROVE  Fits(c, calls[c], files, subs)
BY DEF IntakeInv, TypeOK, UnderWay, Fits, At, Made

LEMMA NoneIsNoOrigin == None # "editor" /\ None # "auto_close"
BY EditorIntakeAssumption

LEMMA NewFits ==
    ASSUME NEW kind \in {"save", "submit", "file", "auto"},
           NEW v \in 1 .. MaxVersion, NEW t \in Texts
    PROVE  New(kind, v, t) \in Request /\ New(kind, v, t).stage = "gate"
           /\ New(kind, v, t).kind = kind
BY DEF New, Request

LEMMA InitHolds == Init => IntakeInv
<1> SUFFICES ASSUME Init PROVE IntakeInv
  OBVIOUS
<1>0. \A c \in Server : calls[c] = None
  BY DEF Init
<1>1. TypeOK
  <2>1. 1 \in 1 .. MaxVersion
    BY EditorIntakeAssumption
  <2>2. \A s \in Submission : origin[s] = None
    BY DEF Init
  <2> QED BY <1>0, <2>1, <2>2 DEF Init, TypeOK
<1>2. SubmissionsSound /\ MarksTell /\ UnderWay
  BY <1>0 DEF Init, SubmissionsSound, MarksTell, UnderWay, At, Server
<1> QED BY <1>1, <1>2 DEF IntakeInv

\* One request moves on, is answered or begins; the submissions and their
\* origins stay.
LEMMA CallMoves ==
    ASSUME IntakeInv, Scalars', NEW c \in Server, NEW me,
           calls' = [calls EXCEPT ![c] = me],
           me = None \/ Fits(c, me, files', subs'),
           UNCHANGED <<subs, origin>>,
           files \subseteq files', files' \subseteq Submission,
           crashes' >= crashes,
           c = Sweep /\ At(Sweep, "mark") => crashes' > 0
    PROVE  IntakeInv'
<1>1. /\ calls'[c] = me
      /\ \A d \in Server \ {c} : calls'[d] = calls[d]
  BY DEF IntakeInv, TypeOK
<1>2. \A d \in Server : calls'[d] # None => Fits(d, calls'[d], files', subs')
  <2> SUFFICES ASSUME NEW d \in Server, calls'[d] # None PROVE Fits(d, calls'[d], files', subs')
    OBVIOUS
  <2>1. CASE d = c
    BY <2>1, <1>1
  <2>2. CASE d # c
    <3>1. Fits(d, calls[d], files, subs)
      BY <2>2, <1>1, RequestFits
    <3> QED BY <3>1, <2>2, <1>1 DEF Fits
  <2> QED BY <2>1, <2>2
<1>3. TypeOK'
  <2>1. calls' \in [Server -> Request \union {None}]
    BY <1>2 DEF Fits, IntakeInv, TypeOK
  <2> QED BY <2>1, <1>2 DEF Scalars, TypeOK, IntakeInv, At, Fits
<1>4. SubmissionsSound'
  BY DEF IntakeInv, SubmissionsSound, KeyOf
<1>5. MarksTell'
  <2> SUFFICES ASSUME NEW s \in subs, s.by = Sweep, origin[s] = None, ~(crashes' > 0)
               PROVE  (At(Sweep, "mark") /\ calls[Sweep].sub = s)'
    BY DEF IntakeInv, MarksTell
  <2>1. crashes = 0 /\ At(Sweep, "mark") /\ calls[Sweep].sub = s
    BY DEF IntakeInv, MarksTell, TypeOK, Scalars
  <2>2. c # Sweep
    BY <2>1
  <2> QED BY <2>1, <2>2, <1>1 DEF At, Server
<1>6. UnderWay'
  BY <1>2 DEF UnderWay, Fits, At, Made, Server
<1> QED BY <1>3, <1>4, <1>5, <1>6 DEF IntakeInv

LEMMA SendSaveWrites ==
    ASSUME NEW c \in Calls, SendSave(c)
    PROVE  /\ dirty' \in BOOLEAN /\ sent' = sent + 1
           /\ UNCHANGED <<screen, closed, version, buffer, edits, crashes, lost>>
BY Zenon DEF SendSave, Store, World

LEMMA ScalarsKept ==
    ASSUME IntakeInv, Next
    PROVE  Scalars' /\ crashes' >= crashes
<1> USE EditorIntakeAssumption DEF IntakeInv, TypeOK, Scalars, Page, Store, World, Failed
<1>1. ASSUME NEW t \in Texts, Type(t) PROVE Scalars' /\ crashes' >= crashes
  BY <1>1 DEF Type
<1>2. ASSUME NEW c \in Calls, SendSave(c) PROVE Scalars' /\ crashes' >= crashes
  BY <1>2, SendSaveWrites
<1>3. ASSUME NEW c \in Calls, NEW v \in 1 .. version, SendSubmit(c, v)
      PROVE Scalars' /\ crashes' >= crashes
  BY <1>3 DEF SendSubmit
<1>4. ASSUME NEW c \in Calls, NEW t \in Texts, SendFile(c, t) PROVE Scalars' /\ crashes' >= crashes
  BY <1>4 DEF SendFile
<1>5. ASSUME NEW c \in Calls, LoseReply(c) PROVE Scalars' /\ crashes' >= crashes
  BY <1>5 DEF LoseReply
<1>6. ASSUME NEW c \in Calls, Refuse(c) \/ Pass(c) \/ Stamp(c) PROVE Scalars' /\ crashes' >= crashes
  BY <1>6 DEF Refuse, Pass, Stamp
<1>7. ASSUME NEW c \in Server, Accept(c) PROVE Scalars' /\ crashes' >= crashes
  BY <1>7 DEF Accept, Find, PutFiles, Commit, Collide
<1>8. ASSUME NEW c \in Calls, SaveBuffer(c) PROVE Scalars' /\ crashes' >= crashes
  <2>1. calls[c] # None /\ calls[c] \in Request
    BY <1>8 DEF SaveBuffer, At, Server
  <2>2. buffer' \in Buffer
    BY <2>1, <1>8 DEF SaveBuffer, Buffer, Request
  <2> QED BY <2>2, <1>8 DEF SaveBuffer
<1>9. ASSUME SweepRead \/ Mark \/ Close PROVE Scalars' /\ crashes' >= crashes
  <2>1. /\ closed' \in BOOLEAN
        /\ UNCHANGED <<screen, dirty, version, buffer, edits, sent, crashes, lost>>
    BY <1>9, Zenon DEF SweepRead, Mark, Close
  <2> QED BY <2>1
<1>10. ASSUME Publish PROVE Scalars' /\ crashes' >= crashes
  BY <1>10 DEF Publish
<1>11. ASSUME NEW c \in Server, Crash(c) PROVE Scalars' /\ crashes' >= crashes
  BY <1>11 DEF Crash
<1> QED BY <1>1, <1>2, <1>3, <1>4, <1>5, <1>6, <1>7, <1>8, <1>9, <1>10, <1>11
        DEF Next, Serve, SweepStep, Server

-----------------------------------------------------------------------------
(* The steps that move one request                                         *)

LEMMA SendKeeps ==
    ASSUME IntakeInv, Scalars', crashes' >= crashes, NEW c \in Calls,
           SendSave(c) \/ (\E v \in 1 .. version : SendSubmit(c, v))
                       \/ (\E t \in Texts : SendFile(c, t))
    PROVE  IntakeInv'
<1>1. PICK kind \in {"save", "submit", "file"}, v \in 1 .. MaxVersion, t \in Texts :
        calls' = [calls EXCEPT ![c] = New(kind, v, t)]
  <2>1. version \in 1 .. MaxVersion /\ screen \in Texts /\ MaxVersion \in Nat
    BY EditorIntakeAssumption DEF IntakeInv, TypeOK
  <2>2. CASE SendSave(c)
    BY <2>1, <2>2 DEF SendSave
  <2>3. CASE \E v \in 1 .. version : SendSubmit(c, v)
    <3>1. PICK v \in 1 .. version : SendSubmit(c, v)
      BY <2>3
    <3>2. v \in 1 .. MaxVersion
      BY <2>1
    <3> QED BY <2>1, <3>1, <3>2 DEF SendSubmit
  <2>4. CASE \E t \in Texts : SendFile(c, t)
    BY <2>1, <2>4 DEF SendFile
  <2> QED BY <2>2, <2>3, <2>4
<1>2. Fits(c, New(kind, v, t), files', subs')
  BY NewFits, EditorIntakeAssumption DEF Fits
<1>3. UNCHANGED <<files, subs, origin>>
  BY DEF SendSave, SendSubmit, SendFile, Store
<1>4. c \in Server /\ c # Sweep
  BY EditorIntakeAssumption DEF Server
<1> QED BY <1>1, <1>2, <1>3, <1>4, CallMoves DEF IntakeInv, TypeOK

\* A request goes to another stage without a word about the records.
LEMMA StepKeeps ==
    ASSUME IntakeInv, Scalars', crashes' >= crashes, NEW c \in Calls,
           LoseReply(c) \/ Refuse(c) \/ Pass(c) \/ Stamp(c)
    PROVE  IntakeInv'
<1>1. c \in Server /\ c # Sweep
  BY EditorIntakeAssumption DEF Server
<1>2. calls[c] # None
  BY DEF LoseReply, Refuse, Pass, Stamp, At
<1>3. Fits(c, calls[c], files, subs) /\ calls[c] \in Request
  BY <1>1, <1>2, RequestFits DEF Fits
<1>4. UNCHANGED <<files, subs, origin>>
  BY DEF LoseReply, Refuse, Pass, Stamp, Store
<1>5. CASE LoseReply(c)
  <2>1. Fits(c, [calls[c] EXCEPT !.heard = FALSE], files', subs')
    BY <1>3, <1>4 DEF Fits, Request
  <2> QED BY <1>1, <1>4, <1>5, <2>1, CallMoves DEF LoseReply, IntakeInv, TypeOK
<1>6. CASE Refuse(c)
  BY <1>1, <1>4, <1>6, CallMoves DEF Refuse, Done, IntakeInv, TypeOK
<1>7. CASE Pass(c)
  <2>1. \A stage \in {"stamp", "look"} :
            (stage = "stamp" => calls[c].kind = "save")
                => Fits(c, [calls[c] EXCEPT !.stage = stage], files', subs')
    BY <1>3, <1>4, <1>7 DEF Fits, Request
  <2>2. PICK stage \in {"stamp", "look"} :
            /\ stage = "stamp" => calls[c].kind = "save"
            /\ calls' = [calls EXCEPT ![c].stage = stage]
    BY <1>7 DEF Pass, Goes
  <2>3. Fits(c, [calls[c] EXCEPT !.stage = stage], files', subs')
    BY <2>1, <2>2
  <2> QED BY <1>1, <1>4, <2>2, <2>3, CallMoves DEF IntakeInv, TypeOK
<1>8. CASE Stamp(c)
  <2>1. Fits(c, [calls[c] EXCEPT !.stage = "write", !.late = closed], files', subs')
    <3>1. closed \in BOOLEAN
      BY DEF IntakeInv, TypeOK
    <3> QED BY <1>3, <1>4, <1>8, <3>1 DEF Fits, Request, Stamp, At
  <2> QED BY <1>1, <1>4, <1>8, <2>1, CallMoves DEF Stamp, IntakeInv, TypeOK
<1> QED BY <1>5, <1>6, <1>7, <1>8

\* A submission that was found or made is worked on, or is the answer.
LEMMA AnsweredFits ==
    ASSUME NEW c \in Server, NEW me, NEW s \in subs, NEW stage,
           Fits(c, me, files, subs),
           \/ stage = "end"
           \/ stage = "stamp" /\ me.kind = "submit"
           \/ stage = "mark" /\ c = Sweep /\ s.by = Sweep,
           subs \subseteq Submission
    PROVE  stage = "end" \/ Fits(c, [me EXCEPT !.stage = stage, !.sub = s], files, subs)
BY DEF Fits, Request

LEMMA FindKeeps ==
    ASSUME IntakeInv, Scalars', crashes' >= crashes, NEW c \in Server, Find(c)
    PROVE  IntakeInv'
<1> DEFINE me == calls[c]
<1>1. me # None /\ Fits(c, me, files, subs) /\ me.stage = "look"
  BY RequestFits DEF Find, At
<1>2. PICK s \in subs : Answered(c, s, AfterFound(me.kind))
  BY DEF Find, Claims
<1>3. UNCHANGED <<files, subs, origin>>
  BY DEF Find, Store
<1>4. AfterFound(me.kind) = "end" \/ Fits(c, [me EXCEPT !.stage = AfterFound(me.kind), !.sub = s], files, subs)
  <2>1. AfterFound(me.kind) = "end" \/ (AfterFound(me.kind) = "stamp" /\ me.kind = "submit")
    BY DEF AfterFound
  <2> HIDE DEF me
  <2> QED BY <1>1, <2>1, AnsweredFits DEF IntakeInv, TypeOK
<1>5. ~At(Sweep, "mark") \/ c # Sweep
  BY <1>1 DEF At
<1>6. CASE AfterFound(me.kind) = "end"
  BY <1>2, <1>3, <1>5, <1>6, CallMoves DEF Answered, IntakeInv, TypeOK
<1>7. CASE AfterFound(me.kind) # "end"
  <2>1. Fits(c, [me EXCEPT !.stage = AfterFound(me.kind), !.sub = s], files', subs')
    BY <1>3, <1>4, <1>7 DEF Fits
  <2>2. calls' = [calls EXCEPT ![c] = [me EXCEPT !.stage = AfterFound(me.kind), !.sub = s]]
    BY <1>2, <1>7 DEF Answered
  <2> QED BY <1>3, <1>5, <2>1, <2>2, CallMoves DEF IntakeInv, TypeOK
<1> QED BY <1>6, <1>7

LEMMA PutFilesKeeps ==
    ASSUME IntakeInv, Scalars', crashes' >= crashes, NEW c \in Server, PutFiles(c)
    PROVE  IntakeInv'
<1>1. calls[c] # None /\ Fits(c, calls[c], files, subs) /\ calls[c] \in Request /\ calls[c].stage = "look"
  BY RequestFits DEF PutFiles, At, Fits
<1>2. Made(c) \in Submission
  BY <1>1 DEF Made, Submission, Request
<1>3. files' = files \union {Made(c)} /\ UNCHANGED <<subs, origin>>
  BY DEF PutFiles
<1>4. Fits(c, [calls[c] EXCEPT !.stage = "commit"], files', subs')
  BY <1>1, <1>3 DEF Fits, Request, Made
<1>5. calls' = [calls EXCEPT ![c] = [calls[c] EXCEPT !.stage = "commit"]]
  BY DEF PutFiles, Goes
<1>6. files' \subseteq Submission /\ files \subseteq files'
  BY <1>2, <1>3 DEF IntakeInv, TypeOK
<1> QED BY <1>1, <1>3, <1>4, <1>5, <1>6, CallMoves DEF At

LEMMA GiveUpKeeps ==
    ASSUME IntakeInv, Scalars', crashes' >= crashes, NEW c \in Server,
           Collide(c) \/ Crash(c)
    PROVE  IntakeInv'
<1>1. UNCHANGED <<files, subs, origin>> /\ calls' = [calls EXCEPT ![c] = None]
  BY DEF Collide, Crash, Store, Done
<1>2. At(Sweep, "mark") /\ c = Sweep => crashes' > 0
  <2>1. CASE Collide(c)
    BY <2>1 DEF Collide, At
  <2>2. CASE Crash(c)
    BY <2>2 DEF Crash, IntakeInv, TypeOK
  <2> QED BY <2>1, <2>2
<1> QED BY <1>1, <1>2, CallMoves DEF IntakeInv, TypeOK

LEMMA SweepReadKeeps ==
    ASSUME IntakeInv, Scalars', crashes' >= crashes, SweepRead
    PROVE  IntakeInv'
<1>1. buffer.text \in Texts /\ version \in 1 .. MaxVersion
  BY DEF SweepRead, LeftOut, IntakeInv, TypeOK, Buffer
<1> DEFINE me == [New("auto", version, buffer.text) EXCEPT !.stage = "look"]
<1>2. calls' = [calls EXCEPT ![Sweep] = me] /\ calls[Sweep] = None
  BY DEF SweepRead
<1>3. UNCHANGED <<files, subs, origin>>
  BY DEF SweepRead, Store
<1>4. me \in Request /\ me.kind = "auto" /\ me.stage = "look"
  BY <1>1, NewFits DEF Request
<1>5. Fits(Sweep, me, files', subs')
  BY <1>4 DEF Fits
<1> HIDE DEF me
<1> QED BY <1>2, <1>3, <1>5, CallMoves DEF Server, At, IntakeInv, TypeOK

-----------------------------------------------------------------------------
(* The steps that write records                                            *)

\* The key is free: the submission made is the only one of its content.
LEMMA CommitKeeps ==
    ASSUME IntakeInv, Scalars', crashes' >= crashes, NEW c \in Server, Commit(c)
    PROVE  IntakeInv'
<1> DEFINE new == Made(c)
<1> DEFINE me == [calls[c] EXCEPT !.stage = AfterAccept(calls[c].kind), !.sub = new]
<1>1. /\ calls[c] # None /\ calls[c] \in Request /\ calls[c].stage = "commit"
      /\ Fits(c, calls[c], files, subs)
      /\ Claims(KeyOf(calls[c])) = {}
  BY RequestFits DEF Commit, At, Fits, Taken
<1>2. new \in Submission /\ new \in files /\ new.by = c /\ KeyOf(new) = KeyOf(calls[c])
  BY <1>1 DEF Fits, Made, Submission, Request, KeyOf
<1>3. subs' = subs \union {new} /\ UNCHANGED <<files, origin>>
  BY DEF Commit
<1>4. calls' = [calls EXCEPT ![c] = IF AfterAccept(calls[c].kind) = "end" THEN None ELSE me]
  BY DEF Commit, Answered
<1>5. AfterAccept(calls[c].kind) # "end" => Fits(c, me, files', subs')
  <2>1. \/ AfterAccept(calls[c].kind) = "end"
        \/ AfterAccept(calls[c].kind) = "stamp" /\ calls[c].kind = "submit"
        \/ AfterAccept(calls[c].kind) = "mark" /\ calls[c].kind = "auto" /\ c = Sweep
    BY <1>1 DEF AfterAccept, Fits, Request
  <2> QED BY <1>1, <1>2, <1>3, <2>1 DEF Fits, Request
<1> HIDE DEF new, me
<1>6. /\ calls'[c] = None \/ Fits(c, calls'[c], files', subs')
      /\ c = Sweep => calls'[c] # None /\ calls'[c].stage = "mark" /\ calls'[c].sub = new
      /\ \A d \in Server \ {c} : calls'[d] = calls[d]
  <2>1. calls'[c] = IF AfterAccept(calls[c].kind) = "end" THEN None ELSE me
    BY <1>4 DEF IntakeInv, TypeOK
  <2>2. ASSUME c = Sweep PROVE AfterAccept(calls[c].kind) = "mark"
    BY <1>1, <2>2 DEF AfterAccept, Fits
  <2>3. me.sub = new /\ me.stage = AfterAccept(calls[c].kind)
    BY <1>1 DEF me, Request
  <2>4. ASSUME c = Sweep PROVE me # None
    <3>1. calls'[c] = me
      BY <2>1, <2>2, <2>4
    <3>2. me.sub \in Submission /\ me \in Request
      BY <1>2, <1>5, <2>2, <2>3, <2>4 DEF Fits
    <3> QED BY <3>2, EditorIntakeAssumption
  <2> QED BY <1>4, <1>5, <2>1, <2>2, <2>3, <2>4 DEF IntakeInv, TypeOK
<1>7. \A d \in Server : calls'[d] # None => Fits(d, calls'[d], files', subs')
  <2> SUFFICES ASSUME NEW d \in Server \ {c}, calls[d] # None
               PROVE  Fits(d, calls[d], files', subs')
    BY <1>6
  <2> QED BY <1>3, RequestFits DEF Fits
<1>8. TypeOK'
  <2>1. calls' \in [Server -> Request \union {None}]
    BY <1>4, <1>7 DEF Fits, IntakeInv, TypeOK
  <2> QED BY <1>2, <1>3, <1>7, <2>1 DEF Scalars, TypeOK, IntakeInv, At, Fits
<1>9. SubmissionsSound'
  BY <1>1, <1>2, <1>3 DEF IntakeInv, SubmissionsSound, Claims, KeyOf
<1>10. MarksTell'
  <2>1. origin[new] = None
    <3>1. new \notin subs
      BY <1>1, <1>2 DEF Claims
    <3> QED BY <1>2, <3>1 DEF IntakeInv, TypeOK
  <2>2. c = Sweep => ~At(Sweep, "mark")
    BY <1>1 DEF At
  <2>3. crashes > 0 => crashes' > 0
    BY DEF IntakeInv, TypeOK, Scalars
  <2>5. ASSUME NEW s \in subs, s.by = Sweep, origin[s] = None, ~(crashes' > 0)
        PROVE  (At(Sweep, "mark") /\ calls[Sweep].sub = s)'
    <3>1. At(Sweep, "mark") /\ calls[Sweep].sub = s
      BY <2>3, <2>5 DEF IntakeInv, MarksTell
    <3>2. c # Sweep /\ calls'[Sweep] = calls[Sweep]
      BY <1>6, <2>2, <3>1 DEF Server
    <3> QED BY <3>1, <3>2 DEF At
  <2>6. c = Sweep => At(Sweep, "mark")' /\ calls'[Sweep].sub = new
    BY <1>6 DEF At
  <2> SUFFICES ASSUME NEW s \in subs'
               PROVE  /\ origin[s] = "auto_close" => s.by = Sweep
                      /\ s.by = Sweep /\ origin[s] = None /\ ~(crashes' > 0) =>
                            At(Sweep, "mark")' /\ calls'[Sweep].sub = s
    BY <1>3 DEF MarksTell
  <2>7. CASE s = new
    BY <1>2, <2>1, <2>6, <2>7, NoneIsNoOrigin
  <2>8. CASE s \in subs
    BY <2>5, <2>8 DEF IntakeInv, MarksTell
  <2> QED BY <1>3, <2>7, <2>8
<1>11. UnderWay'
  BY <1>7 DEF UnderWay, Fits, At, Made, Server
<1> QED BY <1>8, <1>9, <1>10, <1>11 DEF IntakeInv

\* The buffer is written over, and the origin of a submission is recorded.
LEMMA SaveBufferKeeps ==
    ASSUME IntakeInv, Scalars', crashes' >= crashes, NEW c \in Calls, SaveBuffer(c)
    PROVE  IntakeInv'
<1> DEFINE s == calls[c].sub
<1>1. c \in Server /\ c # Sweep
  BY EditorIntakeAssumption DEF Server
<1>2. calls[c] # None /\ Fits(c, calls[c], files, subs) /\ calls[c].stage = "write"
  BY <1>1, RequestFits DEF SaveBuffer, At
<1>3. \/ origin' = origin
      \/ s \in subs /\ origin' = [origin EXCEPT ![s] = IF @ = None THEN "editor" ELSE @]
  BY <1>2 DEF SaveBuffer, Recorded, Fits
<1> HIDE DEF s
<1>4. UNCHANGED <<subs, files>> /\ calls' = [calls EXCEPT ![c] = None]
  BY DEF SaveBuffer, Done
<1>5. /\ calls'[c] = None
      /\ \A d \in Server \ {c} : calls'[d] = calls[d]
  BY <1>1, <1>4 DEF IntakeInv, TypeOK
<1>6. /\ origin' \in [Submission -> {None, "editor", "auto_close"}]
      /\ \A t \in Submission : origin'[t] # None => t \in subs
      /\ \A t \in Submission : origin'[t] = "auto_close" => origin[t] = "auto_close"
      /\ \A t \in Submission : origin'[t] = None => origin[t] = None
  BY <1>3 DEF IntakeInv, TypeOK
<1>7. \A d \in Server : calls'[d] # None => Fits(d, calls'[d], files', subs')
  BY <1>4, <1>5, RequestFits
<1>8. TypeOK'
  <2>1. calls' \in [Server -> Request \union {None}]
    BY <1>4, <1>7 DEF Fits, IntakeInv, TypeOK
  <2> QED BY <1>4, <1>6, <1>7, <2>1 DEF Scalars, TypeOK, IntakeInv, At, Fits
<1>9. SubmissionsSound'
  BY <1>4 DEF IntakeInv, SubmissionsSound, KeyOf
<1>10. MarksTell'
  <2>1. crashes > 0 => crashes' > 0
    BY DEF IntakeInv, TypeOK, Scalars
  <2>2. calls'[Sweep] = calls[Sweep]
    BY <1>1, <1>5 DEF Server
  <2> QED BY <1>4, <1>6, <2>1, <2>2 DEF MarksTell, IntakeInv, TypeOK, At
<1>11. UnderWay'
  BY <1>7 DEF UnderWay, Fits, At, Made, Server
<1> QED BY <1>8, <1>9, <1>10, <1>11 DEF IntakeInv

\* The sweep marks what it has made.
LEMMA MarkKeeps ==
    ASSUME IntakeInv, Scalars', crashes' >= crashes, Mark
    PROVE  IntakeInv'
<1> DEFINE s == calls[Sweep].sub
<1>1. At(Sweep, "mark") /\ s \in subs /\ s.by = Sweep
  BY DEF Mark, IntakeInv, TypeOK, UnderWay, Server, At
<1>2. /\ origin' = [origin EXCEPT ![s] = IF @ = None THEN "auto_close" ELSE @]
      /\ UNCHANGED <<subs, files>>
      /\ calls' = [calls EXCEPT ![Sweep] = None]
  BY DEF Mark, Recorded, Done
<1>3. /\ calls'[Sweep] = None
      /\ \A d \in Server \ {Sweep} : calls'[d] = calls[d]
  BY <1>2 DEF IntakeInv, TypeOK, Server
<1>4. \A t \in subs : s.by = Sweep /\ origin[t] = None /\ t # s /\ t.by = Sweep => crashes > 0
  BY <1>1 DEF IntakeInv, MarksTell
<1>5. s \in Submission
  BY <1>1 DEF IntakeInv, TypeOK
<1>6. origin[s] \in {None, "editor", "auto_close"} /\ None # "auto_close"
  BY <1>5, NoneIsNoOrigin DEF IntakeInv, TypeOK
<1> HIDE DEF s
<1>7. /\ origin' \in [Submission -> {None, "editor", "auto_close"}]
      /\ \A t \in Submission : origin'[t] # None => t \in subs
      /\ \A t \in Submission \ {s} : origin'[t] = origin[t]
      /\ origin'[s] # None
  BY <1>1, <1>2, <1>5, <1>6, NoneIsNoOrigin DEF IntakeInv, TypeOK
<1>8. \A d \in Server : calls'[d] # None => Fits(d, calls'[d], files', subs')
  BY <1>2, <1>3, RequestFits
<1>9. TypeOK'
  <2>1. calls' \in [Server -> Request \union {None}]
    BY <1>2, <1>8 DEF Fits, IntakeInv, TypeOK
  <2> QED BY <1>2, <1>7, <1>8, <2>1 DEF Scalars, TypeOK, IntakeInv, At, Fits
<1>10. SubmissionsSound'
  BY <1>2 DEF IntakeInv, SubmissionsSound, KeyOf
<1>11. MarksTell'
  <2>1. crashes > 0 => crashes' > 0
    BY DEF IntakeInv, TypeOK, Scalars
  <2>2. \A t \in subs : t \in Submission
    BY DEF IntakeInv, TypeOK
  <2> QED BY <1>1, <1>2, <1>4, <1>7, <2>1, <2>2 DEF MarksTell, IntakeInv
<1>12. UnderWay'
  BY <1>8 DEF UnderWay, Fits, At, Made, Server
<1> QED BY <1>9, <1>10, <1>11, <1>12 DEF IntakeInv

-----------------------------------------------------------------------------
(* The theorems                                                            *)

LEMMA StutterKeeps == IntakeInv /\ UNCHANGED vars => IntakeInv'
<1> SUFFICES ASSUME IntakeInv, UNCHANGED vars PROVE IntakeInv'
  OBVIOUS
<1>1. TypeOK'
  BY DEF vars, IntakeInv, TypeOK, At
<1>2. SubmissionsSound' /\ MarksTell' /\ UnderWay'
  BY DEF vars, IntakeInv, SubmissionsSound, MarksTell, UnderWay, KeyOf, Made, At
<1> QED BY <1>1, <1>2 DEF IntakeInv

LEMMA WorldKeeps ==
    ASSUME IntakeInv, Scalars', crashes' >= crashes,
           (\E t \in Texts : Type(t)) \/ Close \/ Publish
    PROVE  IntakeInv'
<1>1. UNCHANGED <<files, subs, origin, calls>>
  BY DEF Type, Close, Publish, Store
<1>2. TypeOK'
  BY <1>1 DEF IntakeInv, TypeOK, Scalars, At
<1>3. crashes > 0 => crashes' > 0
  BY DEF IntakeInv, TypeOK, Scalars
<1>4. SubmissionsSound' /\ MarksTell' /\ UnderWay'
  BY <1>1, <1>3 DEF IntakeInv, SubmissionsSound, MarksTell, UnderWay, KeyOf, Made, At
<1> QED BY <1>2, <1>4 DEF IntakeInv

LEMMA NextKeeps == IntakeInv /\ [Next]_vars => IntakeInv'
<1> SUFFICES ASSUME IntakeInv, Next PROVE IntakeInv'
  BY StutterKeeps
<1>1. Scalars' /\ crashes' >= crashes
  BY ScalarsKept
<1>2. CASE (\E t \in Texts : Type(t)) \/ Close \/ Publish
  BY <1>1, <1>2, WorldKeeps
<1>3. ASSUME NEW c \in Calls,
             SendSave(c) \/ (\E v \in 1 .. version : SendSubmit(c, v))
                         \/ (\E t \in Texts : SendFile(c, t))
      PROVE IntakeInv'
  BY <1>1, <1>3, SendKeeps
<1>4. ASSUME NEW c \in Calls, LoseReply(c) \/ Refuse(c) \/ Pass(c) \/ Stamp(c) PROVE IntakeInv'
  BY <1>1, <1>4, StepKeeps
<1>5. ASSUME NEW c \in Server, Accept(c) PROVE IntakeInv'
  BY <1>1, <1>5, FindKeeps, PutFilesKeeps, CommitKeeps, GiveUpKeeps DEF Accept
<1>6. ASSUME NEW c \in Calls, SaveBuffer(c) PROVE IntakeInv'
  BY <1>1, <1>6, SaveBufferKeeps
<1>7. CASE SweepRead
  BY <1>1, <1>7, SweepReadKeeps
<1>8. CASE Mark
  BY <1>1, <1>8, MarkKeeps
<1>9. ASSUME NEW c \in Server, Crash(c) PROVE IntakeInv'
  BY <1>1, <1>9, GiveUpKeeps
<1> QED BY <1>2, <1>3, <1>4, <1>5, <1>6, <1>7, <1>8, <1>9 DEF Next, Serve, SweepStep, Server

\* The inductive invariant holds of every behaviour.
THEOREM IntakeInvariant == Spec => []IntakeInv
<1>1. Init => IntakeInv
  BY InitHolds
<1>2. IntakeInv /\ [Next]_vars => IntakeInv'
  BY NextKeeps
<1> QED BY <1>1, <1>2, PTL DEF Spec

\* Every variable keeps its type, and every request what its stage works with.
THEOREM IntakeTyped == Spec => []TypeOK
<1>1. IntakeInv => TypeOK
  BY DEF IntakeInv
<1> QED BY <1>1, IntakeInvariant, PTL

\* One version gets one submission of one content, and the content is stored,
\* however the requests and the sweep overlap (SubmissionService.accept).
THEOREM OneSubmissionOfAContent == Spec => []SubmissionsSound
<1>1. IntakeInv => SubmissionsSound
  BY DEF IntakeInv
<1> QED BY <1>1, IntakeInvariant, PTL

\* The marks of automatic submissions tell the truth (autosubmit._close_one).
THEOREM MarksTellTheTruth == Spec => []MarksTell
<1>1. IntakeInv => MarksTell
  BY DEF IntakeInv
<1> QED BY <1>1, IntakeInvariant, PTL

=============================================================================
