-------------------------- MODULE SkillRelayProofs --------------------------
(***************************************************************************)
(* With one relay process, RelayInv is an inductive invariant of           *)
(* SkillRelay for any tasks, submissions, batch and bounds, and with it    *)
(* the safety properties that the run of MCSkillRelay checks.  One lemma   *)
(* per action; the write of the subscriber is where the parts meet.        *)
(***************************************************************************)
EXTENDS SkillRelay, TLAPS

\* A process with nothing to do is a process.
LEMMA IdleIsProcess == Idle \in Process
BY DEF Idle, Process

\* An event takes a task.
LEMMA EventTask ==
    ASSUME NEW e \in Event
    PROVE  /\ TaskOf[e.sub] \in Tasks
           /\ e.sub \in Nat /\ e.at \in Nat
           /\ e # None
<1>1. e.at \in 1 .. MaxRuns /\ e.sub \in Submission
  BY DEF Event
<1>2. e # None
  BY SkillRelayAssumption
<1>3. e.at \in Nat
  BY <1>1
<1>4. e.sub \in Nat /\ TaskOf[e.sub] \in Tasks
  BY <1>1, SkillRelayAssumption
<1> QED BY <1>2, <1>3, <1>4

LEMMA InitHolds == Init => RelayInv
<1> SUFFICES ASSUME Init PROVE RelayInv
  OBVIOUS
<1>1. TypeOK
  BY IdleIsProcess DEF Init, TypeOK, Idle
<1>2. RecordsSound /\ DeliveredAbsorbed /\ ListedIsCurrent /\ NothingLost
  BY DEF Init, RecordsSound, DeliveredAbsorbed, ListedIsCurrent, NothingLost, Idle
<1>3. MasteryFollows
  BY DEF Init, MasteryFollows, Fold
<1> QED BY <1>1, <1>2, <1>3 DEF RelayInv

\* A grading recorded: nothing delivered or observed changes.
LEMMA RecordKeeps ==
    ASSUME RelayInv, NEW e \in Event, Record(e)
    PROVE  RelayInv'
<1>1. TypeOK'
  BY DEF RelayInv, TypeOK, Record
<1>2. RecordsSound'
  BY DEF RelayInv, RecordsSound, Record
<1>3. MasteryFollows' /\ NothingLost' /\ DeliveredAbsorbed'
  BY DEF RelayInv, MasteryFollows, Fold, NothingLost, DeliveredAbsorbed, Absorbed, Record
<1>4. ListedIsCurrent'
  BY DEF RelayInv, RecordsSound, ListedIsCurrent, NextUp, Outdated, Record
<1> QED BY <1>1, <1>2, <1>3, <1>4 DEF RelayInv

\* A relay goes from one stage to another without touching the records.
LEMMA RelayMoves ==
    ASSUME RelayInv, NEW r \in Relays, NEW me \in Process,
           relays' = [relays EXCEPT ![r] = me],
           UNCHANGED <<outbox, published, obs, mastery, absorbed>>,
           failures' \in Nat, crashes' \in Nat,
           me.todo \cap me.delivered = {},
           me.todo \subseteq outbox, me.delivered \subseteq outbox,
           me.stage = "idle" => me = Idle,
           me.stage = "applying" =>
                /\ me.todo # {}
                /\ me.seen = obs
                /\ \A e \in outbox : e \in me.todo /\ (\A d \in me.todo : e.at <= d.at) =>
                        e.counted /\ ~Outdated(e, obs),
           \A e \in me.delivered : Absorbed(e)
    PROVE  RelayInv'
<1>1. /\ relays'[r] = me
      /\ \A s \in Relays \ {r} : relays'[s] = relays[s]
  BY DEF RelayInv, TypeOK
<1>2. TypeOK'
  BY <1>1 DEF RelayInv, TypeOK
<1>3. RecordsSound'
  BY <1>1 DEF RelayInv, RecordsSound
<1>4. MasteryFollows' /\ NothingLost'
  BY DEF RelayInv, MasteryFollows, Fold, NothingLost, Absorbed
<1>5. DeliveredAbsorbed'
  BY <1>1 DEF RelayInv, DeliveredAbsorbed, Absorbed
<1>6. ListedIsCurrent'
  BY <1>1 DEF RelayInv, ListedIsCurrent, NextUp, Outdated
<1> QED BY <1>2, <1>3, <1>4, <1>5, <1>6 DEF RelayInv

LEMMA DrainReadKeeps ==
    ASSUME RelayInv, NEW r \in Relays, DrainRead(r)
    PROVE  RelayInv'
<1> DEFINE batch == {e \in Unpublished :
                       Cardinality({d \in Unpublished : d.at < e.at}) < Batch}
<1> DEFINE me == [Idle EXCEPT !.stage = "delivering", !.todo = batch]
<1>1. batch \subseteq outbox /\ outbox \subseteq Event
  BY DEF Unpublished, RelayInv, TypeOK
<1>2. relays' = [relays EXCEPT ![r] = me]
  BY DEF DrainRead
<1> HIDE DEF batch
<1>3. /\ me \in Process
      /\ me.stage = "delivering" /\ me.todo = batch /\ me.delivered = {}
  BY <1>1, IdleIsProcess DEF Process, Idle
<1> HIDE DEF me
<1>4. /\ me.todo \subseteq outbox /\ me.delivered \subseteq outbox
      /\ me.todo \cap me.delivered = {}
      /\ \A e \in me.delivered : Absorbed(e)
  BY <1>1, <1>3
<1>5. /\ UNCHANGED <<outbox, published, obs, mastery, absorbed>>
      /\ failures' \in Nat /\ crashes' \in Nat
  BY DEF DrainRead, RelayInv, TypeOK
<1> QED BY <1>2, <1>3, <1>4, <1>5, RelayMoves

\* What the subscriber leaves out had its effect before, or never has one.
LEMMA PassedIsAbsorbed ==
    ASSUME RelayInv, NEW e \in outbox, ~e.counted \/ Known(e, obs) \/ Outdated(e, obs)
    PROVE  Absorbed(e)
<1>1. e \in Event /\ TaskOf[e.sub] \in Tasks /\ e.sub \in Nat
  BY EventTask DEF RelayInv, TypeOK
<1>2. CASE ~e.counted
  BY <1>2 DEF Absorbed
<1>3. CASE Known(e, obs)
  <2>1. PICK t \in Tasks : obs[t] # None /\ obs[t].at = e.at
    BY <1>3 DEF Known
  <2>2. obs[t] = e /\ TaskOf[e.sub] = t
    BY <2>1 DEF RelayInv, RecordsSound
  <2> QED BY <1>1, <2>1, <2>2 DEF Absorbed
<1>4. CASE Outdated(e, obs)
  <2>1. obs[TaskOf[e.sub]] \in Event
    BY <1>1, <1>4 DEF Outdated, RelayInv, TypeOK
  <2>2. obs[TaskOf[e.sub]].sub \in Nat
    BY <2>1, EventTask
  <2> QED BY <1>1, <1>4, <2>2 DEF Absorbed, Outdated
<1> QED BY <1>2, <1>3, <1>4

LEMMA PassKeeps ==
    ASSUME RelayInv, NEW r \in Relays, NEW e \in outbox, Pass(r, e)
    PROVE  RelayInv'
<1> DEFINE me == Delivered(relays[r], e)
<1>1. Absorbed(e)
  BY PassedIsAbsorbed DEF Pass
<1>2. relays[r] \in Process /\ outbox \subseteq Event
  BY DEF RelayInv, TypeOK
<1>3. /\ me \in Process
      /\ me.stage = "delivering"
      /\ me.todo = relays[r].todo \ {e}
      /\ me.delivered = relays[r].delivered \union {e}
  BY <1>2 DEF Delivered, Process
<1>4. relays' = [relays EXCEPT ![r] = me]
  BY DEF Pass, RelayInv, TypeOK
<1> HIDE DEF me
<1>5. \A d \in me.delivered : Absorbed(d)
  BY <1>1, <1>3 DEF RelayInv, DeliveredAbsorbed
<1>6. /\ me.todo \subseteq outbox /\ me.delivered \subseteq outbox
      /\ me.todo \cap me.delivered = {}
  BY <1>3 DEF RelayInv, RecordsSound, TypeOK
<1> QED BY <1>3, <1>4, <1>5, <1>6, RelayMoves DEF Pass, RelayInv, TypeOK

LEMMA ApplyReadKeeps ==
    ASSUME RelayInv, NEW r \in Relays, NEW e \in outbox, ApplyRead(r, e)
    PROVE  RelayInv'
<1> DEFINE me == [relays[r] EXCEPT !.stage = "applying", !.seen = obs]
<1>1. relays[r] \in Process /\ outbox \subseteq Event /\ obs \in [Tasks -> Event \union {None}]
  BY DEF RelayInv, TypeOK
<1>2. /\ me \in Process
      /\ me.stage = "applying" /\ me.seen = obs
      /\ me.todo = relays[r].todo /\ me.delivered = relays[r].delivered
  BY <1>1 DEF Process
<1>3. relays' = [relays EXCEPT ![r] = me]
  BY DEF ApplyRead, RelayInv, TypeOK
<1> HIDE DEF me
<1>4. \A d \in outbox : d \in me.todo /\ (\A c \in me.todo : d.at <= c.at) => d = e
  <2> SUFFICES ASSUME NEW d \in outbox, d \in me.todo, \A c \in me.todo : d.at <= c.at
               PROVE  d = e
    OBVIOUS
  <2>1. e \in me.todo /\ e.at <= d.at /\ d.at <= e.at
    BY <1>2 DEF ApplyRead, NextUp
  <2>2. e.at \in Nat /\ d.at \in Nat
    BY <1>1, EventTask
  <2>3. d.at = e.at
    BY <2>1, <2>2
  <2> QED BY <2>3 DEF RelayInv, RecordsSound
<1>5. /\ me.todo # {} /\ me.todo \subseteq outbox /\ me.delivered \subseteq outbox
      /\ me.todo \cap me.delivered = {}
      /\ \A d \in me.delivered : Absorbed(d)
  BY <1>2 DEF ApplyRead, NextUp, RelayInv, RecordsSound, TypeOK, DeliveredAbsorbed
<1>6. \A d \in outbox : d \in me.todo /\ (\A c \in me.todo : d.at <= c.at) =>
            d.counted /\ ~Outdated(d, obs)
  BY <1>4 DEF ApplyRead
<1>7. /\ UNCHANGED <<outbox, published, obs, mastery, absorbed>>
      /\ failures' \in Nat /\ crashes' \in Nat
  BY DEF ApplyRead, RelayInv, TypeOK
<1> QED BY <1>2, <1>3, <1>5, <1>6, <1>7, RelayMoves

\* Replacing an observation by one of the same or a later submission.
LEMMA ReplacingAdvances ==
    ASSUME RelayInv, NEW e \in outbox, ~Outdated(e, obs),
           obs' = [obs EXCEPT ![TaskOf[e.sub]] = e]
    PROVE  /\ obs' \in [Tasks -> Event \union {None}]
           /\ e.counted => Absorbed(e)'
           /\ \A t \in Tasks : obs[t] # None => obs'[t] # None /\ obs'[t].sub >= obs[t].sub
           /\ \A d \in outbox : Absorbed(d) => Absorbed(d)'
<1>1. /\ e \in Event /\ outbox \subseteq Event /\ obs \in [Tasks -> Event \union {None}]
      /\ TaskOf[e.sub] \in Tasks /\ e.sub \in Nat /\ e # None
  BY EventTask DEF RelayInv, TypeOK
<1>2. obs' \in [Tasks -> Event \union {None}]
  BY <1>1
<1>3. obs'[TaskOf[e.sub]] = e /\ \A t \in Tasks \ {TaskOf[e.sub]} : obs'[t] = obs[t]
  BY <1>1
<1>4. \A t \in Tasks : obs[t] # None => obs[t].sub \in Nat
  BY <1>1, EventTask
<1>5. \A t \in Tasks : obs[t] # None => obs'[t] # None /\ obs'[t].sub >= obs[t].sub
  <2> SUFFICES ASSUME NEW t \in Tasks, obs[t] # None
               PROVE  obs'[t] # None /\ obs'[t].sub >= obs[t].sub
    OBVIOUS
  <2>1. CASE t = TaskOf[e.sub]
    BY <1>1, <1>3, <1>4, <2>1 DEF Outdated
  <2>2. CASE t # TaskOf[e.sub]
    BY <1>3, <1>4, <2>2
  <2> QED BY <2>1, <2>2
<1>6. e.counted => Absorbed(e)'
  BY <1>1, <1>3 DEF Absorbed
<1>7. ASSUME NEW d \in outbox, Absorbed(d)
      PROVE  Absorbed(d)'
  <2>1. TaskOf[d.sub] \in Tasks /\ d.sub \in Nat
    BY <1>1, EventTask
  <2>2. \A t \in Tasks : obs'[t] # None => obs'[t].sub \in Nat
    BY <1>2, EventTask
  <2> QED BY <1>4, <1>5, <1>7, <2>1, <2>2 DEF Absorbed
<1> QED BY <1>2, <1>5, <1>6, <1>7

\* The observation is replaced and the mastery made of what is kept: what the
\* subscriber listed is still what there is.
LEMMA ApplyWriteKeeps ==
    ASSUME SingleRelay, RelayInv, NEW r \in Relays, NEW e \in outbox, ApplyWrite(r, e)
    PROVE  RelayInv'
<1> DEFINE me == [Delivered(relays[r], e) EXCEPT !.seen = Idle.seen]
<1>1. /\ e \in Event /\ outbox \subseteq Event /\ relays[r] \in Process
      /\ relays \in [Relays -> Process]
  BY DEF RelayInv, TypeOK
<1>2. /\ me \in Process
      /\ me.stage = "delivering"
      /\ me.todo = relays[r].todo \ {e}
      /\ me.delivered = relays[r].delivered \union {e}
  BY <1>1, IdleIsProcess DEF Delivered, Process, Idle
<1>3. relays' = [relays EXCEPT ![r] = me]
  BY DEF ApplyWrite
<1> HIDE DEF me
<1>4. /\ \A s \in Relays : relays'[s] = me
      /\ relays' \in [Relays -> Process]
  BY <1>1, <1>2, <1>3 DEF SingleRelay
<1>5. e.counted /\ ~Outdated(e, obs) /\ relays[r].seen = obs
  BY DEF ApplyWrite, RelayInv, ListedIsCurrent
<1>6. obs' = [obs EXCEPT ![TaskOf[e.sub]] = e]
  BY DEF ApplyWrite
<1>7. /\ obs' \in [Tasks -> Event \union {None}]
      /\ Absorbed(e)'
      /\ \A d \in outbox : Absorbed(d) => Absorbed(d)'
  BY <1>5, <1>6, ReplacingAdvances
<1>8. MasteryFollows'
  BY <1>5, <1>6 DEF ApplyWrite, MasteryFollows, Folded, Fold
<1>9. TypeOK'
  <2>1. mastery' \subseteq Event
    BY <1>7, <1>8 DEF MasteryFollows, Fold
  <2>2. me.todo \cap me.delivered = {}
    BY <1>2 DEF RelayInv, TypeOK
  <2> QED BY <1>1, <1>2, <1>4, <1>7, <2>1, <2>2 DEF ApplyWrite, RelayInv, TypeOK
<1>10. RecordsSound'
  <2>1. \A t \in Tasks : obs'[t] # None =>
            obs'[t] \in outbox /\ obs'[t].counted /\ TaskOf[obs'[t].sub] = t
    BY <1>5, <1>6 DEF RelayInv, RecordsSound, TypeOK
  <2>2. me.todo \subseteq outbox /\ me.delivered \subseteq outbox
    BY <1>2 DEF RelayInv, RecordsSound
  <2>3. outbox' = outbox /\ \A d, b \in outbox : d.at = b.at => d = b
    BY DEF ApplyWrite, RelayInv, RecordsSound
  <2>4. \A s \in Relays : relays'[s].todo \subseteq outbox /\ relays'[s].delivered \subseteq outbox
    BY <1>4, <2>2
  <2> QED BY <2>1, <2>3, <2>4 DEF RecordsSound
<1>11. NothingLost'
  BY <1>7 DEF ApplyWrite, RelayInv, NothingLost, TypeOK
<1>12. DeliveredAbsorbed'
  <2>1. \A d \in me.delivered : Absorbed(d)'
    BY <1>2, <1>7 DEF RelayInv, DeliveredAbsorbed, RecordsSound
  <2> QED BY <1>4, <2>1 DEF DeliveredAbsorbed
<1>13. ListedIsCurrent'
  BY <1>2, <1>4 DEF ListedIsCurrent
<1> QED BY <1>8, <1>9, <1>10, <1>11, <1>12, <1>13 DEF RelayInv

\* A failed event leaves the batch and is not counted as delivered.
LEMMA HandlerFailsKeeps ==
    ASSUME RelayInv, NEW r \in Relays, NEW e \in outbox, HandlerFails(r, e)
    PROVE  RelayInv'
<1> DEFINE me == LeftForLater(relays[r], e)
<1>1. relays[r] \in Process
  BY DEF RelayInv, TypeOK
<1>2. /\ me \in Process
      /\ me.stage = "delivering"
      /\ me.todo = relays[r].todo \ {e}
      /\ me.delivered = relays[r].delivered
  BY <1>1, IdleIsProcess DEF LeftForLater, Process, Idle
<1>3. relays' = [relays EXCEPT ![r] = me]
  BY DEF HandlerFails
<1> HIDE DEF me
<1>4. /\ me.todo \subseteq outbox /\ me.delivered \subseteq outbox
      /\ me.todo \cap me.delivered = {}
      /\ \A d \in me.delivered : Absorbed(d)
  BY <1>2 DEF RelayInv, RecordsSound, TypeOK, DeliveredAbsorbed
<1>5. /\ UNCHANGED <<outbox, published, obs, mastery, absorbed>>
      /\ failures' \in Nat /\ crashes' \in Nat
  BY DEF HandlerFails, RelayInv, TypeOK
<1> QED BY <1>2, <1>3, <1>4, <1>5, RelayMoves

\* A process that dies, or is done, is idle.
LEMMA CrashKeeps ==
    ASSUME RelayInv, NEW r \in Relays, Crash(r)
    PROVE  RelayInv'
<1>1. /\ Idle.stage = "idle" /\ Idle.todo = {} /\ Idle.delivered = {}
  BY DEF Idle
<1>2. /\ relays' = [relays EXCEPT ![r] = Idle]
      /\ UNCHANGED <<outbox, published, obs, mastery, absorbed>>
      /\ failures' \in Nat /\ crashes' \in Nat
  BY DEF Crash, RelayInv, TypeOK
<1> QED BY <1>1, <1>2, IdleIsProcess, RelayMoves

LEMMA MarkPublishedKeeps ==
    ASSUME RelayInv, NEW r \in Relays, MarkPublished(r)
    PROVE  RelayInv'
<1>1. /\ Idle.stage = "idle" /\ Idle.todo = {} /\ Idle.delivered = {}
  BY DEF Idle
<1>2. /\ relays' = [relays EXCEPT ![r] = Idle]
      /\ relays'[r] = Idle
      /\ \A s \in Relays \ {r} : relays'[s] = relays[s]
  BY DEF MarkPublished, RelayInv, TypeOK
<1>3. TypeOK'
  <2>1. relays' \in [Relays -> Process]
    BY <1>2, IdleIsProcess DEF RelayInv, TypeOK
  <2>2. \A s \in Relays :
          /\ relays'[s].todo \cap relays'[s].delivered = {}
          /\ relays'[s].stage = "idle" => relays'[s] = Idle
          /\ relays'[s].stage = "applying" => relays'[s].todo # {}
    BY <1>1, <1>2 DEF RelayInv, TypeOK
  <2>3. published' \subseteq outbox
    BY DEF MarkPublished, RelayInv, TypeOK, RecordsSound
  <2> QED BY <2>1, <2>2, <2>3 DEF MarkPublished, RelayInv, TypeOK
<1>4. RecordsSound'
  BY <1>1, <1>2 DEF MarkPublished, RelayInv, RecordsSound
<1>5. MasteryFollows' /\ NothingLost'
  BY DEF MarkPublished, RelayInv, MasteryFollows, Fold, NothingLost, Absorbed, DeliveredAbsorbed
<1>6. DeliveredAbsorbed'
  BY <1>1, <1>2 DEF MarkPublished, RelayInv, DeliveredAbsorbed, Absorbed
<1>7. ListedIsCurrent'
  BY <1>1, <1>2 DEF MarkPublished, RelayInv, ListedIsCurrent, NextUp, Outdated
<1> QED BY <1>3, <1>4, <1>5, <1>6, <1>7 DEF RelayInv

LEMMA NextKeeps ==
    ASSUME SingleRelay, RelayInv, [Next]_vars
    PROVE  RelayInv'
<1>1. CASE UNCHANGED vars
  BY <1>1 DEF vars, RelayInv, TypeOK, RecordsSound, MasteryFollows, Fold, NothingLost, Absorbed,
      DeliveredAbsorbed, ListedIsCurrent, NextUp, Outdated
<1>2. CASE \E e \in Event : Record(e)
  BY <1>2, RecordKeeps
<1>3. CASE \E r \in Relays : Deliver(r)
  BY <1>3, DrainReadKeeps, PassKeeps, ApplyReadKeeps, ApplyWriteKeeps, MarkPublishedKeeps
      DEF Deliver
<1>4. CASE \E r \in Relays : Crash(r)
  BY <1>4, CrashKeeps
<1>5. CASE \E r \in Relays : \E e \in outbox : HandlerFails(r, e)
  BY <1>5, HandlerFailsKeeps
<1> QED BY <1>1, <1>2, <1>3, <1>4, <1>5 DEF Next

-----------------------------------------------------------------------------
(* What follows                                                            *)

\* With one relay the invariant always holds.
THEOREM RelayInvariant ==
    ASSUME SingleRelay
    PROVE  Spec => []RelayInv
<1>1. RelayInv /\ [Next]_vars => RelayInv'
  BY NextKeeps
<1> QED BY <1>1, InitHolds, PTL DEF Spec

\* Every variable keeps its type.
THEOREM RelayTyped ==
    ASSUME SingleRelay
    PROVE  Spec => []TypeOK
<1>1. RelayInv => TypeOK
  BY DEF RelayInv
<1> QED BY <1>1, RelayInvariant, PTL

\* The mastery is always made of the observations kept.
THEOREM MasteryIsOfObservations ==
    ASSUME SingleRelay
    PROVE  Spec => []MasteryFollows
<1>1. RelayInv => MasteryFollows
  BY DEF RelayInv
<1> QED BY <1>1, RelayInvariant, PTL

\* What is published has had its effect.
THEOREM PublishedIsAbsorbed ==
    ASSUME SingleRelay
    PROVE  Spec => []NothingLost
<1>1. RelayInv => NothingLost
  BY DEF RelayInv
<1> QED BY <1>1, RelayInvariant, PTL

\* An earlier submission never takes the place of a later one.
THEOREM ObservationsAdvance ==
    ASSUME SingleRelay
    PROVE  Spec => SubmissionsAdvance
<1> DEFINE Advance ==
        \A t \in Tasks : obs[t] # None => obs'[t] # None /\ obs'[t].sub >= obs[t].sub
<1>1. ASSUME RelayInv, [Next]_vars
      PROVE  [Advance]_vars
  <2>1. CASE obs' = obs
    <3>1. \A t \in Tasks : obs[t] # None => obs[t].sub \in Nat
      BY <1>1, EventTask DEF RelayInv, TypeOK
    <3> QED BY <2>1, <3>1
  <2>2. CASE \E r \in Relays : \E e \in outbox : ApplyWrite(r, e)
    <3>1. PICK r \in Relays, e \in outbox : ApplyWrite(r, e)
      BY <2>2
    <3>2. ~Outdated(e, obs) /\ obs' = [obs EXCEPT ![TaskOf[e.sub]] = e]
      BY <1>1, <3>1 DEF ApplyWrite, RelayInv, ListedIsCurrent
    <3> QED BY <1>1, <3>2, ReplacingAdvances
  <2>3. obs' = obs \/ \E r \in Relays : \E e \in outbox : ApplyWrite(r, e)
    BY <1>1 DEF Next, vars, Record, Deliver, DrainRead, Pass, ApplyRead, MarkPublished,
        Crash, HandlerFails
  <2> QED BY <2>1, <2>2, <2>3
<1>2. RelayInv /\ [Next]_vars => [Advance]_vars
  BY <1>1
<1> QED BY <1>2, RelayInvariant, PTL DEF Spec, SubmissionsAdvance

=============================================================================
