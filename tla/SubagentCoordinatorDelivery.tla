-------------------- MODULE SubagentCoordinatorDelivery --------------------
(***************************************************************************)
(* Proofs about what happens to the result of a child: those who wait for   *)
(* it are answered, it is announced when nobody does, and a child of a      *)
(* session that is being deleted leaves no completion behind.               *)
(***************************************************************************)
EXTENDS SubagentCoordinatorSafety

(***************************************************************************)
(* The inductive invariant                                                 *)
(***************************************************************************)

\* The record of an id that was never spawned is blank: nothing is ever forgotten.
Blank == \A c \in Ids : c \notin Live \union completed => child[c] = NoChild

\* A spawn caller is held only for a live child that was not asked for in the background,
\* and a running child with a caller has not been handed off.
CallersFit ==
  \A c \in Ids : child[c].reply # "none" =>
    /\ c \in Live /\ child[c].mode # "background"
    /\ c \in Running => ~child[c].handleOnly

\* The children of a session that is being deleted keep their completions to themselves.
Hushed ==
  \A c \in Live :
    child[c].parent \in teardownDrains /\ ~IsWorkflow(child[c].owner) => ~child[c].surface

DeliveryInv == Safety /\ Blank /\ CallersFit /\ Hushed

(***************************************************************************)
(* Edits and endings                                                       *)
(***************************************************************************)

\* What TeardownSilences and AnnouncedIfUnheard ask of a step.
SilentStep == \A c \in buffered' \ buffered : child[c].parent \notin teardownDrains

DeliveredStep ==
  \A c \in Live \intersect completed' :
    LET heard == \/ child[c].reply = "open" /\ child[c].mode # "background"
                 \/ waiters[c] > 0
    IN  child'[c].outcome # "cancelled" =>
          (child'[c].outcome = "surfaced"
             <=> ~heard /\ child[c].surface /\ ~child[c].killed)

\* What is shown of every step.
Delivers == Blank' /\ CallersFit' /\ Hushed' /\ SilentStep /\ DeliveredStep

\* An edit of a record that keeps its identity, gives no caller back and announces no more.
Softer(old, new) ==
  /\ new.parent = old.parent /\ new.owner = old.owner /\ new.mode = old.mode
  /\ new.surface => old.surface
  /\ new.reply # "none" => old.reply # "none" /\ new.handleOnly = old.handleOnly

\* The edits of the handlers are of that kind.
LEMMA EditsSoften ==
  ASSUME NEW rec \in ChildRecord
  PROVE  /\ Softer(rec, rec)
         /\ Softer(rec, MarkBackgrounded(rec))
         /\ Softer(rec, BackgroundQueued(rec))
         /\ Softer(rec, Silenced(rec)) /\ ~Silenced(rec).surface
         /\ Softer(rec, [rec EXCEPT !.reply = "none"])
         /\ Softer(rec, [rec EXCEPT !.killed = TRUE])
         /\ rec.reply = "open" => Softer(rec, [rec EXCEPT !.reply = "closed"])
         /\ \A background : Softer(rec, StartedRecord(rec, background))
<1>1. Softer(rec, rec)
  BY DEF Softer
<1>2. Softer(rec, MarkBackgrounded(rec))
  BY DEF Softer, MarkBackgrounded, ChildRecord
<1>3. Softer(rec, BackgroundQueued(rec))
  BY DEF Softer, BackgroundQueued, ChildRecord
<1>4. Softer(rec, Silenced(rec)) /\ ~Silenced(rec).surface
  BY DEF Softer, Silenced, ChildRecord
<1>5. Softer(rec, [rec EXCEPT !.reply = "none"])
  BY DEF Softer, ChildRecord
<1>6. Softer(rec, [rec EXCEPT !.killed = TRUE])
  BY DEF Softer, ChildRecord
<1>7. rec.reply = "open" => Softer(rec, [rec EXCEPT !.reply = "closed"])
  BY DEF Softer, ChildRecord
<1>8. ASSUME NEW background PROVE Softer(rec, StartedRecord(rec, background))
  BY DEF Softer, StartedRecord, ChildRecord
<1> QED
  BY <1>1, <1>2, <1>3, <1>4, <1>5, <1>6, <1>7, <1>8

\* The records that a handler leaves, before it finishes F.
EditFits(F, ch) ==
  \A c \in Ids : IF c \in Live \union completed THEN Softer(child[c], ch[c])
                 ELSE c \in F \/ ch[c] = child[c]

\* The children of sessions being deleted are silent in those records.
Quiet(ch) ==
  \A c \in Live :
    child[c].parent \in teardownDrains' /\ ~IsWorkflow(child[c].owner) => ~ch[c].surface

\* When no session becomes one that is being deleted they already are.
LEMMA StillQuiet ==
  ASSUME DeliveryInv, NEW F, NEW ch, EditFits(F, ch), teardownDrains' \subseteq teardownDrains
  PROVE  Quiet(ch)
<1>1. Live \subseteq Ids
  BY DEF DeliveryInv, Safety, TypeOK, Live, Running
<1> QED
  BY <1>1 DEF EditFits, Quiet, Softer, DeliveryInv, Hushed

\* A step that edits records and moves no child out of its collection, other than from
\* pending to active.
LEMMA EditDelivers ==
  ASSUME DeliveryInv, EditFits({}, child'), Quiet(child'),
         Running' = Running, queued' = queued, completed' = completed,
         buffered' \subseteq buffered
  PROVE  Delivers
<1>1. Live' = Live /\ Live \subseteq Ids /\ Live \intersect completed = {}
  BY DEF DeliveryInv, Safety, TypeOK, OneRecordPerId, Live, Running
<1>2. Blank'
  BY <1>1 DEF Blank, DeliveryInv, EditFits
<1>3. CallersFit'
  <2> SUFFICES ASSUME NEW c \in Ids, child'[c].reply # "none"
               PROVE  /\ c \in Live /\ child'[c].mode # "background"
                      /\ c \in Running => ~child'[c].handleOnly
    BY <1>1 DEF CallersFit
  <2>1. c \in Live \union completed
    <3> SUFFICES ASSUME c \notin Live \union completed PROVE FALSE
      OBVIOUS
    <3>1. child'[c] = NoChild
      BY DEF EditFits, DeliveryInv, Blank
    <3> QED
      BY <3>1 DEF NoChild
  <2>2. /\ child[c].reply # "none" /\ child'[c].mode = child[c].mode
        /\ child'[c].handleOnly = child[c].handleOnly
    BY <2>1 DEF EditFits, Softer
  <2> QED
    BY <2>2 DEF DeliveryInv, CallersFit
<1>4. Hushed'
  BY <1>1 DEF Hushed, Quiet, EditFits, Softer, IsWorkflow
<1>5. SilentStep /\ DeliveredStep
  BY <1>1 DEF SilentStep, DeliveredStep
<1> QED
  BY <1>2, <1>3, <1>4, <1>5 DEF Delivers

\* What the outcome that finish_child decides on means.
LEMMA OutcomeCancelled ==
  ASSUME NEW rec, NEW handleOnly, NEW waited, NEW cancelled, cancelled
  PROVE  OutcomeOf(rec, handleOnly, waited, cancelled) = "cancelled"
  BY DEF OutcomeOf

LEMMA OutcomeMeaning ==
  ASSUME NEW rec, NEW handleOnly, NEW waited, NEW cancelled, ~cancelled
  PROVE  OutcomeOf(rec, handleOnly, waited, cancelled) = "surfaced"
           <=> /\ rec.surface /\ ~waited /\ ~rec.killed
               /\ ~(~handleOnly /\ rec.reply = "open")
  BY DEF OutcomeOf

\* Finishing children and sweeping the queue.
LEMMA FinishDelivers ==
  ASSUME DeliveryInv, NEW F, NEW C, NEW ch, NEW tk, NEW bf, FinishArguments(F, ch, tk),
         FinishChildren(F, C, ch, tk, bf), EditFits(F, ch), Quiet(ch), bf \subseteq buffered,
         \A c \in (F \intersect Live) \ C : ch[c] = child[c]
  PROVE  Delivers
<1> DEFINE dropped  == {c \in queued \ F : tk[c]}
           started  == StartsFromQueue(queued \ F, Running \ F, tk)
           finished == F \union dropped
           ho(c)    == IF c \in Running THEN ch[c].handleOnly ELSE ch[c].mode = "background"
           out      == [c \in finished |->
                          OutcomeOf(ch[c],
                                    IF c \in Running THEN ch[c].handleOnly
                                                     ELSE ch[c].mode = "background",
                                    waiters[c] > 0,
                                    c \in C \union dropped)]
<1>1. /\ queued' = (queued \ F) \ (dropped \union started)
      /\ pending' = (pending \ F) \union started
      /\ active' = active \ F
      /\ completed' = completed \union finished
      /\ child' = [c \in Ids |->
                     IF c \in finished THEN FinishedRecord(ch[c], out[c])
                     ELSE IF c \in started THEN StartQueued(ch[c]) ELSE ch[c]]
      /\ buffered' = bf \union
           {c \in finished : /\ BufferCompletions /\ ch[c].surface
                             /\ ~IsWorkflow(ch[c].owner)}
  BY DEF FinishChildren
<1>2. \A c \in finished : out[c] = OutcomeOf(ch[c], ho(c), waiters[c] > 0, c \in C \union dropped)
  OBVIOUS
<1>3. started \subseteq queued \ (F \union dropped)
  BY DEF StartsFromQueue
<1>4. /\ F \subseteq Ids /\ queued \subseteq Ids /\ Live \subseteq Ids /\ completed \subseteq Ids
      /\ Live \intersect completed = {} /\ queued \intersect Running = {}
      /\ F \intersect completed = {} /\ \A c \in Ids : ch[c] \in ChildRecord
      /\ teardownDrains \subseteq Sessions
  BY DEF FinishArguments, DeliveryInv, Safety, TypeOK, OneRecordPerId, Live, Running
<1> HIDE DEF out, ho, started
<1>5. finished \subseteq Ids /\ dropped \subseteq queued
  BY <1>4
<1> HIDE DEF finished, dropped
<1>6. /\ \A c \in finished : child'[c] = FinishedRecord(ch[c], out[c])
      /\ \A c \in started \ finished : child'[c] = StartQueued(ch[c])
      /\ \A c \in Ids \ (finished \union started) : child'[c] = ch[c]
  BY <1>1, <1>3, <1>4, <1>5, Zenon
<1>7. /\ Live' = Live \ finished
      /\ Running' = (Running \ F) \union started
  BY <1>1, <1>3, <1>4 DEF Live, Running, finished, dropped
<1>8. \A c \in finished : FinishedRecord(ch[c], out[c]).reply = "none"
                          /\ FinishedRecord(ch[c], out[c]).outcome = out[c]
  BY <1>4, <1>5 DEF FinishedRecord, ChildRecord
<1>9. \A c \in started : /\ StartQueued(ch[c]).reply = ch[c].reply
                         /\ StartQueued(ch[c]).mode = ch[c].mode
                         /\ StartQueued(ch[c]).surface = ch[c].surface
                         /\ StartQueued(ch[c]).parent = ch[c].parent
                         /\ StartQueued(ch[c]).owner = ch[c].owner
                         /\ ch[c].reply # "none" /\ ch[c].mode # "background" =>
                              ~StartQueued(ch[c]).handleOnly
  <2> SUFFICES ASSUME NEW c \in started, NEW rec \in ChildRecord
               PROVE  /\ StartQueued(rec).reply = rec.reply
                      /\ StartQueued(rec).mode = rec.mode
                      /\ StartQueued(rec).surface = rec.surface
                      /\ StartQueued(rec).parent = rec.parent
                      /\ StartQueued(rec).owner = rec.owner
                      /\ rec.reply # "none" /\ rec.mode # "background" =>
                           ~StartQueued(rec).handleOnly
    BY <1>3, <1>4, Zenon
  <2> QED
    BY DEF StartQueued, ChildRecord
<1>10. \A c \in Live \union completed : Softer(child[c], ch[c])
  BY <1>4, Zenon DEF EditFits
<1>11. Blank'
  <2> SUFFICES ASSUME NEW c \in Ids, c \notin Live', c \notin completed'
               PROVE  child'[c] = NoChild
    BY DEF Blank
  <2>1. c \notin finished /\ c \notin completed /\ c \notin Live
    BY <1>1, <1>7
  <2>2. c \notin started /\ c \notin F
    BY <1>3, <2>1 DEF Live, finished
  <2>3. ch[c] = child[c] /\ child[c] = NoChild
    BY <2>1, <2>2 DEF EditFits, DeliveryInv, Blank
  <2> QED
    BY <1>6, <2>1, <2>2, <2>3
<1>12. CallersFit'
  <2> SUFFICES ASSUME NEW c \in Ids, child'[c].reply # "none"
               PROVE  /\ c \in Live' /\ child'[c].mode # "background"
                      /\ c \in Running' => ~child'[c].handleOnly
    BY DEF CallersFit
  <2>1. c \notin finished
    BY <1>6, <1>8
  <2>2. ch[c].reply # "none"
    BY <1>6, <1>9, <2>1
  <2>3. c \in Live \union completed
    <3> SUFFICES ASSUME c \notin Live \union completed PROVE FALSE
      OBVIOUS
    <3>1. ch[c] = NoChild
      BY <2>1 DEF EditFits, DeliveryInv, Blank, finished
    <3> QED
      BY <2>2, <3>1 DEF NoChild
  <2>4. /\ child[c].reply # "none" /\ ch[c].mode = child[c].mode
        /\ ch[c].handleOnly = child[c].handleOnly
    BY <1>10, <2>2, <2>3 DEF Softer
  <2>5. /\ c \in Live /\ ch[c].mode # "background"
        /\ c \in Running => ~ch[c].handleOnly
    BY <2>4 DEF DeliveryInv, CallersFit
  <2>6. CASE c \in started
    BY <1>6, <1>7, <1>9, <2>1, <2>2, <2>5, <2>6
  <2>7. CASE c \notin started
    BY <1>6, <1>7, <2>1, <2>5, <2>7
  <2> QED
    BY <2>6, <2>7
<1>13. Hushed'
  <2> SUFFICES ASSUME NEW c \in Live', child'[c].parent \in teardownDrains',
                      ~IsWorkflow(child'[c].owner)
               PROVE  ~child'[c].surface
    BY DEF Hushed, IsWorkflow
  <2>1. c \in Live /\ c \notin finished /\ c \in Ids
    BY <1>4, <1>7
  <2>2. /\ child'[c].parent = ch[c].parent /\ child'[c].owner = ch[c].owner
        /\ child'[c].surface = ch[c].surface
    BY <1>6, <1>9, <2>1
  <2>3. ch[c].parent = child[c].parent /\ ch[c].owner = child[c].owner
    BY <1>10, <2>1 DEF Softer
  <2> QED
    BY <2>1, <2>2, <2>3 DEF Quiet
<1>14. SilentStep
  <2> SUFFICES ASSUME NEW c \in finished, ch[c].surface, ~IsWorkflow(ch[c].owner)
               PROVE  child[c].parent \notin teardownDrains
    BY <1>1 DEF SilentStep
  <2>1. CASE c \in Live
    BY <1>10, <2>1 DEF Softer, DeliveryInv, Hushed, IsWorkflow
  <2>2. CASE c \notin Live
    <3>1. c \in Ids /\ c \notin completed
      BY <1>4, <1>5, <2>2 DEF finished, dropped, Live
    <3>2. child[c].parent = None
      BY <2>2, <3>1 DEF DeliveryInv, Blank, NoChild
    <3> QED
      BY <1>4, <3>2, NamesAssumption DEF Sessions
  <2> QED
    BY <2>1, <2>2
<1>15. DeliveredStep
  <2> SUFFICES ASSUME NEW c \in Live, c \in completed', child'[c].outcome # "cancelled"
               PROVE  LET heard == \/ child[c].reply = "open" /\ child[c].mode # "background"
                                   \/ waiters[c] > 0
                      IN  child'[c].outcome = "surfaced"
                            <=> ~heard /\ child[c].surface /\ ~child[c].killed
    BY DEF DeliveredStep
  <2>1. c \in finished
    BY <1>1, <1>4
  <2>2. child'[c].outcome = OutcomeOf(ch[c], ho(c), waiters[c] > 0, c \in C \union dropped)
    BY <1>2, <1>6, <1>8, <2>1
  <2>3. c \notin C \union dropped
    BY <2>2, OutcomeCancelled
  <2>4. c \in F /\ ch[c] = child[c]
    BY <2>1, <2>3 DEF finished
  <2>5. child'[c].outcome = "surfaced" <=>
          /\ child[c].surface /\ ~(waiters[c] > 0) /\ ~child[c].killed
          /\ ~(~ho(c) /\ child[c].reply = "open")
    <3> DEFINE waited    == waiters[c] > 0
               cancelled == c \in C \union dropped
    <3>1. OutcomeOf(child[c], ho(c), waited, cancelled) = "surfaced"
            <=> /\ child[c].surface /\ ~waited /\ ~child[c].killed
                /\ ~(~ho(c) /\ child[c].reply = "open")
      <4>1. ~cancelled
        BY <2>3
      <4> HIDE DEF cancelled, waited
      <4> QED
        BY <4>1, OutcomeMeaning
    <3> QED
      BY <2>2, <2>4, <3>1
  <2>6. child[c].reply = "open" => child[c].mode # "background" /\ ~ho(c)
    BY <1>4, <2>4 DEF DeliveryInv, CallersFit, ho
  <2> QED
    BY <2>5, <2>6
<1> QED
  BY <1>11, <1>12, <1>13, <1>14, <1>15 DEF Delivers

\* Removing spawns from the queue.
LEMMA RemoveDelivers ==
  ASSUME DeliveryInv, NEW S \in SUBSET queued, NEW ch \in [Ids -> ChildRecord],
         NEW tk \in [Ids -> BOOLEAN], NEW bf, RemoveQueued(S, ch, tk, bf),
         EditFits({}, ch), Quiet(ch), bf \subseteq buffered
  PROVE  Delivers
<1>0. Safety
  BY DEF DeliveryInv
<1>1. CASE S = {}
  <2>1. EditChildren(ch, tk, bf)
    BY <1>1 DEF RemoveQueued
  <2>2. /\ child' = ch /\ buffered' \subseteq buffered /\ Running' = Running
        /\ queued' = queued /\ completed' = completed
    BY <2>1 DEF EditChildren, Running
  <2> QED
    BY <2>2, EditDelivers
<1>2. CASE S # {}
  <2> DEFINE tks == [c \in Ids |-> c \in S \/ tk[c]]
  <2>1. FinishChildren(S, S, ch, tks, bf)
    BY <1>2 DEF RemoveQueued
  <2>2. \A c \in Live \union completed :
          ch[c].parent = child[c].parent /\ ch[c].owner = child[c].owner
    BY <1>0 DEF EditFits, Softer, Safety, TypeOK, Live, Running
  <2>3. FinishArguments(S, ch, tks)
    BY <1>0, <2>2 DEF FinishArguments, Safety, TypeOK, OneRecordPerId, KeyedToSession, Live
  <2>4. EditFits(S, ch)
    BY DEF EditFits
  <2> HIDE DEF tks
  <2> QED
    BY <2>1, <2>3, <2>4, FinishDelivers
<1> QED
  BY <1>1, <1>2

\* A spawn or a wake that is admitted, started or parked.
LEMMA AdmitDelivers ==
  ASSUME DeliveryInv, NEW c \in Ids \ Live, NEW rec, child' = [child EXCEPT ![c] = rec],
         \/ Running' = Running \union {c} /\ queued' = queued
         \/ Running' = Running /\ queued' = queued \union {c},
         completed' = completed \ {c}, UNCHANGED <<buffered, teardownDrains>>,
         rec.reply # "none" => rec.mode # "background" /\ ~rec.handleOnly,
         rec.parent \in teardownDrains /\ ~IsWorkflow(rec.owner) => ~rec.surface
  PROVE  Delivers
<1>1. /\ Live' = Live \union {c} /\ Live \subseteq Ids /\ Live \intersect completed = {}
      /\ queued \subseteq Live /\ Running \subseteq Live
      /\ child'[c] = rec /\ \A d \in Ids \ {c} : child'[d] = child[d]
  BY DEF DeliveryInv, Safety, TypeOK, OneRecordPerId, Live, Running
<1>2. Blank'
  BY <1>1 DEF Blank, DeliveryInv
<1>3. CallersFit'
  BY <1>1 DEF CallersFit, DeliveryInv
<1>4. Hushed'
  BY <1>1 DEF Hushed, DeliveryInv, IsWorkflow
<1>5. SilentStep /\ DeliveredStep
  BY <1>1 DEF SilentStep, DeliveredStep
<1> QED
  BY <1>2, <1>3, <1>4, <1>5 DEF Delivers

(***************************************************************************)
(* The steps                                                               *)
(***************************************************************************)

\* A step that leaves the children alone.
LEMMA IdleDelivers ==
  ASSUME DeliveryInv, UNCHANGED <<queued, pending, active, completed, child>>,
         buffered' \subseteq buffered, teardownDrains' \subseteq teardownDrains
  PROVE  Delivers
<1>1. EditFits({}, child')
  BY EditsSoften DEF EditFits, DeliveryInv, Safety, TypeOK
<1>2. Quiet(child')
  BY <1>1, StillQuiet
<1> QED
  BY <1>1, <1>2, EditDelivers DEF Running

\* Other threads.
LEMMA EnvironmentDelivers == DeliveryInv /\ Environment => Delivers
<1> SUFFICES ASSUME DeliveryInv, Environment PROVE Delivers
  OBVIOUS
<1>1. ASSUME NEW c \in Ids, CancelToken(c) \/ AbandonQuery(c) PROVE Delivers
  BY <1>1, IdleDelivers DEF CancelToken, AbandonQuery
<1>2. ASSUME NEW scope, AbandonDrainWait(scope) PROVE Delivers
  BY <1>2, IdleDelivers DEF AbandonDrainWait
<1>3. ASSUME NEW c \in Ids, DropCaller(c) PROVE Delivers
  <2>1. child \in [Ids -> ChildRecord]
    BY DEF DeliveryInv, Safety, TypeOK
  <2>2. child[c].reply = "open" /\ child' = [child EXCEPT ![c].reply = "closed"]
    BY <1>3 DEF DropCaller
  <2>3. child'[c] = [child[c] EXCEPT !.reply = "closed"]
        /\ \A d \in Ids \ {c} : child'[d] = child[d]
    BY <2>1, <2>2
  <2>4. c \in Live
    BY <2>2 DEF DeliveryInv, CallersFit
  <2>5. Softer(child[c], child'[c]) /\ \A d \in Ids \ {c} : Softer(child[d], child'[d])
    BY <2>1, <2>2, <2>3, EditsSoften
  <2>6. EditFits({}, child')
    BY <2>3, <2>4, <2>5 DEF EditFits
  <2>7. UNCHANGED <<queued, pending, active, completed, buffered, teardownDrains>>
    BY <1>3 DEF DropCaller
  <2>8. Quiet(child')
    BY <2>6, <2>7, StillQuiet
  <2> QED
    BY <2>6, <2>7, <2>8, EditDelivers DEF Running
<1> QED
  BY <1>1, <1>2, <1>3 DEF Environment

\* The sweep of abandoned callers and cancelled spawns.
LEMMA ReapDelivers ==
  ASSUME DeliveryInv, NEW next, Reap(next)
  PROVE  Delivers
<1> DEFINE reaped == [c \in Ids |-> Reaped(c)]
           orphans == {c \in Ids : CallerGone(c)
                                   /\ CancelOnReceiverDrop(child[c].owner)}
           due == {c \in queued : token[c]}
<1>0. TypeOK /\ child \in [Ids -> ChildRecord] /\ token \in [Ids -> BOOLEAN]
  BY DEF DeliveryInv, Safety, TypeOK
<1>1. RemoveQueued(due, reaped, CancelTokens(orphans), buffered)
  BY DEF Reap
<1>2. reaped \in [Ids -> ChildRecord] /\ due \in SUBSET queued
      /\ CancelTokens(orphans) \in [Ids -> BOOLEAN]
  BY <1>0, ReapedKeys DEF CancelTokens
<1>3. ASSUME NEW c \in Ids
      PROVE  IF c \in Live \union completed THEN Softer(child[c], Reaped(c))
             ELSE Reaped(c) = child[c]
  <2>1. \/ Reaped(c) = [child[c] EXCEPT !.reply = "none"]
        \/ Reaped(c) = MarkBackgrounded(child[c])
        \/ Reaped(c) = BackgroundQueued(child[c])
        \/ Reaped(c) = child[c]
    BY DEF Reaped
  <2>2. c \notin Live => Reaped(c) = child[c]
    BY DEF Reaped, CallerGone, Live
  <2>3. child[c] \in ChildRecord
    BY <1>0
  <2>4. Softer(child[c], Reaped(c))
    BY <2>1, <2>3, EditsSoften, Zenon
  <2> QED
    BY <2>2, <2>4
<1>4. EditFits({}, reaped)
  BY <1>3 DEF EditFits
<1>5. teardownDrains' \subseteq teardownDrains
  BY DEF Reap, ResolveTeardownDrains
<1> HIDE DEF reaped, orphans, due
<1>6. Quiet(reaped)
  BY <1>4, <1>5, StillQuiet
<1> QED
  BY <1>1, <1>2, <1>4, <1>6, RemoveDelivers

\* Spawn commands.
LEMMA SpawnDelivers == DeliveryInv /\ SpawnCommand => Delivers
<1> SUFFICES ASSUME DeliveryInv, SpawnCommand PROVE Delivers
  OBVIOUS
<1>0. /\ Safety /\ TypeOK /\ child \in [Ids -> ChildRecord] /\ token \in [Ids -> BOOLEAN]
      /\ Live \subseteq Ids /\ completed \subseteq Ids /\ teardownDrains \subseteq spawnBlocked
  BY DrainsClosed DEF DeliveryInv, Safety, TypeOK, Live, Running
<1>1. ASSUME NEW r \in Requests, NEW cancelled, SpawnRefusal(r, cancelled)
      PROVE  Delivers
  BY <1>1, IdleDelivers DEF SpawnRefusal
<1>2. ASSUME NEW r \in Requests, NEW reply, ~SpawnRefused(r, FALSE)
      PROVE  /\ r.id \in Ids \ (Live \union completed)
             /\ SpawnRecord(r, reply).reply # "none" =>
                  SpawnRecord(r, reply).mode # "background" /\ ~SpawnRecord(r, reply).handleOnly
             /\ SpawnRecord(r, reply).parent \in teardownDrains
                  => IsWorkflow(SpawnRecord(r, reply).owner)
  <2>1. /\ r.id \in Ids \ (Live \union completed)
        /\ SpawnRecord(r, reply).parent = SpawnParent(r)
        /\ SpawnRecord(r, reply).owner = SpawnOwner(r)
        /\ IsWorkflow(SpawnOwner(r)) \/ SpawnParent(r) \notin spawnBlocked
    BY <1>0, <1>2, SpawnKey
  <2>2. SpawnRecord(r, reply).reply # "none" =>
          SpawnRecord(r, reply).mode # "background" /\ ~SpawnRecord(r, reply).handleOnly
    BY DEF SpawnRecord
  <2> QED
    BY <1>0, <2>1, <2>2
<1>3. ASSUME NEW r \in Requests, NEW reply, SpawnStart(r, reply) \/ SpawnEnqueue(r, reply)
      PROVE  Delivers
  <2>1. ~SpawnRefused(r, FALSE) /\ child' = [child EXCEPT ![r.id] = SpawnRecord(r, reply)]
        /\ UNCHANGED <<completed, buffered, teardownDrains>>
    BY <1>3 DEF SpawnStart, SpawnEnqueue
  <2>2. \/ Running' = Running \union {r.id} /\ queued' = queued
        \/ Running' = Running /\ queued' = queued \union {r.id}
    BY <1>3 DEF SpawnStart, SpawnEnqueue, PushBack, Running
  <2>3. /\ r.id \in Ids \ Live /\ completed' = completed \ {r.id}
        /\ SpawnRecord(r, reply).reply # "none" =>
             SpawnRecord(r, reply).mode # "background" /\ ~SpawnRecord(r, reply).handleOnly
        /\ SpawnRecord(r, reply).parent \in teardownDrains
             => IsWorkflow(SpawnRecord(r, reply).owner)
    BY <1>2, <2>1
  <2> QED
    BY <2>1, <2>2, <2>3, AdmitDelivers
<1>4. ASSUME NEW r \in Requests, NEW reply \in {"open", "closed"}, SpawnFail(r, reply)
      PROVE  Delivers
  <2> DEFINE ch == [child EXCEPT ![r.id] = SpawnRecord(r, reply)]
             tk == [token EXCEPT ![r.id] = FALSE]
  <2>1. r.id \in Ids \ (Live \union completed) /\ SpawnRecord(r, reply).parent \in Sessions
    BY <1>0, <1>4, SpawnKey DEF SpawnFail
  <2>2. ch \in [Ids -> ChildRecord] /\ tk \in [Ids -> BOOLEAN]
    BY <1>0, SpawnRecordTyped
  <2>3. \A c \in Ids \ {r.id} : ch[c] = child[c]
    BY <1>0
  <2>4. FinishArguments({r.id}, ch, tk)
    BY <1>0, <2>1, <2>2, <2>3 DEF FinishArguments, Live
  <2>5. FinishChildren({r.id}, {}, ch, tk, buffered)
        /\ teardownDrains' \subseteq teardownDrains
    BY <1>4 DEF SpawnFail, ResolveTeardownDrains
  <2>6. EditFits({r.id}, ch)
    BY <1>0, <2>1, <2>3, EditsSoften DEF EditFits
  <2> HIDE DEF ch, tk
  <2>7. Quiet(ch)
    BY <2>5, <2>6, StillQuiet
  <2>8. {r.id} \intersect Live = {}
    BY <2>1
  <2> QED
    BY <2>4, <2>5, <2>6, <2>7, <2>8, FinishDelivers
<1> QED
  BY <1>1, <1>3, <1>4 DEF SpawnCommand

\* Cancels, Stop and delete.
LEMMA CancelDelivers == DeliveryInv /\ CancelCommand => Delivers
<1> SUFFICES ASSUME DeliveryInv, CancelCommand PROVE Delivers
  OBVIOUS
<1>0. /\ Safety /\ TypeOK /\ child \in [Ids -> ChildRecord] /\ token \in [Ids -> BOOLEAN]
      /\ Live \subseteq Ids /\ completed \subseteq Ids /\ teardownDrains \subseteq spawnBlocked
  BY DrainsClosed DEF DeliveryInv, Safety, TypeOK, Live, Running
<1>1. EditFits({}, child)
  BY <1>0, EditsSoften DEF EditFits
<1>2. ASSUME NEW S \in SUBSET queued, NEW tk \in [Ids -> BOOLEAN],
             RemoveQueued(S, child, tk, buffered), teardownDrains' \subseteq teardownDrains
      PROVE  Delivers
  <2>1. Quiet(child)
    BY <1>1, <1>2, StillQuiet
  <2> QED
    BY <1>0, <1>1, <1>2, <2>1, RemoveDelivers
<1>3. \A T : CancelTokens(T) \in [Ids -> BOOLEAN]
  BY <1>0 DEF CancelTokens
<1>4. ASSUME NEW c \in Ids, NEW scope, CancelSubagent(c, scope) PROVE Delivers
  <2>1. teardownDrains' \subseteq teardownDrains
    BY <1>4 DEF CancelSubagent, ResolveTeardownDrains
  <2>2. CASE c \in Running
    <3>1. EditChildren([child EXCEPT ![c].killed = TRUE], CancelTokens({c}), buffered)
      BY <1>4, <2>2 DEF CancelSubagent
    <3>2. /\ child'[c] = [child[c] EXCEPT !.killed = TRUE]
          /\ \A d \in Ids \ {c} : child'[d] = child[d]
          /\ UNCHANGED <<queued, pending, active, completed, buffered>>
      BY <1>0, <3>1 DEF EditChildren
    <3>3. Softer(child[c], child'[c]) /\ \A d \in Ids \ {c} : Softer(child[d], child'[d])
      BY <1>0, <3>2, EditsSoften
    <3>4. EditFits({}, child')
      BY <2>2, <3>2, <3>3 DEF EditFits, Live
    <3>5. Quiet(child')
      BY <2>1, <3>4, StillQuiet
    <3> QED
      BY <3>2, <3>4, <3>5, EditDelivers DEF Running
  <2>3. CASE c \notin Running
    <3>1. {c} \in SUBSET queued /\ RemoveQueued({c}, child, token, buffered)
      BY <1>4, <2>3 DEF CancelSubagent, Live
    <3> QED
      BY <1>0, <1>2, <2>1, <3>1
  <2> QED
    BY <2>2, <2>3
<1>5. ASSUME NEW prompt, NEW scope, CancelParentPrompt(prompt, scope) PROVE Delivers
  <2>1. PICK S, T : S \in SUBSET queued /\ RemoveQueued(S, child, CancelTokens(T), buffered)
    BY <1>5 DEF CancelParentPrompt
  <2>2. teardownDrains' \subseteq teardownDrains
    BY <1>5 DEF CancelParentPrompt, ResolveTeardownDrains
  <2> QED
    BY <1>2, <1>3, <2>1, <2>2
<1>6. ASSUME NEW session, CancelParentSession(session) PROVE Delivers
  <2>1. PICK S, T : S \in SUBSET queued /\ RemoveQueued(S, child, CancelTokens(T), buffered)
    BY <1>6 DEF CancelParentSession
  <2>2. teardownDrains' \subseteq teardownDrains
    BY <1>6 DEF CancelParentSession, ResolveTeardownDrains
  <2> QED
    BY <1>2, <1>3, <2>1, <2>2
<1>7. ASSUME NEW run, NEW scope, CancelWorkflowRun(run, scope) PROVE Delivers
  BY <1>7, IdleDelivers DEF CancelWorkflowRun
<1>8. ASSUME NEW session, OpenSpawnAdmission(session) PROVE Delivers
  BY <1>8, IdleDelivers DEF OpenSpawnAdmission
<1>9. ASSUME NEW session, NEW deleting, TeardownSession(session, deleting) PROVE Delivers
  <2> DEFINE S == {c \in queued : child[c].parent = session}
             T == {c \in Running : child[c].parent = session}
             bf == {c \in buffered : child[c].parent # session}
             ch == [c \in Ids |-> IF c \in Live /\ child[c].parent = session
                                  THEN Silenced(child[c]) ELSE child[c]]
  <2>1. RemoveQueued(S, ch, CancelTokens(T), bf)
    BY <1>9 DEF TeardownSession
  <2>2. teardownDrains' \subseteq teardownDrains \union {session}
    BY <1>9 DEF TeardownSession
  <2>3. \A c \in Ids : /\ Silenced(child[c]) \in ChildRecord
                       /\ Softer(child[c], Silenced(child[c])) /\ ~Silenced(child[c]).surface
                       /\ Softer(child[c], child[c])
    BY <1>0, RecordEdits, EditsSoften, Zenon
  <2>4. S \in SUBSET queued /\ ch \in [Ids -> ChildRecord] /\ bf \subseteq buffered
    BY <1>0, <2>3
  <2>5. EditFits({}, ch)
    BY <2>3 DEF EditFits
  <2>6. Quiet(ch)
    <3> SUFFICES ASSUME NEW c \in Live, child[c].parent \in teardownDrains',
                        ~IsWorkflow(child[c].owner)
                 PROVE  ~ch[c].surface
      BY DEF Quiet
    <3>1. CASE child[c].parent = session
      BY <1>0, <2>3, <3>1
    <3>2. CASE child[c].parent # session
      BY <1>0, <2>2, <3>2 DEF DeliveryInv, Hushed
    <3> QED
      BY <3>1, <3>2
  <2> HIDE DEF S, T, bf, ch
  <2> QED
    BY <1>3, <2>1, <2>4, <2>5, <2>6, RemoveDelivers
<1> QED
  BY <1>4, <1>5, <1>6, <1>7, <1>8, <1>9 DEF CancelCommand

\* A step that turns the callers of some live children away.
LEMMA BackgroundDelivers ==
  ASSUME DeliveryInv, NEW A, NEW B, A \subseteq Running, B \subseteq queued,
         child' = [c \in Ids |-> CASE c \in A -> MarkBackgrounded(child[c])
                                   [] c \in B -> BackgroundQueued(child[c])
                                   [] OTHER -> child[c]],
         UNCHANGED <<queued, pending, active, completed, buffered>>,
         teardownDrains' \subseteq teardownDrains
  PROVE  Delivers
<1>1. child \in [Ids -> ChildRecord] /\ queued \intersect Running = {}
  BY DEF DeliveryInv, Safety, TypeOK, OneRecordPerId
<1>2. ASSUME NEW c \in Ids
      PROVE  IF c \in Live \union completed THEN Softer(child[c], child'[c])
             ELSE child'[c] = child[c]
  <2>1. \/ child'[c] = MarkBackgrounded(child[c])
        \/ child'[c] = BackgroundQueued(child[c])
        \/ child'[c] = child[c]
    OBVIOUS
  <2>2. c \notin Live => child'[c] = child[c]
    BY DEF Live
  <2>3. Softer(child[c], child'[c])
    BY <1>1, <2>1, EditsSoften, Zenon
  <2> QED
    BY <2>2, <2>3
<1>3. EditFits({}, child')
  BY <1>2 DEF EditFits
<1>4. Quiet(child')
  BY <1>3, StillQuiet
<1> QED
  BY <1>3, <1>4, EditDelivers DEF Running

\* Commands about turns, queries and completions.
LEMMA TurnDelivers == DeliveryInv /\ TurnCommand => Delivers
<1> SUFFICES ASSUME DeliveryInv, TurnCommand PROVE Delivers
  OBVIOUS
<1>1. ASSUME NEW session, NEW prompt, HandOffForeground(session, prompt) PROVE Delivers
  <2> DEFINE off(c) == child[c].mode # "background" /\ RequestInScope(c, session, prompt)
             A == {c \in Running : off(c) /\ child[c].reply # "none"}
             B == {c \in queued : off(c)}
  <2>1. child' = [c \in Ids |-> CASE c \in A -> MarkBackgrounded(child[c])
                                  [] c \in B -> BackgroundQueued(child[c])
                                  [] OTHER -> child[c]]
    <3>1. child' = [c \in Ids |->
             CASE c \in Running /\ off(c) /\ child[c].reply # "none" ->
                    MarkBackgrounded(child[c])
               [] c \in queued /\ off(c) -> BackgroundQueued(child[c])
               [] OTHER -> child[c]]
      BY <1>1 DEF HandOffForeground
    <3>2. \A c : /\ c \in A <=> c \in Running /\ off(c) /\ child[c].reply # "none"
                 /\ c \in B <=> c \in queued /\ off(c)
      OBVIOUS
    <3> HIDE DEF A, B, off
    <3> QED
      BY <3>1, <3>2
  <2>2. A \subseteq Running /\ B \subseteq queued
    OBVIOUS
  <2>3. UNCHANGED <<queued, pending, active, completed, buffered, teardownDrains>>
    BY <1>1 DEF HandOffForeground
  <2> HIDE DEF A, B
  <2> QED
    BY <2>1, <2>2, <2>3, BackgroundDelivers
<1>2. ASSUME NEW session, NEW prompt, WaitPromptDrained(session, prompt) PROVE Delivers
  BY <1>2, IdleDelivers DEF WaitPromptDrained
<1>3. ASSUME NEW c, BlockingQuery(c) PROVE Delivers
  BY <1>3, IdleDelivers DEF BlockingQuery
<1>4. ASSUME NEW session, TakeCompletions(session) PROVE Delivers
  BY <1>4, IdleDelivers DEF TakeCompletions
<1>5. CASE ReadOnlyCommand
  BY <1>5, IdleDelivers DEF ReadOnlyCommand
<1> QED
  BY <1>1, <1>2, <1>3, <1>4, <1>5 DEF TurnCommand

\* A wake comes without a caller and announces nothing.
LEMMA WakeDelivers ==
  ASSUME DeliveryInv, NEW c \in Ids, WakeCompleted(c)
  PROVE  Delivers
<1>1. /\ child \in [Ids -> ChildRecord] /\ c \in completed /\ c \notin Live
      /\ child[c].reply = "none"
  BY DEF DeliveryInv, Safety, TypeOK, OneRecordPerId, CallersFit, WakeCompleted, CanWake
<1>2. child' = [child EXCEPT ![c] = WakeRecord(child[c])]
      /\ completed' = completed \ {c} /\ UNCHANGED <<buffered, teardownDrains>>
  BY DEF WakeCompleted, DisplaceCompleted
<1>3. \/ Running' = Running \union {c} /\ queued' = queued
      \/ Running' = Running /\ queued' = queued \union {c}
  BY DEF WakeCompleted, PushBack, Running
<1>4. WakeRecord(child[c]).reply = "none" /\ ~WakeRecord(child[c]).surface
  BY <1>1 DEF WakeRecord, ChildRecord
<1> QED
  BY <1>1, <1>2, <1>3, <1>4, AdmitDelivers

\* A child reports live.
LEMMA StartedDelivers ==
  ASSUME DeliveryInv, NEW c \in Ids, NEW flag, Started(c, flag)
  PROVE  Delivers
<1>1. child \in [Ids -> ChildRecord] /\ c \in pending
  BY DEF DeliveryInv, Safety, TypeOK, Started
<1>2. /\ child'[c] = StartedRecord(child[c], flag)
      /\ \A d \in Ids \ {c} : child'[d] = child[d]
      /\ Running' = Running /\ UNCHANGED <<queued, completed, buffered, teardownDrains>>
  BY <1>1 DEF Started, Running
<1>3. Softer(child[c], child'[c]) /\ \A d \in Ids \ {c} : Softer(child[d], child'[d])
  <2>1. ASSUME NEW d \in Ids
        PROVE  Softer(child[d], child[d]) /\ Softer(child[d], StartedRecord(child[d], flag))
    <3>1. child[d] \in ChildRecord
      BY <1>1
    <3> QED
      BY <3>1, EditsSoften, Zenon
  <2> QED
    BY <1>2, <2>1
<1>4. EditFits({}, child')
  BY <1>1, <1>2, <1>3 DEF EditFits, Live, Running
<1>5. Quiet(child')
  BY <1>2, <1>4, StillQuiet
<1> QED
  BY <1>2, <1>4, <1>5, EditDelivers

\* A run ends.
LEMMA RunEndedDelivers ==
  ASSUME DeliveryInv, NEW c \in Ids, NEW flag, RunEnded(c, flag)
  PROVE  Delivers
<1>0. child \in [Ids -> ChildRecord] /\ token \in [Ids -> BOOLEAN]
  BY DEF DeliveryInv, Safety, TypeOK
<1>1. FinishArguments({c}, child, token)
  BY <1>0 DEF FinishArguments, RunEnded, DeliveryInv, Safety, OneRecordPerId, KeyedToSession,
              Live
<1>2. PICK C : FinishChildren({c}, C, child, token, buffered)
  BY DEF RunEnded
<1>3. EditFits({c}, child)
  BY <1>0, EditsSoften DEF EditFits
<1>4. Quiet(child)
  BY <1>3, StillQuiet DEF RunEnded, ResolveTeardownDrains
<1> QED
  BY <1>1, <1>2, <1>3, <1>4, FinishDelivers

\* Deadlines.
LEMMA DeadlinesDelivers == DeliveryInv /\ Deadlines => Delivers
<1> SUFFICES ASSUME DeliveryInv, NEW drains, NEW callers, NEW queries,
                    ProcessDeadlines(drains, callers, queries)
             PROVE  Delivers
  BY DEF Deadlines
<1> DEFINE A == callers \intersect Running
           B == callers \intersect queued
<1>1. child' = [c \in Ids |-> CASE c \in A -> MarkBackgrounded(child[c])
                                [] c \in B -> BackgroundQueued(child[c])
                                [] OTHER -> child[c]]
  <2>1. child' = [c \in Ids |->
           CASE c \in callers /\ c \in Running -> MarkBackgrounded(child[c])
             [] c \in callers /\ c \in queued -> BackgroundQueued(child[c])
             [] OTHER -> child[c]]
    BY DEF ProcessDeadlines
  <2>2. \A c : /\ c \in A <=> c \in callers /\ c \in Running
               /\ c \in B <=> c \in callers /\ c \in queued
    OBVIOUS
  <2> HIDE DEF A, B
  <2> QED
    BY <2>1, <2>2
<1>2. A \subseteq Running /\ B \subseteq queued
  OBVIOUS
<1>3. /\ UNCHANGED <<queued, pending, active, completed, buffered>>
      /\ teardownDrains' \subseteq teardownDrains
  BY DEF ProcessDeadlines
<1> HIDE DEF A, B
<1> QED
  BY <1>1, <1>2, <1>3, BackgroundDelivers

\* Every step delivers.
LEMMA StepDelivers == DeliveryInv /\ Next => Delivers
  BY EnvironmentDelivers, ReapDelivers, SpawnDelivers, CancelDelivers, TurnDelivers,
     WakeDelivers, StartedDelivers, RunEndedDelivers, DeadlinesDelivers
  DEF Next, Runner

LEMMA DeliveryInit == Init => DeliveryInv
<1> SUFFICES ASSUME Init PROVE DeliveryInv
  OBVIOUS
<1>1. Safety
  BY SafetyInit
<1>2. \A c \in Ids : child[c] = NoChild /\ child[c].reply = "none"
  BY DEF Init, NoChild
<1>3. Live = {}
  BY DEF Init, Live, Running
<1> QED
  BY <1>1, <1>2, <1>3 DEF DeliveryInv, Blank, CallersFit, Hushed

LEMMA DeliveryStep == DeliveryInv /\ [Next]_vars => DeliveryInv'
<1> SUFFICES ASSUME DeliveryInv, [Next]_vars PROVE DeliveryInv'
  OBVIOUS
<1>1. Safety'
  BY SafetyStep DEF DeliveryInv
<1>2. CASE Next
  BY <1>1, <1>2, StepDelivers DEF DeliveryInv, Delivers
<1>3. CASE UNCHANGED vars
  <2>1. Delivers
    BY <1>3, IdleDelivers DEF vars
  <2> QED
    BY <1>1, <2>1 DEF DeliveryInv, Delivers
<1> QED
  BY <1>2, <1>3

(***************************************************************************)
(* The theorems                                                            *)
(***************************************************************************)

\* The inductive invariant holds in every reachable state of the coordinator: an id that
\* was never spawned has a blank record, a spawn caller is held only for a live child that
\* was not handed off, and a child of a session being deleted surfaces nothing.
THEOREM DeliveryInvHolds == Spec => []DeliveryInv
  BY DeliveryInit, DeliveryStep, PTL DEF Spec

\* Whatever the spawn caller, its await budget, a hand-off, the reap and the blocking
\* queries did before, the step of finish_child that ends a child leaves nobody waiting for
\* it and announces its completion exactly when nobody who asked for the result gets it and
\* the spawn wants it announced, for every interleaving.
THEOREM AnnouncedIfUnheardHolds == Spec => AnnouncedIfUnheard
<1> DEFINE Announces ==
      \A c \in Live \intersect completed' :
        LET heard == \/ child[c].reply = "open" /\ child[c].mode # "background"
                     \/ waiters[c] > 0
        IN  /\ child'[c].reply = "none" /\ waiters'[c] = 0
            /\ child'[c].outcome # "cancelled" =>
                 (child'[c].outcome = "surfaced"
                    <=> ~heard /\ child[c].surface /\ ~child[c].killed)
<1>1. DeliveryInv /\ [Next]_vars => [Announces]_vars
  <2> SUFFICES ASSUME DeliveryInv, Next PROVE Announces
    OBVIOUS
  <2>1. DeliveryInv'
    BY DeliveryStep
  <2>2. ASSUME NEW c \in completed' PROVE child'[c].reply = "none" /\ waiters'[c] = 0
    <3>1. c \in Ids /\ c \notin Live' /\ waiters'[c] \in Nat
      BY <2>1 DEF DeliveryInv, Safety, TypeOK, OneRecordPerId, Live, Running
    <3> QED
      BY <2>1, <3>1 DEF DeliveryInv, CallersFit, Safety, WaitersOnLive
  <2>3. DeliveredStep
    BY StepDelivers DEF Delivers
  <2> QED
    BY <2>2, <2>3 DEF DeliveredStep
<1>2. Spec => [][Announces]_vars
  <2> HIDE DEF Announces
  <2> QED
    BY <1>1, DeliveryInvHolds, PTL DEF Spec
<1> QED
  BY <1>2 DEF AnnouncedIfUnheard

\* A child that a delete waits for puts nothing in the completion buffer, whichever of the
\* handlers, the reap and the queue sweep finishes it.
THEOREM TeardownSilencesHolds == Spec => TeardownSilences
<1>1. DeliveryInv /\ [Next]_vars => [SilentStep]_vars
  BY StepDelivers DEF Delivers
<1>2. Spec => [][SilentStep]_vars
  BY <1>1, DeliveryInvHolds, PTL DEF Spec
<1> QED
  BY <1>2 DEF TeardownSilences, SilentStep
=============================================================================
