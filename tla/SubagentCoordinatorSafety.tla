---------------------- MODULE SubagentCoordinatorSafety ----------------------
(***************************************************************************)
(* Safety is an inductive invariant of SubagentCoordinator: slots, queue,   *)
(* Stop and delete are right for every limit, every number of sessions and  *)
(* spawns and every interleaving.                                           *)
(*                                                                          *)
(* The argument. A spawn is parked only when its session holds all its      *)
(* slots (QueuedAtCapacity), so finishing one child frees at most one slot  *)
(* that matters; the sweep gives it to the first live spawn of that session *)
(* and to no other, because the spawns are linearly ordered (QueueOrdered)  *)
(* and hold no workflow (QueuedNotWorkflow). Removing parked spawns frees   *)
(* nothing and starts nothing. Hence a session that is closed, which has no *)
(* parked spawn, gets no new child (StopIsComplete).                        *)
(***************************************************************************)
EXTENDS SubagentCoordinatorProofs

(***************************************************************************)
(* Counting                                                                *)
(***************************************************************************)

\* The children that hold slots are counted by a natural number.
LEMMA SlotsFinite ==
  ASSUME NEW s, NEW R \in SUBSET Ids
  PROVE  /\ IsFiniteSet(SlotsHeld(s, R))
         /\ Cardinality(SlotsHeld(s, R)) \in Nat
<1>1. SlotsHeld(s, R) \subseteq Ids
  BY DEF SlotsHeld
<1> QED
  BY <1>1, IdsAssumption, FS_Subset, FS_CardinalityType

\* A set with an element is not counted as zero, the empty set is.
LEMMA CountZero ==
  ASSUME NEW T \in SUBSET Ids
  PROVE  /\ IsFiniteSet(T) /\ Cardinality(T) \in Nat
         /\ Cardinality(T) = 0 <=> T = {}
  BY IdsAssumption, FS_Subset, FS_CardinalityType, FS_EmptySet

\* The limit is a positive number.
LEMMA LimitPositive == Limit \in Nat \ {0}
  BY LimitAssumption DEF Limit

(***************************************************************************)
(* Finishing children                                                      *)
(***************************************************************************)

\* What a handler hands to FinishChildren: the known children keep their session
\* and owner, the finished ones are not finished already, and no two of them held
\* a slot.
FinishArguments(F, ch, tk) ==
  /\ F \subseteq Ids /\ F \intersect completed = {}
  /\ ch \in [Ids -> ChildRecord] /\ tk \in [Ids -> BOOLEAN]
  /\ \A c \in Live \union completed :
       ch[c].parent = child[c].parent /\ ch[c].owner = child[c].owner
  /\ F \intersect Running = {} \/ \E c \in Ids : F = {c}
  /\ \A c \in F : ch[c].parent \in Sessions

\* The spawns that the sweep drops and starts.
DroppedBy(F, tk) == {c \in queued \ F : tk[c]}
StartedBy(F, tk) == StartsFromQueue(queued \ F, Running \ F, tk)

\* Where the children stand afterwards.
LEMMA FinishShape ==
  ASSUME NEW F, NEW C, NEW ch, NEW tk, NEW bf, FinishArguments(F, ch, tk),
         FinishChildren(F, C, ch, tk, bf), TypeOK
  PROVE  /\ queued' = (queued \ F) \ (DroppedBy(F, tk) \union StartedBy(F, tk))
         /\ pending' = (pending \ F) \union StartedBy(F, tk)
         /\ active' = active \ F
         /\ completed' = completed \union F \union DroppedBy(F, tk)
         /\ ahead' = [c \in Ids |-> IF c \in queued' THEN ahead[c] \intersect queued'
                                                     ELSE {}]
         /\ \A c \in Live \union completed :
              child'[c].parent = child[c].parent /\ child'[c].owner = child[c].owner
         /\ \A c \in F : child'[c].parent = ch[c].parent
         /\ token' = tk
         /\ \A c \in Ids : waiters'[c] > 0 => /\ waiters[c] > 0
                                              /\ c \notin F \union DroppedBy(F, tk)
         /\ workflowCancelWaiters' =
              {run \in workflowCancelWaiters : WorkflowOutstanding(run)'}
<1> DEFINE dropped  == {c \in queued \ F : tk[c]}
           started  == StartsFromQueue(queued \ F, Running \ F, tk)
           finished == F \union dropped
           out      == [c \in finished |->
                          OutcomeOf(ch[c],
                                    IF c \in Running THEN ch[c].handleOnly
                                                     ELSE ch[c].mode = "background",
                                    waiters[c] > 0,
                                    c \in C \union dropped)]
<1>1. /\ queued' = (queued \ F) \ (dropped \union started)
      /\ ahead' = [c \in Ids |-> IF c \in queued' THEN ahead[c] \intersect queued'
                                                  ELSE {}]
      /\ pending' = (pending \ F) \union started
      /\ active' = active \ F
      /\ completed' = completed \union finished
      /\ child' = [c \in Ids |->
                     IF c \in finished THEN FinishedRecord(ch[c], out[c])
                     ELSE IF c \in started THEN StartQueued(ch[c]) ELSE ch[c]]
      /\ token' = tk
      /\ waiters' = AnsweredWaiters(finished)
      /\ workflowCancelWaiters' =
           {run \in workflowCancelWaiters : WorkflowOutstanding(run)'}
  BY DEF FinishChildren
<1>2. ASSUME NEW c \in Ids
      PROVE  child'[c].parent = ch[c].parent /\ child'[c].owner = ch[c].owner
  <2>1. ch[c] \in ChildRecord
    BY DEF FinishArguments
  <2>2. ASSUME NEW o
        PROVE  /\ FinishedRecord(ch[c], o).parent = ch[c].parent
               /\ FinishedRecord(ch[c], o).owner = ch[c].owner
    BY <2>1 DEF FinishedRecord, ChildRecord
  <2>3. /\ StartQueued(ch[c]).parent = ch[c].parent
        /\ StartQueued(ch[c]).owner = ch[c].owner
    BY <2>1 DEF StartQueued, ChildRecord
  <2>4. \/ child'[c] = FinishedRecord(ch[c], out[c])
        \/ child'[c] = StartQueued(ch[c])
        \/ child'[c] = ch[c]
    BY <1>1, Zenon
  <2> QED
    BY <2>2, <2>3, <2>4, Zenon
<1>3. \A c \in Ids : waiters'[c] > 0 => waiters[c] > 0 /\ c \notin finished
  BY <1>1 DEF AnsweredWaiters
<1>4. \A c \in Live \union completed :
        child'[c].parent = child[c].parent /\ child'[c].owner = child[c].owner
  BY <1>2 DEF FinishArguments, Live, Running, TypeOK
<1>5. \A c \in F : child'[c].parent = ch[c].parent
  BY <1>2 DEF FinishArguments
<1> QED
  BY <1>1, <1>3, <1>4, <1>5, Zenon DEF DroppedBy, StartedBy

\* A spawn that the sweep starts was parked, is not cancelled, and found a slot.
LEMMA StartedParked ==
  ASSUME NEW F, NEW tk, NEW c \in StartedBy(F, tk)
  PROVE  c \in queued /\ c \notin F /\ ~tk[c]
  BY DEF StartedBy, StartsFromQueue

\* Which spawns of session s start: none when no slot of s was freed, and the
\* first live one when one was.
LEMMA SweepOfSession ==
  ASSUME Safety, NEW F, NEW ch, NEW tk, FinishArguments(F, ch, tk), NEW s \in Sessions
  PROVE  LET held    == SlotsHeld(s, Running)
             left    == SlotsHeld(s, Running \ F)
             parked  == {c \in queued \ F : ~tk[c] /\ child[c].parent = s}
             started == {c \in StartedBy(F, tk) : child[c].parent = s}
         IN  \/ started = {} /\ left = held
             \/ started = {} /\ parked = {} /\ left \subseteq held
             \/ \E c \in parked : /\ started = {c}
                                  /\ Cardinality(left) + 1 = Limit
<1> DEFINE held    == SlotsHeld(s, Running)
           left    == SlotsHeld(s, Running \ F)
           parked  == {c \in queued \ F : ~tk[c] /\ child[c].parent = s}
           started == {c \in StartedBy(F, tk) : child[c].parent = s}
           front(c) == {d \in ahead[c] \intersect (queued \ F) :
                          ~tk[d] /\ child[d].parent = child[c].parent}
<1>1. TypeOK /\ Running \subseteq Ids /\ Running \ F \subseteq Ids
  BY DEF Safety, TypeOK, Running
<1>2. /\ Cardinality(held) \in Nat /\ Cardinality(left) \in Nat
      /\ IsFiniteSet(held) /\ IsFiniteSet(left)
  BY <1>1, SlotsFinite
<1>3. ASSUME NEW c \in queued
      PROVE  Cardinality(front(c)) \in Nat
             /\ (Cardinality(front(c)) = 0 <=> front(c) = {})
  <2>1. front(c) \in SUBSET Ids
    BY <1>1 DEF TypeOK
  <2> HIDE DEF front
  <2> QED
    BY <2>1, CountZero
<1>4. started = {c \in parked : Cardinality(left) + Cardinality(front(c)) < Limit}
  BY DEF StartedBy, StartsFromQueue, HasCapacity
<1>5. ASSUME NEW c \in parked
      PROVE  /\ Cardinality(held) = Limit
             /\ front(c) = ahead[c] \intersect parked
  <2>1. c \in queued /\ child[c].parent = s
    OBVIOUS
  <2>2. Cardinality(held) >= Limit
    BY <2>1 DEF Safety, QueuedAtCapacity
  <2>3. Cardinality(held) <= Limit
    BY DEF Safety, CapacityBound
  <2>4. front(c) = ahead[c] \intersect parked
    BY <2>1
  <2> QED
    BY <1>2, <2>2, <2>3, <2>4, LimitPositive
<1>6. CASE left = held
  <2>1. started = {}
    <3> SUFFICES ASSUME NEW c \in started PROVE FALSE
      OBVIOUS
    <3>1. c \in parked /\ Cardinality(left) + Cardinality(front(c)) < Limit
      BY <1>4
    <3>2. Cardinality(held) = Limit /\ Cardinality(front(c)) \in Nat
      BY <1>3, <1>5, <3>1
    <3> HIDE DEF held, left, front, parked, started
    <3> QED
      BY <1>2, <1>6, <3>1, <3>2, LimitPositive
  <2> QED
    BY <1>6, <2>1
<1>7. CASE left # held /\ parked = {}
  <2>1. left \subseteq held
    BY DEF SlotsHeld
  <2>2. started = {}
    BY <1>4, <1>7
  <2> QED
    BY <1>7, <2>1, <2>2
<1>8. CASE left # held /\ parked # {}
  <2>1. PICK c0 \in held : left = held \ {c0}
    BY <1>8 DEF SlotsHeld, FinishArguments
  <2>2. Cardinality(left) = Cardinality(held) - 1
    BY <1>2, <2>1, FS_RemoveElement
  <2>3. Cardinality(held) = Limit
    BY <1>5, <1>8
  <2>4. parked \in SUBSET queued
    OBVIOUS
  <2>5. PICK c \in parked : ahead[c] \intersect parked = {}
    BY <1>8, <2>4 DEF Safety, QueueOrdered
  <2>6. \A d \in parked : d # c => ahead[d] \intersect parked # {}
    BY <2>4, <2>5 DEF Safety, QueueOrdered
  <2>7. \A d \in parked : d \in started <=> front(d) = {}
    <3> SUFFICES ASSUME NEW d \in parked
                 PROVE  d \in started <=> front(d) = {}
      OBVIOUS
    <3>1. d \in started <=> Cardinality(left) + Cardinality(front(d)) < Limit
      BY <1>4
    <3>2. Cardinality(front(d)) \in Nat /\ (Cardinality(front(d)) = 0 <=> front(d) = {})
      BY <1>3
    <3> HIDE DEF held, left, front, parked, started
    <3> QED
      BY <1>2, <2>2, <2>3, <3>1, <3>2, LimitPositive
  <2>8. started \subseteq parked
    BY <1>4
  <2>9. started = {c}
    <3>1. \A d \in parked : front(d) = ahead[d] \intersect parked
      BY <1>5
    <3> HIDE DEF front, parked, started
    <3> QED
      BY <2>5, <2>6, <2>7, <2>8, <3>1
  <2>10. Cardinality(left) + 1 = Limit
    <3> HIDE DEF held, left
    <3> QED
      BY <1>2, <2>2, <2>3, LimitPositive
  <2> QED
    BY <2>9, <2>10
<1> QED
  BY <1>6, <1>7, <1>8

\* Finishing children keeps the slots within the limit and full while spawns wait.
LEMMA FinishCapacity ==
  ASSUME Safety, NEW F, NEW C, NEW ch, NEW tk, NEW bf, FinishArguments(F, ch, tk),
         FinishChildren(F, C, ch, tk, bf)
  PROVE  CapacityBound' /\ QueuedAtCapacity'
<1>0. TypeOK
  BY DEF Safety
<1>1. ASSUME NEW s \in Sessions
      PROVE  /\ Cardinality(SlotsHeld(s, Running)') <= Limit
             /\ (\E c \in queued' : child'[c].parent = s) =>
                   Cardinality(SlotsHeld(s, Running)') >= Limit
  <2> DEFINE held    == SlotsHeld(s, Running)
             left    == SlotsHeld(s, Running \ F)
             parked  == {c \in queued \ F : ~tk[c] /\ child[c].parent = s}
             started == {c \in StartedBy(F, tk) : child[c].parent = s}
             after   == SlotsHeld(s, Running)'
             waiting == {c \in queued' : child'[c].parent = s}
  <2>1. Running' = (Running \ F) \union StartedBy(F, tk)
    BY <1>0, FinishShape DEF Running
  <2>2. \A c \in Live : /\ child'[c].parent = child[c].parent
                        /\ child'[c].owner = child[c].owner
    BY <1>0, FinishShape
  <2>3. \A c \in StartedBy(F, tk) : c \in queued /\ ~IsWorkflow(child[c].owner)
    BY StartedParked DEF Safety, QueuedNotWorkflow
  <2>4. after = left \union started
    <3>1. after = {c \in Running' : child'[c].parent = s
                                    /\ ~IsWorkflow(child'[c].owner)}
      BY DEF SlotsHeld, Running, IsWorkflow
    <3> QED
      BY <2>1, <2>2, <2>3, <3>1 DEF SlotsHeld, Live
  <2>5. waiting = parked \ started
    <3>1. queued' = (queued \ F) \ (DroppedBy(F, tk) \union StartedBy(F, tk))
      BY <1>0, FinishShape
    <3> QED
      BY <2>2, <3>1, StartedParked DEF DroppedBy, Live
  <2>6. /\ IsFiniteSet(held) /\ IsFiniteSet(left)
        /\ Cardinality(held) \in Nat /\ Cardinality(left) \in Nat
    BY <1>0, SlotsFinite DEF TypeOK, Running
  <2>7. Cardinality(held) <= Limit
    BY DEF Safety, CapacityBound
  <2>8. waiting # {} => Cardinality(held) = Limit
    <3> SUFFICES ASSUME NEW c \in parked PROVE Cardinality(held) = Limit
      BY <2>5
    <3>1. Cardinality(held) >= Limit
      BY DEF Safety, QueuedAtCapacity
    <3> HIDE DEF held
    <3> QED
      BY <2>6, <2>7, <3>1, LimitPositive
  <2>9. \/ started = {} /\ left = held
        \/ started = {} /\ parked = {} /\ left \subseteq held
        \/ \E c \in parked : started = {c} /\ Cardinality(left) + 1 = Limit
    BY SweepOfSession, Zenon
  <2>10. left \intersect parked = {}
    BY DEF SlotsHeld, Safety, OneRecordPerId
  <2> SUFFICES Cardinality(after) <= Limit
               /\ (waiting # {} => Cardinality(after) >= Limit)
    BY Zenon
  <2> HIDE DEF held, left, parked, started, after, waiting
  <2>11. CASE started = {} /\ left = held
    BY <2>4, <2>6, <2>7, <2>8, <2>11, LimitPositive
  <2>12. CASE started = {} /\ parked = {} /\ left \subseteq held
    <3>1. Cardinality(left) <= Cardinality(held)
      BY <2>6, <2>12, FS_Subset
    <3> QED
      BY <2>4, <2>5, <2>6, <2>7, <2>12, <3>1, LimitPositive
  <2>13. CASE \E c \in parked : started = {c} /\ Cardinality(left) + 1 = Limit
    <3>1. PICK c \in parked : started = {c} /\ Cardinality(left) + 1 = Limit
      BY <2>13
    <3>2. Cardinality(after) = Cardinality(left) + 1
      BY <2>4, <2>6, <2>10, <3>1, FS_AddElement
    <3> QED
      BY <2>6, <3>1, <3>2, LimitPositive
  <2> QED
    BY <2>9, <2>11, <2>12, <2>13
<1>2. \A c \in queued' : child'[c].parent \in Sessions
  BY <1>0, FinishShape DEF Safety, KeyedToSession, Live
<1> QED
  BY <1>1, <1>2 DEF CapacityBound, QueuedAtCapacity

\* Finishing children keeps one record per id, the order of the queue and the
\* queries on live children.
LEMMA FinishLedger ==
  ASSUME Safety, NEW F, NEW C, NEW ch, NEW tk, NEW bf, FinishArguments(F, ch, tk),
         FinishChildren(F, C, ch, tk, bf)
  PROVE  /\ OneRecordPerId' /\ KeyedToSession' /\ QueuedNotWorkflow' /\ QueueOrdered'
         /\ WorkflowCancelJustified' /\ WaitersOnLive'
<1>0. TypeOK
  BY DEF Safety
<1>1. /\ queued' = (queued \ F) \ (DroppedBy(F, tk) \union StartedBy(F, tk))
      /\ pending' = (pending \ F) \union StartedBy(F, tk)
      /\ active' = active \ F
      /\ completed' = completed \union F \union DroppedBy(F, tk)
      /\ ahead' = [c \in Ids |-> IF c \in queued' THEN ahead[c] \intersect queued'
                                                  ELSE {}]
      /\ \A c \in Live \union completed :
           child'[c].parent = child[c].parent /\ child'[c].owner = child[c].owner
      /\ \A c \in F : child'[c].parent = ch[c].parent
      /\ \A c \in Ids : waiters'[c] > 0 => /\ waiters[c] > 0
                                           /\ c \notin F \union DroppedBy(F, tk)
      /\ workflowCancelWaiters' =
           {run \in workflowCancelWaiters : WorkflowOutstanding(run)'}
  BY <1>0, FinishShape
<1>2. \A c \in StartedBy(F, tk) : c \in queued /\ c \notin F /\ ~tk[c]
  BY StartedParked
<1>3. OneRecordPerId'
  BY <1>1, <1>2 DEF Safety, OneRecordPerId, Running, Live, DroppedBy, FinishArguments
<1>4. QueuedNotWorkflow'
  BY <1>1 DEF Safety, QueuedNotWorkflow, Live, IsWorkflow
<1>5. QueueOrdered'
  <2>1. queued' \subseteq queued /\ queued' \subseteq Ids
    BY <1>0, <1>1 DEF TypeOK
  <2>2. \A c \in queued' : ahead'[c] = ahead[c] \intersect queued'
    BY <1>1, <2>1
  <2>3. \A c \in Ids : ahead'[c] \subseteq queued'
    BY <1>1
  <2>4. \A c, d \in queued' : c # d => c \in ahead'[d] \/ d \in ahead'[c]
    BY <2>1, <2>2 DEF Safety, QueueOrdered
  <2>5. ASSUME NEW group \in SUBSET queued', group # {}
        PROVE  \E c \in group : ahead'[c] \intersect group = {}
    <3>1. group \in SUBSET queued
      BY <2>1
    <3>2. PICK c \in group : ahead[c] \intersect group = {}
      BY <2>5, <3>1 DEF Safety, QueueOrdered
    <3> QED
      BY <2>2, <3>2
  <2> QED
    BY <2>3, <2>4, <2>5 DEF QueueOrdered
<1>6. WorkflowCancelJustified'
  BY <1>1 DEF WorkflowCancelJustified
<1>7. WaitersOnLive'
  BY <1>1, <1>2 DEF Safety, WaitersOnLive, Live, Running, DroppedBy
<1>8. KeyedToSession'
  BY <1>1, <1>2 DEF Safety, KeyedToSession, Live, Running, DroppedBy, FinishArguments
<1> QED
  BY <1>3, <1>4, <1>5, <1>6, <1>7, <1>8

\* A session that is closed afterwards keeps no spawn and no child that was not
\* told to stop, when that was so of the children that are not finished.
LEMMA FinishStopped ==
  ASSUME Safety, NEW F, NEW C, NEW ch, NEW tk, NEW bf, FinishArguments(F, ch, tk),
         FinishChildren(F, C, ch, tk, bf),
         \A c \in Live \ F : /\ child[c].parent \in spawnBlocked'
                             /\ ~IsWorkflow(child[c].owner)
                             => c \in Running /\ tk[c]
  PROVE  StopIsComplete'
<1>0. TypeOK
  BY DEF Safety
<1>1. /\ queued' = (queued \ F) \ (DroppedBy(F, tk) \union StartedBy(F, tk))
      /\ pending' = (pending \ F) \union StartedBy(F, tk)
      /\ active' = active \ F
      /\ \A c \in Live : /\ child'[c].parent = child[c].parent
                         /\ child'[c].owner = child[c].owner
      /\ token' = tk
  BY <1>0, FinishShape
<1>2. \A c \in StartedBy(F, tk) : c \in queued /\ c \notin F /\ ~tk[c]
  BY StartedParked
<1>3. queued \intersect Running = {}
  BY DEF Safety, OneRecordPerId
<1> QED
  BY <1>1, <1>2, <1>3 DEF StopIsComplete, Live, Running, IsWorkflow

(***************************************************************************)
(* The invariant but for the types and the deletes, handler by handler     *)
(***************************************************************************)

Ledger ==
  /\ OneRecordPerId /\ KeyedToSession /\ QueuedNotWorkflow /\ QueueOrdered
  /\ CapacityBound /\ QueuedAtCapacity /\ StopIsComplete
  /\ WorkflowCancelJustified /\ WaitersOnLive

\* Safety is the ledger, the types and the deletes.
LEMMA SafetyParts == Safety <=> TypeOK /\ Ledger /\ DrainHasChildren
  BY DEF Safety, Ledger

\* What closing sessions asks of a handler that leaves tokens tk and finishes F.
StopsInClosed(F, tk) ==
  \A c \in Live \ F : /\ child[c].parent \in spawnBlocked'
                      /\ ~IsWorkflow(child[c].owner)
                      => c \in Running /\ tk[c]

\* Finishing children keeps the ledger.
LEMMA FinishKeeps ==
  ASSUME Safety, NEW F, NEW C, NEW ch, NEW tk, NEW bf, FinishArguments(F, ch, tk),
         FinishChildren(F, C, ch, tk, bf), StopsInClosed(F, tk)
  PROVE  Ledger'
  BY FinishCapacity, FinishLedger, FinishStopped DEF Ledger, StopsInClosed

\* A step that moves no child: records keep session and owner, and queries and
\* workflow cancels are parked on what is there.
Steady ==
  /\ UNCHANGED <<queued, ahead, pending, active, completed>>
  /\ \A c \in Live \union completed :
       child'[c].parent = child[c].parent /\ child'[c].owner = child[c].owner
  /\ \A c \in Ids : waiters'[c] > 0 => waiters[c] > 0 \/ c \in Live
  /\ \A run \in workflowCancelWaiters' :
       run \in workflowCancelWaiters \/ WorkflowOutstanding(run)

\* Such a step keeps the ledger.
LEMMA SteadyKeeps ==
  ASSUME Safety, Steady, StopsInClosed({}, token')
  PROVE  /\ Ledger'
         /\ \A s : SessionHasChildren(s)' <=> SessionHasChildren(s)
<1>1. Running' = Running /\ Live' = Live
  BY DEF Steady, Running, Live
<1>2. \A s : SlotsHeld(s, Running)' = SlotsHeld(s, Running)
  BY <1>1 DEF SlotsHeld, Steady, Live, Running, IsWorkflow
<1>3. OneRecordPerId' /\ KeyedToSession' /\ QueuedNotWorkflow'
  BY <1>1 DEF Safety, OneRecordPerId, KeyedToSession, QueuedNotWorkflow, Steady, Live,
              IsWorkflow
<1>4. QueueOrdered'
  BY DEF Safety, QueueOrdered, Steady
<1>5. CapacityBound'
  BY <1>2 DEF Safety, CapacityBound
<1>6. QueuedAtCapacity'
  <2>1. \A c \in queued : child'[c].parent = child[c].parent
    BY DEF Steady, Live
  <2> QED
    BY <1>2, <2>1 DEF Safety, QueuedAtCapacity, Steady
<1>7. StopIsComplete'
  BY <1>1 DEF StopIsComplete, StopsInClosed, Steady, IsWorkflow
<1>8. WorkflowCancelJustified'
  BY <1>1 DEF Safety, WorkflowCancelJustified, WorkflowOutstanding, Steady, Live
<1>9. WaitersOnLive'
  BY <1>1 DEF Safety, WaitersOnLive, Steady
<1>10. \A s : SessionHasChildren(s)' <=> SessionHasChildren(s)
  BY <1>1 DEF SessionHasChildren, Steady
<1> QED
  BY <1>3, <1>4, <1>5, <1>6, <1>7, <1>8, <1>9, <1>10 DEF Ledger

\* Removing spawns from the queue, or nothing, keeps the ledger.
LEMMA RemoveKeeps ==
  ASSUME Safety, NEW S \in SUBSET queued, NEW ch \in [Ids -> ChildRecord],
         NEW tk \in [Ids -> BOOLEAN], NEW bf, RemoveQueued(S, ch, tk, bf),
         \A c \in Live \union completed :
           ch[c].parent = child[c].parent /\ ch[c].owner = child[c].owner,
         StopsInClosed(S, tk)
  PROVE  Ledger'
<1>1. CASE S = {}
  <2>1. Steady /\ token' = tk
    BY <1>1 DEF RemoveQueued, EditChildren, Steady
  <2> QED
    BY <1>1, <2>1, SteadyKeeps
<1>2. CASE S # {}
  <2> DEFINE tks == [c \in Ids |-> c \in S \/ tk[c]]
  <2>1. FinishChildren(S, S, ch, tks, bf)
    BY <1>2 DEF RemoveQueued
  <2>2. FinishArguments(S, ch, tks)
    BY DEF FinishArguments, Safety, TypeOK, OneRecordPerId, KeyedToSession, Live
  <2>3. StopsInClosed(S, tks)
    BY DEF StopsInClosed, Safety, TypeOK, Running
  <2> HIDE DEF tks
  <2> QED
    BY <2>1, <2>2, <2>3, FinishKeeps
<1> QED
  BY <1>1, <1>2

\* Resolving deletes leaves only those with children, closed.
LEMMA ResolveKeeps ==
  ASSUME NEW drains, NEW blocked, ResolveTeardownDrains(drains, blocked),
         drains \subseteq blocked
  PROVE  DrainHasChildren' /\ spawnBlocked' \subseteq blocked
  BY DEF ResolveTeardownDrains, DrainHasChildren

\* The edits of a record keep its session and owner.
LEMMA RecordKeys ==
  ASSUME NEW rec \in ChildRecord
  PROVE  /\ MarkBackgrounded(rec).parent = rec.parent
         /\ MarkBackgrounded(rec).owner = rec.owner
         /\ BackgroundQueued(rec).parent = rec.parent
         /\ BackgroundQueued(rec).owner = rec.owner
         /\ Silenced(rec).parent = rec.parent /\ Silenced(rec).owner = rec.owner
         /\ WakeRecord(rec).parent = rec.parent /\ WakeRecord(rec).owner = rec.owner
         /\ [rec EXCEPT !.reply = "none"].parent = rec.parent
         /\ [rec EXCEPT !.reply = "none"].owner = rec.owner
         /\ [rec EXCEPT !.reply = "closed"].parent = rec.parent
         /\ [rec EXCEPT !.reply = "closed"].owner = rec.owner
         /\ [rec EXCEPT !.killed = TRUE].parent = rec.parent
         /\ [rec EXCEPT !.killed = TRUE].owner = rec.owner
         /\ \A flag : /\ StartedRecord(rec, flag).parent = rec.parent
                      /\ StartedRecord(rec, flag).owner = rec.owner
<1>1. /\ MarkBackgrounded(rec).parent = rec.parent
      /\ MarkBackgrounded(rec).owner = rec.owner
      /\ BackgroundQueued(rec).parent = rec.parent
      /\ BackgroundQueued(rec).owner = rec.owner
  BY DEF MarkBackgrounded, BackgroundQueued, ChildRecord
<1>2. /\ Silenced(rec).parent = rec.parent /\ Silenced(rec).owner = rec.owner
      /\ WakeRecord(rec).parent = rec.parent /\ WakeRecord(rec).owner = rec.owner
  BY DEF Silenced, WakeRecord, ChildRecord
<1>3. /\ [rec EXCEPT !.reply = "none"].parent = rec.parent
      /\ [rec EXCEPT !.reply = "none"].owner = rec.owner
      /\ [rec EXCEPT !.reply = "closed"].parent = rec.parent
      /\ [rec EXCEPT !.reply = "closed"].owner = rec.owner
      /\ [rec EXCEPT !.killed = TRUE].parent = rec.parent
      /\ [rec EXCEPT !.killed = TRUE].owner = rec.owner
  BY DEF ChildRecord
<1>4. \A flag : /\ StartedRecord(rec, flag).parent = rec.parent
                /\ StartedRecord(rec, flag).owner = rec.owner
  BY DEF StartedRecord, ChildRecord
<1> QED
  BY <1>1, <1>2, <1>3, <1>4

\* A steady step that closes nothing and takes back no cancellation is safe.
LEMMA SteadySafe ==
  ASSUME Safety, Steady, \A c \in Live : token[c] => token'[c],
         spawnBlocked' \subseteq spawnBlocked,
         teardownDrains' \subseteq teardownDrains \intersect spawnBlocked'
  PROVE  Ledger' /\ DrainHasChildren'
<1>1. StopsInClosed({}, token')
  BY DEF StopsInClosed, Safety, StopIsComplete
<1>2. Ledger' /\ \A s : SessionHasChildren(s)' <=> SessionHasChildren(s)
  BY <1>1, SteadyKeeps
<1> QED
  BY <1>2 DEF Safety, DrainHasChildren

\* Deletes hold their sessions closed.
LEMMA DrainsClosed == Safety => teardownDrains \subseteq spawnBlocked
  BY DEF Safety, DrainHasChildren

\* Other threads.
LEMMA EnvironmentSafe == Safety /\ Environment => Ledger' /\ DrainHasChildren'
<1> SUFFICES ASSUME Safety, Environment PROVE Ledger' /\ DrainHasChildren'
  OBVIOUS
<1>0. TypeOK /\ teardownDrains \subseteq spawnBlocked
  BY DrainsClosed DEF Safety
<1>1. ASSUME NEW c \in Ids, CancelToken(c) PROVE Ledger' /\ DrainHasChildren'
  <2>1. Steady
    BY <1>1 DEF CancelToken, Steady
  <2>2. \A d \in Live : token[d] => token'[d]
    BY <1>0, <1>1 DEF CancelToken, TypeOK, Live, Running
  <2> QED
    BY <1>0, <1>1, <2>1, <2>2, SteadySafe DEF CancelToken
<1>2. ASSUME NEW c \in Ids, DropCaller(c) PROVE Ledger' /\ DrainHasChildren'
  <2>1. Steady
    <3>1. /\ [child[c] EXCEPT !.reply = "closed"].parent = child[c].parent
          /\ [child[c] EXCEPT !.reply = "closed"].owner = child[c].owner
      BY <1>0, RecordKeys, Zenon DEF TypeOK
    <3>2. child' = [child EXCEPT ![c] = [child[c] EXCEPT !.reply = "closed"]]
      BY <1>2 DEF DropCaller
    <3>3. \A d \in Ids : child'[d].parent = child[d].parent
                         /\ child'[d].owner = child[d].owner
      BY <1>0, <3>1, <3>2 DEF TypeOK
    <3> QED
      BY <1>0, <1>2, <3>3 DEF DropCaller, Steady, TypeOK, Live, Running
  <2> QED
    BY <1>0, <1>2, <2>1, SteadySafe DEF DropCaller
<1>3. ASSUME NEW c \in Ids, AbandonQuery(c) PROVE Ledger' /\ DrainHasChildren'
  <2>1. Steady
    BY <1>0, <1>3 DEF AbandonQuery, Steady, TypeOK
  <2> QED
    BY <1>0, <1>3, <2>1, SteadySafe DEF AbandonQuery
<1>4. ASSUME NEW scope \in drainWaiters, AbandonDrainWait(scope)
      PROVE  Ledger' /\ DrainHasChildren'
  <2>1. Steady
    BY <1>4 DEF AbandonDrainWait, Steady
  <2> QED
    BY <1>0, <1>4, <2>1, SteadySafe DEF AbandonDrainWait
<1> QED
  BY <1>1, <1>2, <1>3, <1>4 DEF Environment

\* Cancelling more tokens takes none back.
LEMMA TokensGrow ==
  ASSUME NEW S, NEW c \in Ids
  PROVE  CancelTokens(S)[c] <=> c \in S \/ token[c]
  BY DEF CancelTokens

\* The sweep keeps the session and the owner of every record.
LEMMA ReapedKeys ==
  ASSUME TypeOK, NEW c \in Ids
  PROVE  Reaped(c) \in ChildRecord /\ Reaped(c).parent = child[c].parent
         /\ Reaped(c).owner = child[c].owner
<1>1. child[c] \in ChildRecord
  BY DEF TypeOK
<1>2. \/ Reaped(c) = [child[c] EXCEPT !.reply = "none"]
      \/ Reaped(c) = MarkBackgrounded(child[c])
      \/ Reaped(c) = BackgroundQueued(child[c])
      \/ Reaped(c) = child[c]
  BY DEF Reaped
<1>3. /\ MarkBackgrounded(child[c]) \in ChildRecord
      /\ BackgroundQueued(child[c]) \in ChildRecord
      /\ [child[c] EXCEPT !.reply = "none"] \in ChildRecord
  BY <1>1, RecordEdits, Zenon
<1>4. /\ MarkBackgrounded(child[c]).parent = child[c].parent
      /\ MarkBackgrounded(child[c]).owner = child[c].owner
      /\ BackgroundQueued(child[c]).parent = child[c].parent
      /\ BackgroundQueued(child[c]).owner = child[c].owner
      /\ [child[c] EXCEPT !.reply = "none"].parent = child[c].parent
      /\ [child[c] EXCEPT !.reply = "none"].owner = child[c].owner
  BY <1>1, RecordKeys, Zenon
<1> QED
  BY <1>1, <1>2, <1>3, <1>4, Zenon

\* The sweep of abandoned callers and cancelled spawns.
LEMMA ReapSafe ==
  ASSUME Safety, NEW next, Reap(next)
  PROVE  Ledger' /\ DrainHasChildren'
<1> DEFINE reaped == [c \in Ids |-> Reaped(c)]
           orphans == {c \in Ids : CallerGone(c)
                                   /\ CancelOnReceiverDrop(child[c].owner)}
           due == {c \in queued : token[c]}
<1>0. TypeOK /\ ChildrenTyped /\ teardownDrains \subseteq spawnBlocked
  BY DrainsClosed, TypeHalves DEF Safety
<1>1. RemoveQueued(due, reaped, CancelTokens(orphans), buffered)
  BY DEF Reap
<1>2. DrainHasChildren' /\ spawnBlocked' \subseteq spawnBlocked
  BY <1>0, ResolveKeeps DEF Reap
<1>3. \A c \in Ids : Reaped(c) \in ChildRecord /\ Reaped(c).parent = child[c].parent
                     /\ Reaped(c).owner = child[c].owner
  BY <1>0, ReapedKeys
<1>4. reaped \in [Ids -> ChildRecord] /\ CancelTokens(orphans) \in [Ids -> BOOLEAN]
      /\ due \in SUBSET queued
  BY <1>0, <1>3, TokensTyped
<1>5. \A c \in Live \union completed :
        reaped[c].parent = child[c].parent /\ reaped[c].owner = child[c].owner
  BY <1>0, <1>3 DEF TypeOK, Live, Running
<1>6. StopsInClosed(due, CancelTokens(orphans))
  BY <1>0, <1>2, TokensGrow
  DEF StopsInClosed, Safety, StopIsComplete, TypeOK, Live, Running
<1> HIDE DEF reaped, orphans, due
<1>7. Ledger'
  BY <1>1, <1>4, <1>5, <1>6, RemoveKeeps
<1> QED
  BY <1>2, <1>7

(***************************************************************************)
(* New children                                                            *)
(***************************************************************************)

\* A spawn or a wake admits c: nobody else changes, and c does not belong to a
\* session that is closed to it.
Admits(c) ==
  /\ c \in Ids /\ c \notin Live /\ c \notin completed' /\ completed' \subseteq completed
  /\ \A d \in Ids \ {c} : child'[d] = child[d] /\ token'[d] = token[d]
  /\ child'[c].parent \in Sessions
  /\ IsWorkflow(child'[c].owner) \/ child'[c].parent \notin spawnBlocked
  /\ UNCHANGED <<active, waiters, workflowCancelWaiters, teardownDrains, spawnBlocked>>

\* A child admitted with a slot to spare, or by a workflow, starts.
LEMMA AdmitStartSafe ==
  ASSUME Safety, NEW c, Admits(c), UNCHANGED <<queued, ahead>>,
         pending' = pending \union {c},
         AdmitStarts(child'[c].owner, child'[c].parent)
  PROVE  Ledger' /\ DrainHasChildren'
<1>0. TypeOK /\ Ledger /\ DrainHasChildren
  BY SafetyParts
<1>1. Running' = Running \union {c} /\ Live' = Live \union {c} /\ c \in Ids
      /\ c \notin Running /\ c \notin queued
  BY DEF Admits, Running, Live
<1>2. \A d \in Live \union completed' : d # c => child'[d] = child[d]
  BY <1>0 DEF Admits, TypeOK, Live, Running
<1>3. OneRecordPerId' /\ KeyedToSession' /\ QueuedNotWorkflow' /\ QueueOrdered'
  <2>1. OneRecordPerId'
    BY <1>0, <1>1 DEF Ledger, OneRecordPerId, Admits, Running, Live
  <2>2. KeyedToSession'
    BY <1>0, <1>1, <1>2 DEF Ledger, KeyedToSession, Admits
  <2>3. QueuedNotWorkflow'
    BY <1>0, <1>1, <1>2 DEF Ledger, QueuedNotWorkflow, IsWorkflow, Live
  <2>4. QueueOrdered'
    BY <1>0 DEF Ledger, QueueOrdered
  <2> QED
    BY <2>1, <2>2, <2>3, <2>4
<1>4. ASSUME NEW s \in Sessions
      PROVE  /\ Cardinality(SlotsHeld(s, Running)') <= Limit
             /\ Cardinality(SlotsHeld(s, Running)') >= Cardinality(SlotsHeld(s, Running))
  <2> DEFINE held == SlotsHeld(s, Running)
             after == SlotsHeld(s, Running)'
  <2>1. IsFiniteSet(held) /\ Cardinality(held) \in Nat /\ Cardinality(held) <= Limit
    BY <1>0, SlotsFinite DEF TypeOK, Running, Ledger, CapacityBound
  <2>2. after = {d \in Running' : child'[d].parent = s /\ ~IsWorkflow(child'[d].owner)}
    BY DEF SlotsHeld, Running, IsWorkflow
  <2>3. c \notin held
    BY <1>1 DEF SlotsHeld
  <2>4. CASE child'[c].parent = s /\ ~IsWorkflow(child'[c].owner)
    <3>1. after = held \union {c}
      BY <1>1, <1>2, <2>2, <2>4 DEF SlotsHeld, Live
    <3>2. Cardinality(held) < Limit
      BY <2>4 DEF AdmitStarts, HasCapacity
    <3> HIDE DEF held, after
    <3>3. Cardinality(after) = Cardinality(held) + 1
      BY <2>1, <2>3, <3>1, FS_AddElement
    <3> QED
      BY <2>1, <3>2, <3>3, LimitPositive DEF held, after
  <2>5. CASE ~(child'[c].parent = s /\ ~IsWorkflow(child'[c].owner))
    <3>1. after = held
      BY <1>1, <1>2, <2>2, <2>5 DEF SlotsHeld, Live
    <3> HIDE DEF held, after
    <3> QED
      BY <2>1, <3>1, LimitPositive DEF held, after
  <2> QED
    BY <2>4, <2>5
<1>5. CapacityBound'
  BY <1>4 DEF CapacityBound
<1>6. QueuedAtCapacity'
  <2>1. ASSUME NEW s \in Sessions, NEW d \in queued', child'[d].parent = s
        PROVE  Cardinality(SlotsHeld(s, Running)') >= Limit
    <3>1. d \in queued /\ child[d].parent = s
      BY <1>1, <1>2, <2>1 DEF Live
    <3>2. Cardinality(SlotsHeld(s, Running)) >= Limit
      BY <1>0, <3>1 DEF Ledger, QueuedAtCapacity
    <3>3. Cardinality(SlotsHeld(s, Running)) \in Nat
      BY <1>0, SlotsFinite DEF TypeOK, Running
    <3>4. Cardinality(SlotsHeld(s, Running)) <= Limit
      BY <1>0 DEF Ledger, CapacityBound
    <3>5. Cardinality(SlotsHeld(s, Running)) = Limit
      BY <3>2, <3>3, <3>4, LimitPositive
    <3> QED
      BY <1>4, <3>5
  <2>2. \A d \in queued' : child'[d].parent \in Sessions
    BY <1>3 DEF KeyedToSession, Live
  <2> QED
    BY <2>1, <2>2 DEF QueuedAtCapacity
<1>7. StopIsComplete'
  <2> SUFFICES ASSUME NEW d \in Live', child'[d].parent \in spawnBlocked',
                      ~IsWorkflow(child'[d].owner)
               PROVE  d \in Running' /\ token'[d]
    BY DEF StopIsComplete, IsWorkflow
  <2>1. d # c /\ d \in Live
    BY <1>1 DEF Admits
  <2>2. child'[d] = child[d] /\ token'[d] = token[d]
    BY <1>0, <2>1 DEF Admits, TypeOK, Live, Running
  <2> QED
    BY <1>0, <1>1, <2>1, <2>2 DEF Ledger, StopIsComplete, Admits
<1>8. WorkflowCancelJustified'
  BY <1>0, <1>1, <1>2 DEF Ledger, WorkflowCancelJustified, WorkflowOutstanding, Admits, Live
<1>9. WaitersOnLive'
  BY <1>0, <1>1 DEF Ledger, WaitersOnLive, Admits
<1>10. DrainHasChildren'
  BY <1>0, <1>1, <1>2 DEF DrainHasChildren, SessionHasChildren, Admits
<1> QED
  BY <1>3, <1>5, <1>6, <1>7, <1>8, <1>9, <1>10 DEF Ledger

\* A child refused a slot, and owned by no workflow, goes to the back of the queue.
LEMMA AdmitQueueSafe ==
  ASSUME Safety, NEW c, Admits(c), PushBack(c), UNCHANGED pending,
         ~AdmitStarts(child'[c].owner, child'[c].parent)
  PROVE  Ledger' /\ DrainHasChildren'
<1>0. TypeOK /\ Ledger /\ DrainHasChildren
  BY SafetyParts
<1>1. Running' = Running /\ Live' = Live \union {c} /\ c \in Ids
      /\ c \notin Running /\ c \notin queued /\ queued' = queued \union {c}
  BY DEF Admits, PushBack, Running, Live
<1>2. \A d \in Live \union completed' : d # c => child'[d] = child[d]
  BY <1>0 DEF Admits, TypeOK, Live, Running
<1>3. ~IsWorkflow(child'[c].owner) /\ child'[c].parent \notin spawnBlocked
  BY DEF AdmitStarts, Admits
<1>4. \A s : SlotsHeld(s, Running)' = SlotsHeld(s, Running)
  BY <1>1, <1>2 DEF SlotsHeld, Running, Live, IsWorkflow
<1>5. OneRecordPerId' /\ KeyedToSession' /\ QueuedNotWorkflow'
  <2>1. OneRecordPerId'
    BY <1>0, <1>1 DEF Ledger, OneRecordPerId, Admits, Running, Live
  <2>2. KeyedToSession'
    BY <1>0, <1>1, <1>2 DEF Ledger, KeyedToSession, Admits
  <2>3. QueuedNotWorkflow'
    BY <1>0, <1>1, <1>2, <1>3 DEF Ledger, QueuedNotWorkflow, IsWorkflow, Live
  <2> QED
    BY <2>1, <2>2, <2>3
<1>6. QueueOrdered'
  <2>1. ahead'[c] = queued /\ \A d \in Ids : d # c => ahead'[d] = ahead[d]
    BY <1>0, <1>1 DEF PushBack, TypeOK
  <2>2. \A d \in Ids : ahead'[d] \subseteq queued'
    BY <1>0, <1>1, <2>1 DEF Ledger, QueueOrdered
  <2>3. \A d, e \in queued' : d # e => d \in ahead'[e] \/ e \in ahead'[d]
    BY <1>0, <1>1, <2>1 DEF Ledger, QueueOrdered, TypeOK
  <2>4. ASSUME NEW group \in SUBSET queued', group # {}
        PROVE  \E d \in group : ahead'[d] \intersect group = {}
    <3>1. CASE group \ {c} = {}
      BY <1>1, <2>1, <2>4, <3>1
    <3>2. CASE group \ {c} # {}
      <4>1. group \ {c} \in SUBSET queued
        BY <1>1
      <4>2. PICK d \in group \ {c} : ahead[d] \intersect (group \ {c}) = {}
        BY <1>0, <3>2, <4>1 DEF Ledger, QueueOrdered
      <4>3. ahead'[d] = ahead[d] /\ c \notin ahead[d]
        BY <1>0, <1>1, <2>1, <4>1 DEF TypeOK, Ledger, QueueOrdered
      <4> QED
        BY <4>2, <4>3
    <3> QED
      BY <3>1, <3>2
  <2> QED
    BY <2>2, <2>3, <2>4 DEF QueueOrdered
<1>7. CapacityBound'
  BY <1>0, <1>4 DEF Ledger, CapacityBound
<1>8. QueuedAtCapacity'
  <2>1. ASSUME NEW s \in Sessions, NEW d \in queued', child'[d].parent = s
        PROVE  Cardinality(SlotsHeld(s, Running)) >= Limit
    <3>1. CASE d = c
      <4>1. Cardinality(SlotsHeld(s, Running)) \in Nat
        BY <1>0, SlotsFinite DEF TypeOK, Running
      <4>2. ~(Cardinality(SlotsHeld(s, Running)) < Limit)
        BY <2>1, <3>1 DEF AdmitStarts, HasCapacity
      <4> QED
        BY <4>1, <4>2, LimitPositive
    <3>2. CASE d # c
      BY <1>0, <1>1, <1>2, <2>1, <3>2 DEF Ledger, QueuedAtCapacity, Live
    <3> QED
      BY <3>1, <3>2
  <2>2. \A d \in queued' : child'[d].parent \in Sessions
    BY <1>5 DEF KeyedToSession, Live
  <2> QED
    BY <1>4, <2>1, <2>2 DEF QueuedAtCapacity
<1>9. StopIsComplete'
  <2> SUFFICES ASSUME NEW d \in Live', child'[d].parent \in spawnBlocked',
                      ~IsWorkflow(child'[d].owner)
               PROVE  d \in Running' /\ token'[d]
    BY DEF StopIsComplete, IsWorkflow
  <2>1. d # c /\ d \in Live
    BY <1>1, <1>3 DEF Admits
  <2>2. child'[d] = child[d] /\ token'[d] = token[d]
    BY <1>0, <2>1 DEF Admits, TypeOK, Live, Running
  <2> QED
    BY <1>0, <1>1, <2>1, <2>2 DEF Ledger, StopIsComplete, Admits
<1>10. WorkflowCancelJustified'
  BY <1>0, <1>1, <1>2 DEF Ledger, WorkflowCancelJustified, WorkflowOutstanding, Admits, Live
<1>11. WaitersOnLive'
  BY <1>0, <1>1 DEF Ledger, WaitersOnLive, Admits
<1>12. DrainHasChildren'
  BY <1>0, <1>1, <1>2 DEF DrainHasChildren, SessionHasChildren, Admits
<1> QED
  BY <1>5, <1>6, <1>7, <1>8, <1>9, <1>10, <1>11, <1>12 DEF Ledger

\* A spawn that is not refused is keyed to a session that is open to it.
LEMMA SpawnKey ==
  ASSUME Safety, NEW r \in Requests, ~SpawnRefused(r, FALSE), NEW reply
  PROVE  /\ r.id \in Ids \ (Live \union completed)
         /\ SpawnRecord(r, reply).parent = SpawnParent(r)
         /\ SpawnRecord(r, reply).owner = SpawnOwner(r)
         /\ SpawnParent(r) \in Sessions
         /\ IsWorkflow(SpawnOwner(r)) \/ SpawnParent(r) \notin spawnBlocked
<1>1. r.id \in Ids /\ r.parent \in Sessions
  BY RequestTyped DEF Request
<1>2. SpawnParent(r) \in Sessions
  BY <1>1 DEF SpawnParent, IsNested, Safety, KeyedToSession, Live, Running
<1>3. SpawnRecord(r, reply).parent = SpawnParent(r)
      /\ SpawnRecord(r, reply).owner = SpawnOwner(r)
  BY DEF SpawnRecord
<1> QED
  BY <1>1, <1>2, <1>3 DEF SpawnRefused

\* Spawn commands.
LEMMA SpawnSafe == Safety /\ SpawnCommand => Ledger' /\ DrainHasChildren'
<1> SUFFICES ASSUME Safety, SpawnCommand PROVE Ledger' /\ DrainHasChildren'
  OBVIOUS
<1>0. TypeOK /\ teardownDrains \subseteq spawnBlocked
  BY DrainsClosed DEF Safety
<1>1. ASSUME NEW r \in Requests, NEW cancelled, SpawnRefusal(r, cancelled)
      PROVE  Ledger' /\ DrainHasChildren'
  <2>1. Steady
    BY <1>1 DEF SpawnRefusal, Steady
  <2> QED
    BY <1>0, <1>1, <2>1, SteadySafe DEF SpawnRefusal
<1>2. ASSUME NEW r \in Requests, NEW reply, ~SpawnRefused(r, FALSE),
             child' = [child EXCEPT ![r.id] = SpawnRecord(r, reply)],
             token' = [token EXCEPT ![r.id] = FALSE],
             UNCHANGED <<active, completed, waiters, workflowCancelWaiters,
                         teardownDrains, spawnBlocked>>
      PROVE  /\ Admits(r.id)
             /\ child'[r.id].parent = SpawnParent(r)
             /\ child'[r.id].owner = SpawnOwner(r)
  <2>1. /\ r.id \in Ids \ (Live \union completed)
        /\ SpawnRecord(r, reply).parent = SpawnParent(r)
        /\ SpawnRecord(r, reply).owner = SpawnOwner(r)
        /\ SpawnParent(r) \in Sessions
        /\ IsWorkflow(SpawnOwner(r)) \/ SpawnParent(r) \notin spawnBlocked
    BY <1>2, SpawnKey
  <2>2. child'[r.id] = SpawnRecord(r, reply)
        /\ \A d \in Ids \ {r.id} : child'[d] = child[d] /\ token'[d] = token[d]
    BY <1>0, <1>2, <2>1 DEF TypeOK
  <2> QED
    BY <1>2, <2>1, <2>2 DEF Admits
<1>3. ASSUME NEW r \in Requests, NEW reply, SpawnStart(r, reply)
      PROVE  Ledger' /\ DrainHasChildren'
  <2>1. Admits(r.id) /\ child'[r.id].parent = SpawnParent(r)
        /\ child'[r.id].owner = SpawnOwner(r)
    BY <1>2, <1>3 DEF SpawnStart
  <2> QED
    BY <1>3, <2>1, AdmitStartSafe DEF SpawnStart
<1>4. ASSUME NEW r \in Requests, NEW reply, SpawnEnqueue(r, reply)
      PROVE  Ledger' /\ DrainHasChildren'
  <2>1. Admits(r.id) /\ child'[r.id].parent = SpawnParent(r)
        /\ child'[r.id].owner = SpawnOwner(r)
    BY <1>2, <1>4 DEF SpawnEnqueue
  <2> QED
    BY <1>4, <2>1, AdmitQueueSafe DEF SpawnEnqueue
<1>5. ASSUME NEW r \in Requests, NEW reply \in {"open", "closed"}, SpawnFail(r, reply)
      PROVE  Ledger' /\ DrainHasChildren'
  <2> DEFINE ch == [child EXCEPT ![r.id] = SpawnRecord(r, reply)]
             tk == [token EXCEPT ![r.id] = FALSE]
  <2>1. r.id \in Ids \ (Live \union completed)
        /\ SpawnRecord(r, reply).parent \in Sessions
    BY <1>5, SpawnKey DEF SpawnFail
  <2>2. ch \in [Ids -> ChildRecord] /\ tk \in [Ids -> BOOLEAN]
    BY <1>0, SpawnRecordTyped DEF TypeOK
  <2>3. \A c \in Live \union completed : ch[c] = child[c] /\ tk[c] = token[c]
    BY <1>0, <2>1 DEF TypeOK, Live, Running
  <2>4. FinishArguments({r.id}, ch, tk)
    BY <1>0, <2>1, <2>2, <2>3 DEF FinishArguments, Live, TypeOK
  <2>5. FinishChildren({r.id}, {}, ch, tk, buffered)
    BY <1>5 DEF SpawnFail
  <2>6. DrainHasChildren' /\ spawnBlocked' \subseteq spawnBlocked
    BY <1>0, <1>5, ResolveKeeps DEF SpawnFail
  <2>7. StopsInClosed({r.id}, tk)
    BY <2>3, <2>6 DEF StopsInClosed, Safety, StopIsComplete
  <2> HIDE DEF ch, tk
  <2> QED
    BY <2>4, <2>5, <2>6, <2>7, FinishKeeps
<1> QED
  BY <1>1, <1>3, <1>4, <1>5 DEF SpawnCommand

(***************************************************************************)
(* Cancels, Stop and delete                                                *)
(***************************************************************************)

\* Removing the queued children of a set and cancelling the running ones stops
\* all that must stop, when a session that closes has its children in the set.
LEMMA CancelStops ==
  ASSUME Safety, NEW S, NEW T, NEW D \in SUBSET Sessions,
         spawnBlocked' \subseteq spawnBlocked \union D,
         \A c \in Live : child[c].parent \in D /\ ~IsWorkflow(child[c].owner) =>
                           c \in S \/ c \in Running \intersect T
  PROVE  StopsInClosed(S, CancelTokens(T))
<1> SUFFICES ASSUME NEW c \in Live \ S, child[c].parent \in spawnBlocked',
                    ~IsWorkflow(child[c].owner)
             PROVE  c \in Running /\ CancelTokens(T)[c]
  BY DEF StopsInClosed
<1>1. c \in Ids
  BY DEF Safety, TypeOK, Live, Running
<1> QED
  BY <1>1, TokensGrow DEF Safety, StopIsComplete

\* When no session closes, cancelling more stops all that must stop.
LEMMA CancelMore ==
  ASSUME Safety, NEW S, NEW T, spawnBlocked' \subseteq spawnBlocked
  PROVE  StopsInClosed(S, CancelTokens(T))
<1>1. \A c \in Live : c \in Ids
  BY DEF Safety, TypeOK, Live, Running
<1> QED
  BY <1>1, TokensGrow DEF StopsInClosed, Safety, StopIsComplete

\* Cancel commands, teardowns and the reopening of admission.
LEMMA CancelSafe == Safety /\ CancelCommand => Ledger' /\ DrainHasChildren'
<1> SUFFICES ASSUME Safety, CancelCommand PROVE Ledger' /\ DrainHasChildren'
  OBVIOUS
<1>0. /\ TypeOK /\ ChildrenTyped /\ teardownDrains \subseteq spawnBlocked
      /\ child \in [Ids -> ChildRecord] /\ Live \subseteq Ids
  BY DrainsClosed, TypeHalves DEF Safety, TypeOK, Live, Running
<1>1. ASSUME NEW c \in Ids, NEW scope, CancelSubagent(c, scope)
      PROVE  Ledger' /\ DrainHasChildren'
  <2>1. DrainHasChildren' /\ spawnBlocked' \subseteq spawnBlocked
    BY <1>0, <1>1, ResolveKeeps DEF CancelSubagent
  <2>2. CASE c \in Running
    <3>1. /\ [child[c] EXCEPT !.killed = TRUE].parent = child[c].parent
          /\ [child[c] EXCEPT !.killed = TRUE].owner = child[c].owner
      BY <1>0, RecordKeys, Zenon
    <3>2. EditChildren([child EXCEPT ![c] = [child[c] EXCEPT !.killed = TRUE]],
                       CancelTokens({c}), buffered)
      BY <1>1, <2>2 DEF CancelSubagent
    <3>3. \A d \in Ids : child'[d].parent = child[d].parent
                         /\ child'[d].owner = child[d].owner
      BY <1>0, <3>1, <3>2 DEF EditChildren
    <3>4. Steady
      BY <1>0, <3>2, <3>3 DEF EditChildren, Steady, TypeOK
    <3>5. StopsInClosed({}, CancelTokens({c})) /\ token' = CancelTokens({c})
      <4>1. StopsInClosed({}, CancelTokens({c}))
        BY <2>1, CancelMore
      <4> QED
        BY <3>2, <4>1 DEF EditChildren
    <3> QED
      BY <2>1, <3>4, <3>5, SteadyKeeps
  <2>3. CASE c \notin Running
    <3>1. c \in queued /\ RemoveQueued({c}, child, token, buffered)
      BY <1>1, <2>3 DEF CancelSubagent, Live
    <3>2. StopsInClosed({c}, token)
      BY <2>1 DEF StopsInClosed, Safety, StopIsComplete
    <3> QED
      BY <1>0, <2>1, <3>1, <3>2, RemoveKeeps DEF TypeOK
  <2> QED
    BY <2>2, <2>3
<1>2. ASSUME NEW prompt, NEW scope, CancelParentPrompt(prompt, scope)
      PROVE  Ledger' /\ DrainHasChildren'
  <2> DEFINE S == {c \in queued : child[c].prompt = prompt /\ child[c].parent \in scope}
             T == {c \in Running : child[c].prompt = prompt /\ child[c].parent \in scope}
  <2>1. RemoveQueued(S, child, CancelTokens(T), buffered) /\ S \in SUBSET queued
    BY <1>2 DEF CancelParentPrompt
  <2>2. DrainHasChildren' /\ spawnBlocked' \subseteq spawnBlocked
    BY <1>0, <1>2, ResolveKeeps DEF CancelParentPrompt
  <2> HIDE DEF S, T
  <2>3. StopsInClosed(S, CancelTokens(T))
    BY <2>2, CancelMore
  <2> QED
    BY <1>0, <2>1, <2>2, <2>3, RemoveKeeps, TokensTyped
<1>3. ASSUME NEW session \in Sessions, CancelParentSession(session)
      PROVE  Ledger' /\ DrainHasChildren'
  <2> DEFINE S == {c \in queued : child[c].parent = session
                                  /\ ~IsWorkflow(child[c].owner)}
             T == {c \in Running : child[c].parent = session
                                   /\ ~IsWorkflow(child[c].owner)}
  <2>1. RemoveQueued(S, child, CancelTokens(T), buffered) /\ S \in SUBSET queued
    BY <1>3 DEF CancelParentSession
  <2>2. DrainHasChildren' /\ spawnBlocked' \subseteq spawnBlocked \union {session}
    BY <1>0, <1>3, ResolveKeeps DEF CancelParentSession
  <2>3. \A c \in Live : child[c].parent \in {session} /\ ~IsWorkflow(child[c].owner) =>
                          c \in S \/ c \in Running \intersect T
    BY DEF Live
  <2> HIDE DEF S, T
  <2>4. StopsInClosed(S, CancelTokens(T))
    BY <2>2, <2>3, CancelStops
  <2> QED
    BY <1>0, <2>1, <2>2, <2>4, RemoveKeeps, TokensTyped
<1>4. ASSUME NEW run \in Runs, NEW scope, CancelWorkflowRun(run, scope)
      PROVE  Ledger' /\ DrainHasChildren'
  <2>1. Steady
    BY <1>4 DEF CancelWorkflowRun, Steady
  <2>2. \A c \in Live : token[c] => token'[c]
    BY <1>0, <1>4, TokensGrow DEF CancelWorkflowRun
  <2> QED
    BY <1>0, <1>4, <2>1, <2>2, SteadySafe DEF CancelWorkflowRun
<1>5. ASSUME NEW session \in Sessions, NEW deleting, TeardownSession(session, deleting)
      PROVE  Ledger' /\ DrainHasChildren'
  <2> DEFINE S == {c \in queued : child[c].parent = session}
             T == {c \in Running : child[c].parent = session}
             B == {c \in buffered : ~(child[c].parent = session)}
             ch == [c \in Ids |-> IF c \in Live /\ child[c].parent = session
                                  THEN Silenced(child[c]) ELSE child[c]]
  <2>1. RemoveQueued(S, ch, CancelTokens(T), B) /\ S \in SUBSET queued
    BY <1>5 DEF TeardownSession
  <2>2. ch \in [Ids -> ChildRecord]
        /\ \A c \in Ids : ch[c].parent = child[c].parent /\ ch[c].owner = child[c].owner
    <3>1. \A c \in Ids : /\ Silenced(child[c]) \in ChildRecord
                         /\ Silenced(child[c]).parent = child[c].parent
                         /\ Silenced(child[c]).owner = child[c].owner
      BY <1>0, RecordEdits, RecordKeys, Zenon
    <3> QED
      BY <1>0, <3>1
  <2>3. spawnBlocked' \subseteq spawnBlocked \union {session} /\ DrainHasChildren'
    BY <1>0, <1>5 DEF TeardownSession, DrainHasChildren
  <2>4. \A c \in Live : child[c].parent \in {session} /\ ~IsWorkflow(child[c].owner) =>
                          c \in S \/ c \in Running \intersect T
    BY DEF Live
  <2>5. \A c \in Live \union completed :
          ch[c].parent = child[c].parent /\ ch[c].owner = child[c].owner
    BY <1>0, <2>2 DEF TypeOK
  <2> HIDE DEF S, T, B, ch
  <2>6. StopsInClosed(S, CancelTokens(T))
    BY <2>3, <2>4, CancelStops
  <2> QED
    BY <1>0, <2>1, <2>2, <2>3, <2>5, <2>6, RemoveKeeps, TokensTyped
<1>6. ASSUME NEW session, OpenSpawnAdmission(session)
      PROVE  Ledger' /\ DrainHasChildren'
  <2>1. Steady
    BY <1>6 DEF OpenSpawnAdmission, Steady
  <2> QED
    BY <1>0, <1>6, <2>1, SteadySafe DEF OpenSpawnAdmission
<1>7. Parents \subseteq Sessions
  BY RequestTyped
<1> QED
  BY <1>1, <1>2, <1>3, <1>4, <1>5, <1>6, <1>7 DEF CancelCommand

(***************************************************************************)
(* Turns, wakes, runs and deadlines                                        *)
(***************************************************************************)

\* Commands of a turn.
LEMMA TurnSafe == Safety /\ TurnCommand => Ledger' /\ DrainHasChildren'
<1> SUFFICES ASSUME Safety, TurnCommand PROVE Ledger' /\ DrainHasChildren'
  OBVIOUS
<1>0. /\ TypeOK /\ teardownDrains \subseteq spawnBlocked
      /\ Live \subseteq Ids /\ completed \subseteq Ids
  BY DrainsClosed DEF Safety, TypeOK, Live, Running
<1>1. ASSUME NEW session, NEW prompt, HandOffForeground(session, prompt)
      PROVE  Ledger' /\ DrainHasChildren'
  <2>1. \A c \in Ids : /\ MarkBackgrounded(child[c]).parent = child[c].parent
                       /\ MarkBackgrounded(child[c]).owner = child[c].owner
                       /\ BackgroundQueued(child[c]).parent = child[c].parent
                       /\ BackgroundQueued(child[c]).owner = child[c].owner
    BY <1>0, RecordKeys, Zenon DEF TypeOK
  <2>2. \A c \in Ids : child'[c] \in {child[c], MarkBackgrounded(child[c]),
                                      BackgroundQueued(child[c])}
    BY <1>1 DEF HandOffForeground
  <2>3. \A c \in Ids : child'[c].parent = child[c].parent
                       /\ child'[c].owner = child[c].owner
    BY <2>1, <2>2
  <2>4. Steady
    BY <1>0, <1>1, <2>3 DEF HandOffForeground, Steady
  <2> QED
    BY <1>0, <1>1, <2>4, SteadySafe DEF HandOffForeground
<1>2. ASSUME NEW session, NEW prompt, WaitPromptDrained(session, prompt)
      PROVE  Ledger' /\ DrainHasChildren'
  <2>1. Steady
    BY <1>2 DEF WaitPromptDrained, Steady
  <2> QED
    BY <1>0, <1>2, <2>1, SteadySafe DEF WaitPromptDrained
<1>3. ASSUME NEW c \in Ids, BlockingQuery(c) PROVE Ledger' /\ DrainHasChildren'
  <2>1. Steady
    BY <1>0, <1>3 DEF BlockingQuery, Steady, TypeOK
  <2> QED
    BY <1>0, <1>3, <2>1, SteadySafe DEF BlockingQuery
<1>4. ASSUME NEW session, TakeCompletions(session) PROVE Ledger' /\ DrainHasChildren'
  <2>1. Steady
    BY <1>4 DEF TakeCompletions, Steady
  <2> QED
    BY <1>0, <1>4, <2>1, SteadySafe DEF TakeCompletions
<1>5. CASE ReadOnlyCommand
  <2>1. Steady
    BY <1>5 DEF ReadOnlyCommand, Steady
  <2> QED
    BY <1>0, <1>5, <2>1, SteadySafe DEF ReadOnlyCommand
<1> QED
  BY <1>1, <1>2, <1>3, <1>4, <1>5 DEF TurnCommand

\* Wakes: a finished child is admitted again.
LEMMA WakeSafe ==
  ASSUME Safety, NEW c \in Ids, WakeCompleted(c)
  PROVE  Ledger' /\ DrainHasChildren'
<1>0. TypeOK /\ c \in completed /\ c \notin Live
  BY DEF Safety, OneRecordPerId, WakeCompleted, CanWake
<1>1. child'[c].parent = child[c].parent /\ child'[c].owner = child[c].owner
  <2>1. /\ WakeRecord(child[c]).parent = child[c].parent
        /\ WakeRecord(child[c]).owner = child[c].owner
    BY <1>0, RecordKeys, Zenon DEF TypeOK
  <2>2. child'[c] = WakeRecord(child[c])
    BY <1>0 DEF WakeCompleted, TypeOK
  <2> QED
    BY <2>1, <2>2
<1>2. child[c].parent \in Sessions /\ child[c].parent \notin spawnBlocked
  BY <1>0 DEF Safety, KeyedToSession, WakeCompleted, CanWake
<1>3. Admits(c)
  BY <1>0, <1>1, <1>2 DEF Admits, WakeCompleted, DisplaceCompleted, TypeOK
<1>4. CASE AdmitStarts(child[c].owner, child[c].parent)
  <2>1. pending' = pending \union {c} /\ UNCHANGED <<queued, ahead>>
    BY <1>4 DEF WakeCompleted
  <2> QED
    BY <1>1, <1>3, <1>4, <2>1, AdmitStartSafe
<1>5. CASE ~AdmitStarts(child[c].owner, child[c].parent)
  <2>1. PushBack(c) /\ UNCHANGED pending
    BY <1>5 DEF WakeCompleted
  <2> QED
    BY <1>1, <1>3, <1>5, <2>1, AdmitQueueSafe
<1> QED
  BY <1>4, <1>5

\* A child that reports live moves from pending to active.
LEMMA StartedSafe ==
  ASSUME Safety, NEW c \in Ids, NEW flag, Started(c, flag)
  PROVE  Ledger' /\ DrainHasChildren'
<1>0. TypeOK /\ Ledger /\ DrainHasChildren /\ Live \subseteq Ids /\ completed \subseteq Ids
  BY SafetyParts DEF TypeOK, Live, Running
<1>1. Running' = Running /\ Live' = Live
  BY DEF Started, Running, Live
<1>2. \A d \in Ids : child'[d].parent = child[d].parent
                     /\ child'[d].owner = child[d].owner
  <2>1. /\ StartedRecord(child[c], flag).parent = child[c].parent
        /\ StartedRecord(child[c], flag).owner = child[c].owner
    BY <1>0, RecordKeys, Zenon DEF TypeOK
  <2> QED
    BY <1>0, <2>1 DEF Started, TypeOK
<1>3. \A s : SlotsHeld(s, Running)' = SlotsHeld(s, Running)
  BY <1>0, <1>1, <1>2 DEF SlotsHeld, Live, Running, IsWorkflow
<1>4. OneRecordPerId'
  BY <1>0, <1>1 DEF Ledger, OneRecordPerId, Started
<1>5. KeyedToSession' /\ QueuedNotWorkflow' /\ QueueOrdered'
  BY <1>0, <1>1, <1>2
  DEF Ledger, KeyedToSession, QueuedNotWorkflow, QueueOrdered, Started, Live, IsWorkflow
<1>6. CapacityBound' /\ QueuedAtCapacity'
  <2>1. CapacityBound'
    BY <1>0, <1>3 DEF Ledger, CapacityBound
  <2>2. \A d \in queued : child'[d].parent = child[d].parent
    BY <1>0, <1>2 DEF Live
  <2> QED
    BY <1>0, <1>3, <2>1, <2>2 DEF Ledger, QueuedAtCapacity, Started
<1>7. StopIsComplete'
  BY <1>0, <1>1, <1>2 DEF Ledger, StopIsComplete, Started, IsWorkflow
<1>8. WorkflowCancelJustified' /\ WaitersOnLive'
  BY <1>0, <1>1, <1>2
  DEF Ledger, WorkflowCancelJustified, WorkflowOutstanding, WaitersOnLive, Started, Live
<1>9. DrainHasChildren'
  BY <1>0, <1>1, <1>2 DEF DrainHasChildren, SessionHasChildren, Started
<1> QED
  BY <1>4, <1>5, <1>6, <1>7, <1>8, <1>9 DEF Ledger

\* A run that ends finishes one running child and hands its slot on.
LEMMA RunEndedSafe ==
  ASSUME Safety, NEW c \in Ids, NEW flag, RunEnded(c, flag)
  PROVE  Ledger' /\ DrainHasChildren'
<1>0. TypeOK /\ teardownDrains \subseteq spawnBlocked
  BY DrainsClosed DEF Safety
<1>1. DrainHasChildren' /\ spawnBlocked' \subseteq spawnBlocked
  BY <1>0, ResolveKeeps DEF RunEnded
<1>2. c \in Running
  BY DEF RunEnded
<1>3. FinishArguments({c}, child, token)
  BY <1>0, <1>2
  DEF FinishArguments, TypeOK, Safety, OneRecordPerId, KeyedToSession, Live
<1>4. StopsInClosed({c}, token)
  BY <1>1 DEF StopsInClosed, Safety, StopIsComplete
<1>5. PICK C : FinishChildren({c}, C, child, token, buffered)
  BY DEF RunEnded
<1> QED
  BY <1>1, <1>3, <1>4, <1>5, FinishKeeps

\* The deadline pass.
LEMMA DeadlinesSafe == Safety /\ Deadlines => Ledger' /\ DrainHasChildren'
<1> SUFFICES ASSUME Safety, NEW drains, NEW callers, NEW queries,
                    ProcessDeadlines(drains, callers, queries)
             PROVE  Ledger' /\ DrainHasChildren'
  BY DEF Deadlines
<1>0. /\ TypeOK /\ teardownDrains \subseteq spawnBlocked
      /\ Live \subseteq Ids /\ completed \subseteq Ids
  BY DrainsClosed DEF Safety, TypeOK, Live, Running
<1>1. \A c \in Ids : /\ MarkBackgrounded(child[c]).parent = child[c].parent
                     /\ MarkBackgrounded(child[c]).owner = child[c].owner
                     /\ BackgroundQueued(child[c]).parent = child[c].parent
                     /\ BackgroundQueued(child[c]).owner = child[c].owner
  BY <1>0, RecordKeys, Zenon DEF TypeOK
<1>2. \A c \in Ids : child'[c] \in {child[c], MarkBackgrounded(child[c]),
                                    BackgroundQueued(child[c])}
  BY DEF ProcessDeadlines
<1>3. \A c \in Ids : child'[c].parent = child[c].parent
                     /\ child'[c].owner = child[c].owner
  BY <1>1, <1>2
<1>4. \A c \in Ids : waiters'[c] > 0 => waiters[c] > 0
  BY <1>0 DEF ProcessDeadlines, ExpiredQueries, TypeOK
<1>5. Steady
  BY <1>0, <1>3, <1>4 DEF ProcessDeadlines, Steady
<1> QED
  BY <1>0, <1>5, SteadySafe DEF ProcessDeadlines

(***************************************************************************)
(* The theorems                                                            *)
(***************************************************************************)

\* The coordinator starts safe.
LEMMA SafetyInit == Init => Safety
<1> SUFFICES ASSUME Init PROVE Safety
  OBVIOUS
<1>1. TypeOK
  BY DEF Init, TypeOK, NoChild, ChildRecord, Owners, Modes, Replies
<1>2. Running = {} /\ Live = {}
  BY DEF Init, Running, Live
<1>3. CapacityBound
  <2>1. \A s : SlotsHeld(s, Running) = {}
    BY <1>2 DEF SlotsHeld
  <2> QED
    BY <2>1, FS_EmptySet, LimitPositive DEF CapacityBound
<1>4. QueueOrdered
  BY DEF Init, QueueOrdered
<1> QED
  BY <1>1, <1>2, <1>3, <1>4
  DEF Init, Safety, OneRecordPerId, KeyedToSession, QueuedNotWorkflow, QueuedAtCapacity,
      StopIsComplete, DrainHasChildren, WorkflowCancelJustified, WaitersOnLive

\* Every step keeps the coordinator safe.
LEMMA SafetyStep == Safety /\ [Next]_vars => Safety'
<1> SUFFICES ASSUME Safety, [Next]_vars PROVE Safety'
  OBVIOUS
<1>1. TypeOK'
  BY TypeStep DEF Safety
<1>2. CASE UNCHANGED vars
  <2>1. Steady
    BY <1>2 DEF vars, Steady
  <2>2. Ledger' /\ DrainHasChildren'
    BY <1>2, <2>1, SteadySafe, DrainsClosed DEF vars
  <2> QED
    BY <1>1, <2>2 DEF Safety, Ledger
<1>3. CASE Next
  <2>1. Ledger' /\ DrainHasChildren'
    BY <1>3, EnvironmentSafe, ReapSafe, SpawnSafe, CancelSafe, TurnSafe, WakeSafe,
       StartedSafe, RunEndedSafe, DeadlinesSafe
    DEF Next, Runner
  <2> QED
    BY <1>1, <2>1 DEF Safety, Ledger
<1> QED
  BY <1>2, <1>3

\* Safety holds in every reachable state of the coordinator, for every limit,
\* every set of sessions and spawn requests and every interleaving of the actor
\* with its callers.
THEOREM SafetyInvariant == Spec => []Safety
  BY SafetyInit, SafetyStep, PTL DEF Spec

\* No session ever has more children on its slots than its limit, whatever
\* spawns, wakes, dequeues and endings of runs interleave.
THEOREM CapacityHolds == Spec => []CapacityBound
<1>1. Safety => CapacityBound
  BY DEF Safety
<1> QED
  BY <1>1, SafetyInvariant, PTL

\* A spawn waits in the queue only while its own session is at the limit.
THEOREM QueueOnlyAtCapacity == Spec => []QueuedAtCapacity
<1>1. Safety => QueuedAtCapacity
  BY DEF Safety
<1> QED
  BY <1>1, SafetyInvariant, PTL

\* After Stop or delete no spawn of the session is parked and none of its children
\* that no workflow owns runs uncancelled, until admission reopens.
THEOREM StopHolds == Spec => []StopIsComplete
<1>1. Safety => StopIsComplete
  BY DEF Safety
<1> QED
  BY <1>1, SafetyInvariant, PTL

\* A parked delete always waits for a child that is there, with admission closed.
THEOREM DeleteJustified == Spec => []DrainHasChildren
<1>1. Safety => DrainHasChildren
  BY DEF Safety
<1> QED
  BY <1>1, SafetyInvariant, PTL

\* A parked workflow cancel always waits for a child of its run.
THEOREM WorkflowCancelHolds == Spec => []WorkflowCancelJustified
<1>1. Safety => WorkflowCancelJustified
  BY DEF Safety
<1> QED
  BY <1>1, SafetyInvariant, PTL

\* A blocking query is never parked on a child that has gone.
THEOREM WaitersHold == Spec => []WaitersOnLive
<1>1. Safety => WaitersOnLive
  BY DEF Safety
<1> QED
  BY <1>1, SafetyInvariant, PTL

\* An id stands in one collection at most.
THEOREM UniqueRecord == Spec => []OneRecordPerId
<1>1. Safety => OneRecordPerId
  BY DEF Safety
<1> QED
  BY <1>1, SafetyInvariant, PTL

(***************************************************************************)
(* What no step may do                                                     *)
(***************************************************************************)

\* The sweep starts the spawns of a session in the order they came, and none that
\* is cancelled.
LEMMA FinishOrderly ==
  ASSUME Safety, NEW F, NEW C, NEW ch, NEW tk, NEW bf, FinishArguments(F, ch, tk),
         FinishChildren(F, C, ch, tk, bf), \A c \in queued : token[c] => tk[c]
  PROVE  StartsInOrder /\ StartsLive
<1>1. TypeOK /\ queued \intersect pending = {} /\ queued \subseteq Ids
  BY DEF Safety, OneRecordPerId, Running, TypeOK
<1>2. /\ queued' = (queued \ F) \ (DroppedBy(F, tk) \union StartedBy(F, tk))
      /\ pending' = (pending \ F) \union StartedBy(F, tk)
      /\ ahead' = [c \in Ids |-> IF c \in queued' THEN ahead[c] \intersect queued'
                                                  ELSE {}]
  BY <1>1, FinishShape
<1>3. StartsLive
  BY <1>1, <1>2, StartedParked DEF StartsLive
<1>4. ASSUME NEW c \in queued \intersect pending', NEW d \in ahead[c],
             child[d].parent = child[c].parent
      PROVE  d \notin queued'
  <2> DEFINE s == child[c].parent
             left == SlotsHeld(s, Running \ F)
             front == {e \in ahead[c] \intersect (queued \ F) :
                         ~tk[e] /\ child[e].parent = child[c].parent}
  <2>1. c \in StartedBy(F, tk) /\ c \in queued \ F /\ ~tk[c] /\ s \in Sessions
    BY <1>1, <1>2, <1>4, StartedParked DEF Safety, KeyedToSession, Live
  <2>2. Cardinality(left) + Cardinality(front) < Limit
    BY <2>1 DEF StartedBy, StartsFromQueue, HasCapacity
  <2>3. Cardinality(left) + 1 = Limit
    <3> DEFINE held    == SlotsHeld(s, Running)
               parked  == {e \in queued \ F : ~tk[e] /\ child[e].parent = s}
               started == {e \in StartedBy(F, tk) : child[e].parent = s}
    <3>1. c \in started
      BY <2>1
    <3>2. \/ started = {} /\ left = held
          \/ started = {} /\ parked = {} /\ left \subseteq held
          \/ \E e \in parked : started = {e} /\ Cardinality(left) + 1 = Limit
      BY <2>1, SweepOfSession, Zenon
    <3> HIDE DEF held, parked, started, left
    <3> QED
      BY <3>1, <3>2
  <2>4. Cardinality(left) \in Nat
    BY <1>1, SlotsFinite DEF TypeOK, Running
  <2>5. Cardinality(front) \in Nat /\ (Cardinality(front) = 0 <=> front = {})
    <3>1. front \in SUBSET Ids
      BY <1>1
    <3> HIDE DEF front
    <3> QED
      BY <3>1, CountZero
  <2>6. front = {}
    <3> HIDE DEF front, left
    <3> QED
      BY <2>2, <2>3, <2>4, <2>5, LimitPositive
  <2> QED
    BY <1>2, <1>4, <2>6 DEF DroppedBy
<1>5. \A c \in queued \intersect queued' : ahead'[c] \subseteq ahead[c]
  BY <1>1, <1>2
<1> QED
  BY <1>3, <1>4, <1>5 DEF StartsInOrder

\* A step that starts nothing from the queue and leaves it alone, or adds at the
\* back, is in order.
LEMMA QuietOrderly ==
  ASSUME Safety, pending' \intersect queued = {},
         \A c \in queued \intersect queued' : ahead'[c] = ahead[c]
  PROVE  StartsInOrder /\ StartsLive
  BY DEF StartsInOrder, StartsLive

\* So is removing spawns from the queue.
LEMMA RemoveOrderly ==
  ASSUME Safety, NEW S \in SUBSET queued, NEW ch \in [Ids -> ChildRecord],
         NEW tk \in [Ids -> BOOLEAN], NEW bf, RemoveQueued(S, ch, tk, bf),
         \A c \in Live \union completed :
           ch[c].parent = child[c].parent /\ ch[c].owner = child[c].owner,
         \A c \in queued : token[c] => tk[c]
  PROVE  StartsInOrder /\ StartsLive
<1>0. queued \intersect pending = {} /\ queued \subseteq Ids
  BY DEF Safety, OneRecordPerId, Running, TypeOK
<1>1. CASE S = {}
  BY <1>0, <1>1, QuietOrderly DEF RemoveQueued, EditChildren
<1>2. CASE S # {}
  <2> DEFINE tks == [c \in Ids |-> c \in S \/ tk[c]]
  <2>1. FinishChildren(S, S, ch, tks, bf)
    BY <1>2 DEF RemoveQueued
  <2>2. FinishArguments(S, ch, tks)
    BY DEF FinishArguments, Safety, TypeOK, OneRecordPerId, KeyedToSession, Live
  <2>3. \A c \in queued : token[c] => tks[c]
    BY <1>0
  <2> HIDE DEF tks
  <2> QED
    BY <2>1, <2>2, <2>3, FinishOrderly
<1> QED
  BY <1>1, <1>2

\* Every step starts spawns in order, and none that is cancelled.
LEMMA StepOrderly == Safety /\ Next => StartsInOrder /\ StartsLive
<1> SUFFICES ASSUME Safety, Next PROVE StartsInOrder /\ StartsLive
  OBVIOUS
<1>0. /\ TypeOK /\ queued \intersect pending = {} /\ queued \subseteq Ids
      /\ child \in [Ids -> ChildRecord] /\ token \in [Ids -> BOOLEAN]
      /\ Live \subseteq Ids /\ completed \subseteq Ids
  BY DEF Safety, OneRecordPerId, Running, Live, TypeOK
<1>1. ASSUME UNCHANGED <<queued, ahead, pending>> PROVE StartsInOrder /\ StartsLive
  BY <1>0, <1>1, QuietOrderly
<1>2. CASE Environment \/ TurnCommand \/ Deadlines
  <2>1. UNCHANGED <<queued, ahead, pending>>
    BY <1>2 DEF Environment, CancelToken, DropCaller, AbandonQuery, AbandonDrainWait,
       TurnCommand, HandOffForeground, WaitPromptDrained, BlockingQuery,
       TakeCompletions, ReadOnlyCommand, Deadlines, ProcessDeadlines
  <2> QED
    BY <1>1, <2>1
<1>3. ASSUME NEW next, Reap(next) PROVE StartsInOrder /\ StartsLive
  <2> DEFINE reaped == [c \in Ids |-> Reaped(c)]
             orphans == {c \in Ids : CallerGone(c)
                                     /\ CancelOnReceiverDrop(child[c].owner)}
             due == {c \in queued : token[c]}
  <2>1. RemoveQueued(due, reaped, CancelTokens(orphans), buffered)
    BY <1>3 DEF Reap
  <2>2. \A c \in Ids : Reaped(c) \in ChildRecord /\ Reaped(c).parent = child[c].parent
                       /\ Reaped(c).owner = child[c].owner
    BY <1>0, ReapedKeys
  <2>3. reaped \in [Ids -> ChildRecord] /\ due \in SUBSET queued
    BY <2>2
  <2>4. \A c \in Live \union completed :
          reaped[c].parent = child[c].parent /\ reaped[c].owner = child[c].owner
    BY <1>0, <2>2
  <2> HIDE DEF reaped, orphans, due
  <2>5. /\ CancelTokens(orphans) \in [Ids -> BOOLEAN]
        /\ \A c \in queued : token[c] => CancelTokens(orphans)[c]
    BY <1>0, TokensGrow DEF CancelTokens
  <2> QED
    BY <2>1, <2>3, <2>4, <2>5, RemoveOrderly
<1>4. CASE SpawnCommand
  <2>1. ASSUME NEW r \in Requests, NEW cancelled, SpawnRefusal(r, cancelled)
        PROVE  StartsInOrder /\ StartsLive
    BY <1>1, <2>1 DEF SpawnRefusal
  <2>2. ASSUME NEW r \in Requests, NEW reply, SpawnStart(r, reply)
        PROVE  StartsInOrder /\ StartsLive
    <3>1. r.id \notin queued
      BY <2>2 DEF SpawnStart, SpawnRefused, Live
    <3> QED
      BY <1>0, <2>2, <3>1, QuietOrderly DEF SpawnStart
  <2>3. ASSUME NEW r \in Requests, NEW reply, SpawnEnqueue(r, reply)
        PROVE  StartsInOrder /\ StartsLive
    <3>1. r.id \notin queued
      BY <2>3 DEF SpawnEnqueue, SpawnRefused, Live
    <3> QED
      BY <1>0, <2>3, <3>1, QuietOrderly DEF SpawnEnqueue, PushBack, TypeOK
  <2>4. ASSUME NEW r \in Requests, NEW reply \in {"open", "closed"}, SpawnFail(r, reply)
        PROVE  StartsInOrder /\ StartsLive
    <3> DEFINE ch == [child EXCEPT ![r.id] = SpawnRecord(r, reply)]
               tk == [token EXCEPT ![r.id] = FALSE]
    <3>1. r.id \in Ids \ (Live \union completed)
          /\ SpawnRecord(r, reply).parent \in Sessions
      BY <2>4, SpawnKey DEF SpawnFail
    <3>2. ch \in [Ids -> ChildRecord] /\ tk \in [Ids -> BOOLEAN]
      BY <1>0, SpawnRecordTyped
    <3>3. \A c \in Live \union completed : ch[c] = child[c] /\ tk[c] = token[c]
      BY <1>0, <3>1
    <3>4. FinishArguments({r.id}, ch, tk)
      BY <1>0, <3>1, <3>2, <3>3 DEF FinishArguments, Live
    <3>5. FinishChildren({r.id}, {}, ch, tk, buffered)
      BY <2>4 DEF SpawnFail
    <3>6. \A c \in queued : token[c] => tk[c]
      BY <3>3 DEF Live
    <3> HIDE DEF ch, tk
    <3> QED
      BY <3>4, <3>5, <3>6, FinishOrderly
  <2> QED
    BY <1>4, <2>1, <2>2, <2>3, <2>4 DEF SpawnCommand
<1>5. ASSUME NEW S \in SUBSET queued, NEW T, NEW ch \in [Ids -> ChildRecord], NEW bf,
             \A c \in Ids : ch[c].parent = child[c].parent /\ ch[c].owner = child[c].owner,
             RemoveQueued(S, ch, CancelTokens(T), bf)
      PROVE  StartsInOrder /\ StartsLive
  <2>1. /\ CancelTokens(T) \in [Ids -> BOOLEAN]
        /\ \A c \in queued : token[c] => CancelTokens(T)[c]
    BY <1>0, TokensGrow DEF CancelTokens
  <2>2. \A c \in Live \union completed :
          ch[c].parent = child[c].parent /\ ch[c].owner = child[c].owner
    BY <1>0, <1>5
  <2> QED
    BY <1>5, <2>1, <2>2, RemoveOrderly
<1>6. CASE CancelCommand
  <2>1. ASSUME NEW c \in Ids, NEW scope, CancelSubagent(c, scope)
        PROVE  StartsInOrder /\ StartsLive
    <3>1. CASE c \in Running
      BY <1>1, <2>1, <3>1 DEF CancelSubagent, EditChildren
    <3>2. CASE c \notin Running
      <4>1. {c} \in SUBSET queued /\ RemoveQueued({c}, child, token, buffered)
        BY <2>1, <3>2 DEF CancelSubagent, Live
      <4> QED
        BY <1>0, <4>1, RemoveOrderly
    <3> QED
      BY <3>1, <3>2
  <2>2. ASSUME NEW prompt, NEW scope, CancelParentPrompt(prompt, scope)
        PROVE  StartsInOrder /\ StartsLive
    BY <1>0, <1>5, <2>2 DEF CancelParentPrompt
  <2>3. ASSUME NEW session, CancelParentSession(session)
        PROVE  StartsInOrder /\ StartsLive
    BY <1>0, <1>5, <2>3 DEF CancelParentSession
  <2>4. ASSUME NEW run, NEW scope, CancelWorkflowRun(run, scope)
        PROVE  StartsInOrder /\ StartsLive
    BY <1>1, <2>4 DEF CancelWorkflowRun
  <2>5. ASSUME NEW session, NEW deleting, TeardownSession(session, deleting)
        PROVE  StartsInOrder /\ StartsLive
    <3> DEFINE S == {c \in queued : child[c].parent = session}
               ch == [c \in Ids |-> IF c \in Live /\ child[c].parent = session
                                    THEN Silenced(child[c]) ELSE child[c]]
    <3>1. PICK T, B : RemoveQueued(S, ch, CancelTokens(T), B)
      BY <2>5 DEF TeardownSession
    <3>2. \A c \in Ids : /\ Silenced(child[c]) \in ChildRecord
                         /\ Silenced(child[c]).parent = child[c].parent
                         /\ Silenced(child[c]).owner = child[c].owner
      BY <1>0, RecordEdits, RecordKeys, Zenon
    <3>3. /\ S \in SUBSET queued /\ ch \in [Ids -> ChildRecord]
          /\ \A c \in Ids : ch[c].parent = child[c].parent /\ ch[c].owner = child[c].owner
      BY <1>0, <3>2
    <3> HIDE DEF S, ch
    <3> QED
      BY <1>5, <3>1, <3>3
  <2>6. ASSUME NEW session, OpenSpawnAdmission(session)
        PROVE  StartsInOrder /\ StartsLive
    BY <1>1, <2>6 DEF OpenSpawnAdmission
  <2> QED
    BY <1>6, <2>1, <2>2, <2>3, <2>4, <2>5, <2>6 DEF CancelCommand
<1>7. ASSUME NEW c \in Ids, WakeCompleted(c) PROVE StartsInOrder /\ StartsLive
  <2>1. c \notin queued
    BY <1>7 DEF WakeCompleted, CanWake, Safety, OneRecordPerId, Live
  <2>2. \/ pending' = pending \union {c} /\ UNCHANGED <<queued, ahead>>
        \/ PushBack(c) /\ UNCHANGED pending
    BY <1>7 DEF WakeCompleted
  <2> QED
    BY <1>0, <2>1, <2>2, QuietOrderly DEF PushBack, TypeOK
<1>8. ASSUME NEW c \in Ids, NEW flag, Started(c, flag) PROVE StartsInOrder /\ StartsLive
  BY <1>0, <1>8, QuietOrderly DEF Started
<1>9. ASSUME NEW c \in Ids, NEW flag, RunEnded(c, flag) PROVE StartsInOrder /\ StartsLive
  <2>1. FinishArguments({c}, child, token)
    BY <1>0, <1>9
    DEF FinishArguments, RunEnded, Safety, OneRecordPerId, KeyedToSession, Live
  <2>2. PICK C : FinishChildren({c}, C, child, token, buffered)
    BY <1>9 DEF RunEnded
  <2> QED
    BY <2>1, <2>2, FinishOrderly
<1> QED
  BY <1>2, <1>3, <1>4, <1>6, <1>7, <1>8, <1>9 DEF Next, Runner

\* Dequeue is first in, first out within a session, and nothing is put in front of a
\* spawn that waits.
THEOREM FirstInFirstOut == Spec => NoOvertaking
<1>1. Safety /\ [Next]_vars => [StartsInOrder]_vars
  BY StepOrderly
<1> QED
  BY <1>1, SafetyInvariant, PTL DEF Spec, NoOvertaking

\* A spawn cancelled while it waits never starts.
THEOREM CancelledStayDown == Spec => CancelledNeverStarts
<1>1. Safety /\ [Next]_vars => [StartsLive]_vars
  BY StepOrderly
<1> QED
  BY <1>1, SafetyInvariant, PTL DEF Spec, CancelledNeverStarts
=============================================================================
