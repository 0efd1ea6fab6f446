---------------------- MODULE SubagentCoordinatorProofs ----------------------
(***************************************************************************)
(* Proofs about SubagentCoordinator for every set of ids, sessions, prompts *)
(* and workflow runs, every set of requests and every limit.                *)
(***************************************************************************)
EXTENDS SubagentCoordinator, FiniteSetTheorems, TLAPS

(***************************************************************************)
(* Type correctness                                                        *)
(***************************************************************************)

\* The edits of a record yield records.
LEMMA RecordEdits ==
  ASSUME NEW rec \in ChildRecord
  PROVE  /\ MarkBackgrounded(rec) \in ChildRecord
         /\ BackgroundQueued(rec) \in ChildRecord
         /\ StartQueued(rec) \in ChildRecord
         /\ Silenced(rec) \in ChildRecord
         /\ WakeRecord(rec) \in ChildRecord
         /\ [rec EXCEPT !.reply = "none"] \in ChildRecord
         /\ [rec EXCEPT !.reply = "closed"] \in ChildRecord
         /\ [rec EXCEPT !.killed = TRUE] \in ChildRecord
         /\ \A flag \in BOOLEAN : StartedRecord(rec, flag) \in ChildRecord
         /\ \A out \in Outcomes : FinishedRecord(rec, out) \in ChildRecord
<1>1. MarkBackgrounded(rec) \in ChildRecord /\ BackgroundQueued(rec) \in ChildRecord
  BY DEF MarkBackgrounded, BackgroundQueued, ChildRecord, Replies
<1>2. StartQueued(rec) \in ChildRecord
  BY DEF StartQueued, ChildRecord
<1>3. Silenced(rec) \in ChildRecord
  BY DEF Silenced, ChildRecord
<1>4. WakeRecord(rec) \in ChildRecord
  BY DEF WakeRecord, ChildRecord, Modes
<1>5. /\ [rec EXCEPT !.reply = "none"] \in ChildRecord
      /\ [rec EXCEPT !.reply = "closed"] \in ChildRecord
      /\ [rec EXCEPT !.killed = TRUE] \in ChildRecord
  BY DEF ChildRecord, Replies
<1>6. \A out \in Outcomes : FinishedRecord(rec, out) \in ChildRecord
  BY DEF FinishedRecord, ChildRecord, Replies
<1>7. \A flag \in BOOLEAN : StartedRecord(rec, flag) \in ChildRecord
  BY DEF StartedRecord, ChildRecord
<1> QED
  BY <1>1, <1>2, <1>3, <1>4, <1>5, <1>6, <1>7

\* finish_child decides on one of the outcomes.
LEMMA OutcomeTyped ==
  ASSUME NEW rec, NEW handleOnly, NEW waited, NEW cancelled
  PROVE  OutcomeOf(rec, handleOnly, waited, cancelled) \in Outcomes
  BY DEF OutcomeOf, Outcomes

\* A request is made of requests' values, and sessions of requests are sessions.
LEMMA RequestTyped ==
  /\ Requests \subseteq Request
  /\ Parents \subseteq Sessions
  BY RequestsAssumption DEF Request, Parents

\* The record of a new spawn is a record.
LEMMA SpawnRecordTyped ==
  ASSUME TypeOK, NEW r \in Requests, NEW reply \in {"open", "closed"}
  PROVE  /\ SpawnRecord(r, reply) \in ChildRecord
         /\ r.id \in Ids
<1>1. r \in Request
  BY RequestTyped
<1>2. r.parent \in Sessions /\ r.prompt \in Prompts /\ r.owner \in Owners
      /\ r.mode \in Modes /\ r.surface \in BOOLEAN /\ r.id \in Ids
  BY <1>1 DEF Request
<1>3. SpawnParent(r) \in Sessions \union {None}
  BY <1>2 DEF SpawnParent, IsNested, TypeOK, ChildRecord
<1>4. SpawnOwner(r) \in Owners
  BY <1>2 DEF SpawnOwner, IsNested, TypeOK, ChildRecord
<1>5. (IF r.parent \in Roots THEN r.parent ELSE child[r.parent].team)
        \in Roots \union {None}
  BY <1>2 DEF Sessions, TypeOK, ChildRecord
<1> QED
  BY <1>2, <1>3, <1>4, <1>5
  DEF SpawnRecord, ChildRecord, Replies, AwaitsInForeground, IsNested

\* The two halves of TypeOK: the children, and the rest of the actor.
ChildrenTyped ==
  /\ queued \subseteq Ids /\ pending \subseteq Ids
  /\ active \subseteq Ids /\ completed \subseteq Ids
  /\ ahead \in [Ids -> SUBSET Ids]
  /\ child \in [Ids -> ChildRecord]
  /\ token \in [Ids -> BOOLEAN]
  /\ waiters \in [Ids -> Nat]
  /\ workflowCancelWaiters \subseteq Runs
  /\ buffered \subseteq Ids

ActorTyped ==
  /\ phase \in {"select", "command", "deadlines"}
  /\ drainWaiters \subseteq Sessions \X Prompts
  /\ teardownDrains \subseteq Sessions
  /\ spawnBlocked \subseteq Sessions

\* TypeOK is its halves.
LEMMA TypeHalves == TypeOK <=> ChildrenTyped /\ ActorTyped
  BY DEF TypeOK, ChildrenTyped, ActorTyped

\* Finishing children and sweeping the queue keeps the types.
LEMMA FinishTyped ==
  ASSUME ChildrenTyped, NEW F \in SUBSET Ids, NEW C,
         NEW ch \in [Ids -> ChildRecord], NEW tk \in [Ids -> BOOLEAN],
         NEW bf \in SUBSET Ids, FinishChildren(F, C, ch, tk, bf)
  PROVE  ChildrenTyped'
<1> DEFINE kept     == queued \ F
           dropped  == {c \in kept : tk[c]}
           started  == StartsFromQueue(kept, Running \ F, tk)
           finished == F \union dropped
           out      == [c \in finished |->
                          OutcomeOf(ch[c],
                                    IF c \in Running THEN ch[c].handleOnly
                                                     ELSE ch[c].mode = "background",
                                    waiters[c] > 0,
                                    c \in C \union dropped)]
<1>1. /\ queued' = kept \ (dropped \union started)
      /\ ahead' = [c \in Ids |-> IF c \in queued' THEN ahead[c] \intersect queued'
                                                  ELSE {}]
      /\ pending' = (pending \ F) \union started
      /\ active' = active \ F
      /\ completed' = completed \union finished
      /\ child' = [c \in Ids |->
                     IF c \in finished THEN FinishedRecord(ch[c], out[c])
                     ELSE IF c \in started THEN StartQueued(ch[c]) ELSE ch[c]]
      /\ token' = tk
      /\ waiters' = AnsweredWaiters(finished)
      /\ buffered' = bf \union
           {c \in finished : /\ BufferCompletions /\ ch[c].surface
                             /\ ~IsWorkflow(ch[c].owner)}
      /\ workflowCancelWaiters' \subseteq workflowCancelWaiters
  BY DEF FinishChildren
<1>2. started \subseteq kept
  BY DEF StartsFromQueue
<1>3. queued' \subseteq Ids /\ pending' \subseteq Ids /\ active' \subseteq Ids
      /\ completed' \subseteq Ids /\ buffered' \subseteq Ids
      /\ workflowCancelWaiters' \subseteq Runs
  BY <1>1, <1>2 DEF ChildrenTyped
<1>4. ahead' \in [Ids -> SUBSET Ids]
  BY <1>1, <1>3 DEF ChildrenTyped
<1>5. child' \in [Ids -> ChildRecord]
  <2> SUFFICES ASSUME NEW c \in Ids
               PROVE  (IF c \in finished THEN FinishedRecord(ch[c], out[c])
                       ELSE IF c \in started THEN StartQueued(ch[c]) ELSE ch[c])
                      \in ChildRecord
    BY <1>1, Zenon
  <2>1. ch[c] \in ChildRecord
    OBVIOUS
  <2>2. c \in finished => out[c] \in Outcomes
    BY OutcomeTyped, Zenon
  <2> HIDE DEF finished, started, out
  <2> QED
    BY <2>1, <2>2, RecordEdits
<1>6. token' \in [Ids -> BOOLEAN]
  BY <1>1
<1>7. waiters' \in [Ids -> Nat]
  BY <1>1 DEF ChildrenTyped, AnsweredWaiters
<1> QED
  BY <1>3, <1>4, <1>5, <1>6, <1>7 DEF ChildrenTyped

\* So does removing spawns from the queue, or nothing.
LEMMA RemoveTyped ==
  ASSUME ChildrenTyped, NEW S \in SUBSET Ids, NEW ch \in [Ids -> ChildRecord],
         NEW tk \in [Ids -> BOOLEAN], NEW bf \in SUBSET Ids,
         RemoveQueued(S, ch, tk, bf)
  PROVE  ChildrenTyped'
<1>1. CASE S = {}
  BY <1>1 DEF RemoveQueued, EditChildren, ChildrenTyped
<1>2. CASE S # {}
  <2> DEFINE tks == [c \in Ids |-> c \in S \/ tk[c]]
  <2>1. tks \in [Ids -> BOOLEAN]
    OBVIOUS
  <2>2. FinishChildren(S, S, ch, tks, bf)
    BY <1>2 DEF RemoveQueued
  <2> HIDE DEF tks
  <2> QED
    BY <2>1, <2>2, FinishTyped
<1> QED
  BY <1>1, <1>2

\* The end of a turn keeps the types of the phase and the drain waiters.
LEMMA EndTurnTyped ==
  ASSUME ActorTyped, EndTurn
  PROVE  phase' \in {"select", "command", "deadlines"}
         /\ drainWaiters' \subseteq Sessions \X Prompts
  BY DEF EndTurn, ActorTyped

\* So do the delete holds that finished children resolve.
LEMMA DrainsTyped ==
  ASSUME NEW drains \in SUBSET Sessions, NEW blocked \in SUBSET Sessions,
         ResolveTeardownDrains(drains, blocked)
  PROVE  teardownDrains' \subseteq Sessions /\ spawnBlocked' \subseteq Sessions
  BY DEF ResolveTeardownDrains

\* The token map after a cancel is a token map.
LEMMA TokensTyped ==
  ASSUME ChildrenTyped, NEW S
  PROVE  CancelTokens(S) \in [Ids -> BOOLEAN]
  BY DEF CancelTokens, ChildrenTyped

\* Other threads keep the types.
LEMMA EnvironmentTyped == TypeOK /\ Environment => TypeOK'
<1> SUFFICES ASSUME TypeOK, Environment PROVE TypeOK'
  OBVIOUS
<1>1. ASSUME NEW c \in Ids, CancelToken(c) PROVE TypeOK'
  BY <1>1 DEF CancelToken, TypeOK
<1>2. ASSUME NEW c \in Ids, DropCaller(c) PROVE TypeOK'
  <2>1. child' \in [Ids -> ChildRecord]
    <3>1. child[c] \in ChildRecord
      BY DEF TypeOK
    <3>2. [child[c] EXCEPT !.reply = "closed"] \in ChildRecord
      BY <3>1, RecordEdits, Zenon
    <3>3. child' = [child EXCEPT ![c] = [child[c] EXCEPT !.reply = "closed"]]
      BY <1>2 DEF DropCaller
    <3> QED
      BY <3>2, <3>3 DEF TypeOK
  <2> QED
    BY <1>2, <2>1 DEF DropCaller, TypeOK
<1>3. ASSUME NEW c \in Ids, AbandonQuery(c) PROVE TypeOK'
  BY <1>3 DEF AbandonQuery, TypeOK
<1>4. ASSUME NEW scope \in drainWaiters, AbandonDrainWait(scope) PROVE TypeOK'
  BY <1>4 DEF AbandonDrainWait, TypeOK
<1> QED
  BY <1>1, <1>2, <1>3, <1>4 DEF Environment

\* The sweep keeps the types.
LEMMA ReapTyped ==
  ASSUME TypeOK, NEW next \in {"select", "command", "deadlines"}, Reap(next)
  PROVE  TypeOK'
<1> DEFINE reaped == [c \in Ids |-> Reaped(c)]
           orphans == {c \in Ids : CallerGone(c)
                                   /\ CancelOnReceiverDrop(child[c].owner)}
           due == {c \in queued : token[c]}
<1>1. ChildrenTyped /\ ActorTyped
  BY TypeHalves
<1>2. reaped \in [Ids -> ChildRecord]
  <2> SUFFICES ASSUME NEW c \in Ids PROVE Reaped(c) \in ChildRecord
    OBVIOUS
  <2>1. child[c] \in ChildRecord
    BY DEF TypeOK
  <2>2. /\ MarkBackgrounded(child[c]) \in ChildRecord
        /\ BackgroundQueued(child[c]) \in ChildRecord
        /\ [child[c] EXCEPT !.reply = "none"] \in ChildRecord
    BY <2>1, RecordEdits, Zenon
  <2>3. \/ Reaped(c) = [child[c] EXCEPT !.reply = "none"]
        \/ Reaped(c) = MarkBackgrounded(child[c])
        \/ Reaped(c) = BackgroundQueued(child[c])
        \/ Reaped(c) = child[c]
    BY DEF Reaped
  <2> QED
    BY <2>1, <2>2, <2>3, Zenon
<1>3. CancelTokens(orphans) \in [Ids -> BOOLEAN] /\ due \in SUBSET Ids
      /\ buffered \in SUBSET Ids
  BY <1>1, TokensTyped DEF ChildrenTyped
<1>4. RemoveQueued(due, reaped, CancelTokens(orphans), buffered)
  BY DEF Reap
<1>5. ChildrenTyped'
  <2> HIDE DEF reaped, orphans, due
  <2> QED
    BY <1>1, <1>2, <1>3, <1>4, RemoveTyped
<1>6. teardownDrains' \subseteq Sessions /\ spawnBlocked' \subseteq Sessions
  BY <1>1, DrainsTyped DEF Reap, ActorTyped
<1>7. phase' \in {"select", "command", "deadlines"}
      /\ drainWaiters' \subseteq Sessions \X Prompts
  BY <1>1, EndTurnTyped DEF Reap, ActorTyped
<1> QED
  BY <1>5, <1>6, <1>7, TypeHalves DEF ActorTyped, TypeOK, ChildrenTyped

\* Spawn commands keep the types.
LEMMA SpawnTyped == TypeOK /\ SpawnCommand => TypeOK'
<1> SUFFICES ASSUME TypeOK, SpawnCommand PROVE TypeOK'
  OBVIOUS
<1>0. ChildrenTyped /\ ActorTyped
  BY TypeHalves
<1>1. ASSUME NEW r \in Requests, NEW cancelled, SpawnRefusal(r, cancelled)
      PROVE  TypeOK'
  BY <1>0, <1>1, EndTurnTyped DEF SpawnRefusal, TypeOK
<1>2. ASSUME NEW r \in Requests, NEW reply \in {"open", "closed"}
      PROVE  /\ [child EXCEPT ![r.id] = SpawnRecord(r, reply)] \in [Ids -> ChildRecord]
             /\ [token EXCEPT ![r.id] = FALSE] \in [Ids -> BOOLEAN]
             /\ r.id \in Ids
  BY SpawnRecordTyped DEF TypeOK
<1>3. ASSUME NEW r \in Requests, NEW reply \in {"open", "closed"},
             SpawnStart(r, reply)
      PROVE  TypeOK'
  BY <1>0, <1>2, <1>3, EndTurnTyped DEF SpawnStart, TypeOK
<1>4. ASSUME NEW r \in Requests, NEW reply \in {"open", "closed"},
             SpawnEnqueue(r, reply)
      PROVE  TypeOK'
  BY <1>0, <1>2, <1>4, EndTurnTyped DEF SpawnEnqueue, PushBack, TypeOK
<1>5. ASSUME NEW r \in Requests, NEW reply \in {"open", "closed"},
             SpawnFail(r, reply)
      PROVE  TypeOK'
  <2> DEFINE ch == [child EXCEPT ![r.id] = SpawnRecord(r, reply)]
             tk == [token EXCEPT ![r.id] = FALSE]
  <2>1. ch \in [Ids -> ChildRecord] /\ tk \in [Ids -> BOOLEAN]
        /\ {r.id} \in SUBSET Ids /\ buffered \in SUBSET Ids
    BY <1>2 DEF TypeOK
  <2>2. FinishChildren({r.id}, {}, ch, tk, buffered)
    BY <1>5 DEF SpawnFail
  <2>3. ChildrenTyped'
    <3> HIDE DEF ch, tk
    <3> QED
      BY <1>0, <2>1, <2>2, FinishTyped
  <2>4. ActorTyped'
    BY <1>0, <1>5, EndTurnTyped, DrainsTyped DEF SpawnFail, ActorTyped
  <2> QED
    BY <2>3, <2>4 DEF TypeOK, ChildrenTyped, ActorTyped
<1> QED
  BY <1>1, <1>3, <1>4, <1>5 DEF SpawnCommand

\* Cancel, Stop, teardown and reopen commands keep the types.
LEMMA CancelTyped == TypeOK /\ CancelCommand => TypeOK'
<1> SUFFICES ASSUME TypeOK, CancelCommand PROVE TypeOK'
  OBVIOUS
<1>0. ChildrenTyped /\ ActorTyped /\ buffered \in SUBSET Ids
      /\ child \in [Ids -> ChildRecord] /\ token \in [Ids -> BOOLEAN]
      /\ teardownDrains \in SUBSET Sessions /\ spawnBlocked \in SUBSET Sessions
  BY TypeHalves DEF TypeOK
<1>1. ASSUME NEW c \in Ids, NEW scope, CancelSubagent(c, scope) PROVE TypeOK'
  <2>1. ChildrenTyped'
    <3>1. CASE c \in Running
      <4>1. [child EXCEPT ![c].killed = TRUE] \in [Ids -> ChildRecord]
        <5>1. [child[c] EXCEPT !.killed = TRUE] \in ChildRecord
          BY <1>0, RecordEdits, Zenon
        <5>2. [child EXCEPT ![c].killed = TRUE]
                = [child EXCEPT ![c] = [child[c] EXCEPT !.killed = TRUE]]
          OBVIOUS
        <5> QED
          BY <1>0, <5>1, <5>2
      <4>2. EditChildren([child EXCEPT ![c].killed = TRUE], CancelTokens({c}),
                         buffered)
        BY <1>1, <3>1 DEF CancelSubagent
      <4> QED
        BY <1>0, <4>1, <4>2, TokensTyped DEF EditChildren, ChildrenTyped
    <3>2. CASE c \notin Running
      BY <1>0, <1>1, <3>2, RemoveTyped DEF CancelSubagent
    <3> QED
      BY <3>1, <3>2
  <2>2. ActorTyped'
    BY <1>0, <1>1, EndTurnTyped, DrainsTyped DEF CancelSubagent, ActorTyped
  <2> QED
    BY <2>1, <2>2 DEF TypeOK, ChildrenTyped, ActorTyped
<1>2. ASSUME NEW prompt, NEW scope, CancelParentPrompt(prompt, scope)
      PROVE  TypeOK'
  <2> DEFINE S == {c \in queued : child[c].prompt = prompt /\ child[c].parent \in scope}
             T == {c \in Running : child[c].prompt = prompt /\ child[c].parent \in scope}
  <2>1. RemoveQueued(S, child, CancelTokens(T), buffered) /\ S \in SUBSET Ids
    BY <1>0, <1>2 DEF CancelParentPrompt, ChildrenTyped
  <2>2. ChildrenTyped'
    <3> HIDE DEF S, T
    <3> QED
      BY <1>0, <2>1, RemoveTyped, TokensTyped
  <2>3. ActorTyped'
    BY <1>0, <1>2, EndTurnTyped, DrainsTyped DEF CancelParentPrompt, ActorTyped
  <2> QED
    BY <2>2, <2>3 DEF TypeOK, ChildrenTyped, ActorTyped
<1>3. ASSUME NEW session \in Sessions, CancelParentSession(session)
      PROVE  TypeOK'
  <2> DEFINE S == {c \in queued : child[c].parent = session
                                  /\ ~IsWorkflow(child[c].owner)}
             T == {c \in Running : child[c].parent = session
                                   /\ ~IsWorkflow(child[c].owner)}
  <2>1. RemoveQueued(S, child, CancelTokens(T), buffered) /\ S \in SUBSET Ids
    BY <1>0, <1>3 DEF CancelParentSession, ChildrenTyped
  <2>2. ChildrenTyped'
    <3> HIDE DEF S, T
    <3> QED
      BY <1>0, <2>1, RemoveTyped, TokensTyped
  <2>3. ActorTyped'
    BY <1>0, <1>3, EndTurnTyped, DrainsTyped DEF CancelParentSession, ActorTyped
  <2> QED
    BY <2>2, <2>3 DEF TypeOK, ChildrenTyped, ActorTyped
<1>4. ASSUME NEW run \in Runs, NEW scope, CancelWorkflowRun(run, scope)
      PROVE  TypeOK'
  BY <1>0, <1>4, EndTurnTyped, TokensTyped DEF CancelWorkflowRun, TypeOK
<1>5. ASSUME NEW session \in Sessions, NEW deleting \in BOOLEAN,
             TeardownSession(session, deleting)
      PROVE  TypeOK'
  <2> DEFINE S == {c \in queued : child[c].parent = session}
             T == {c \in Running : child[c].parent = session}
             B == {c \in buffered : ~(child[c].parent = session)}
             ch == [c \in Ids |-> IF c \in Live /\ child[c].parent = session
                                  THEN Silenced(child[c]) ELSE child[c]]
  <2>1. RemoveQueued(S, ch, CancelTokens(T), B) /\ S \in SUBSET Ids /\ B \in SUBSET Ids
    BY <1>0, <1>5 DEF TeardownSession, ChildrenTyped
  <2>2. ch \in [Ids -> ChildRecord]
    <3>1. \A c \in Ids : Silenced(child[c]) \in ChildRecord
      BY <1>0, RecordEdits, Zenon
    <3> QED
      BY <1>0, <3>1
  <2>3. ChildrenTyped'
    <3> HIDE DEF S, T, B, ch
    <3> QED
      BY <1>0, <2>1, <2>2, RemoveTyped, TokensTyped
  <2>4. ActorTyped'
    BY <1>0, <1>5, EndTurnTyped DEF TeardownSession, ActorTyped
  <2> QED
    BY <2>3, <2>4 DEF TypeOK, ChildrenTyped, ActorTyped
<1>6. ASSUME NEW session, OpenSpawnAdmission(session) PROVE TypeOK'
  BY <1>0, <1>6, EndTurnTyped DEF OpenSpawnAdmission, TypeOK
<1>7. Parents \subseteq Sessions
  BY RequestTyped
<1> QED
  BY <1>1, <1>2, <1>3, <1>4, <1>5, <1>6, <1>7 DEF CancelCommand

\* Commands of a turn keep the types.
LEMMA TurnTyped == TypeOK /\ TurnCommand => TypeOK'
<1> SUFFICES ASSUME TypeOK, TurnCommand PROVE TypeOK'
  OBVIOUS
<1>0. ChildrenTyped /\ ActorTyped
  BY TypeHalves
<1>1. ASSUME NEW session, NEW prompt, HandOffForeground(session, prompt)
      PROVE  TypeOK'
  <2>1. child' \in [Ids -> ChildRecord]
    <3>1. \A c \in Ids : /\ child[c] \in ChildRecord
                         /\ MarkBackgrounded(child[c]) \in ChildRecord
                         /\ BackgroundQueued(child[c]) \in ChildRecord
      BY RecordEdits, Zenon DEF TypeOK
    <3> QED
      BY <1>1, <3>1 DEF HandOffForeground
  <2> QED
    BY <1>0, <1>1, <2>1, EndTurnTyped DEF HandOffForeground, TypeOK
<1>2. ASSUME NEW session \in Sessions, NEW prompt \in Prompts,
             WaitPromptDrained(session, prompt)
      PROVE  TypeOK'
  BY <1>2 DEF WaitPromptDrained, TypeOK
<1>3. ASSUME NEW c \in Ids, BlockingQuery(c) PROVE TypeOK'
  BY <1>0, <1>3, EndTurnTyped DEF BlockingQuery, TypeOK
<1>4. ASSUME NEW session, TakeCompletions(session) PROVE TypeOK'
  BY <1>0, <1>4, EndTurnTyped DEF TakeCompletions, TypeOK
<1>5. CASE ReadOnlyCommand
  BY <1>0, <1>5, EndTurnTyped DEF ReadOnlyCommand, TypeOK
<1>6. Parents \subseteq Sessions
  BY RequestTyped
<1> QED
  BY <1>1, <1>2, <1>3, <1>4, <1>5, <1>6 DEF TurnCommand

\* Wakes keep the types.
LEMMA WakeTyped == ASSUME TypeOK, NEW c \in Ids, WakeCompleted(c) PROVE TypeOK'
<1>0. ChildrenTyped /\ ActorTyped
  BY TypeHalves
<1>1. child' \in [Ids -> ChildRecord]
  <2>1. WakeRecord(child[c]) \in ChildRecord
    BY RecordEdits, Zenon DEF TypeOK
  <2> QED
    BY <2>1 DEF WakeCompleted, TypeOK
<1> QED
  BY <1>0, <1>1, EndTurnTyped DEF WakeCompleted, PushBack, DisplaceCompleted, TypeOK

\* Events of the child runs keep the types.
LEMMA RunnerTyped == TypeOK /\ Runner => TypeOK'
<1> SUFFICES ASSUME TypeOK, NEW c \in Ids, NEW flag \in BOOLEAN,
                    Started(c, flag) \/ RunEnded(c, flag)
             PROVE  TypeOK'
  BY DEF Runner
<1>0. ChildrenTyped /\ ActorTyped
  BY TypeHalves
<1>1. CASE Started(c, flag)
  <2>1. child' \in [Ids -> ChildRecord]
    <3>1. StartedRecord(child[c], flag) \in ChildRecord
      BY RecordEdits, Zenon DEF TypeOK
    <3>2. child' = [child EXCEPT ![c] = StartedRecord(child[c], flag)]
      BY <1>1 DEF Started
    <3> QED
      BY <3>1, <3>2 DEF TypeOK
  <2> QED
    BY <1>0, <1>1, <2>1, EndTurnTyped DEF Started, TypeOK
<1>2. CASE RunEnded(c, flag)
  <2>1. ChildrenTyped'
    BY <1>0, <1>2, FinishTyped DEF RunEnded, ChildrenTyped
  <2>2. ActorTyped'
    BY <1>0, <1>2, EndTurnTyped, DrainsTyped DEF RunEnded, ActorTyped
  <2> QED
    BY <2>1, <2>2 DEF TypeOK, ChildrenTyped, ActorTyped
<1> QED
  BY <1>1, <1>2

\* The deadline pass keeps the types.
LEMMA DeadlinesTyped == TypeOK /\ Deadlines => TypeOK'
<1> SUFFICES ASSUME TypeOK, NEW drains, NEW callers, NEW queries,
                    ProcessDeadlines(drains, callers, queries)
             PROVE  TypeOK'
  BY DEF Deadlines
<1>0. ChildrenTyped /\ ActorTyped
  BY TypeHalves
<1>1. child' \in [Ids -> ChildRecord]
  <2>1. \A c \in Ids : /\ child[c] \in ChildRecord
                       /\ MarkBackgrounded(child[c]) \in ChildRecord
                       /\ BackgroundQueued(child[c]) \in ChildRecord
    BY RecordEdits, Zenon DEF TypeOK
  <2> QED
    BY <2>1 DEF ProcessDeadlines
<1>2. waiters' \in [Ids -> Nat]
  BY DEF ProcessDeadlines, ExpiredQueries, TypeOK
<1> QED
  BY <1>0, <1>1, <1>2, EndTurnTyped DEF ProcessDeadlines, TypeOK

\* Every step of the coordinator and its environment keeps the types.
LEMMA TypeStep == TypeOK /\ [Next]_vars => TypeOK'
<1> SUFFICES ASSUME TypeOK, [Next]_vars PROVE TypeOK'
  OBVIOUS
<1>1. CASE UNCHANGED vars
  BY <1>1 DEF vars, TypeOK
<1>2. CASE Next
  BY <1>2, EnvironmentTyped, ReapTyped, SpawnTyped, CancelTyped, TurnTyped,
     WakeTyped, RunnerTyped, DeadlinesTyped
  DEF Next
<1> QED
  BY <1>1, <1>2

\* The coordinator's state is well typed in every reachable state: what the
\* handlers store is always one of the values their types allow.
THEOREM TypeCorrect == Spec => []TypeOK
<1>1. Init => TypeOK
  BY DEF Init, TypeOK, NoChild, ChildRecord, Owners, Modes, Replies
<1> QED
  BY <1>1, TypeStep, PTL DEF Spec
=============================================================================
