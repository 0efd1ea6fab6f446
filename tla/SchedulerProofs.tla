-------------------------- MODULE SchedulerProofs --------------------------
(***************************************************************************)
(* Proofs about the scheduler for every set of tasks and all bounds: the    *)
(* inductive invariant SchedulerInv, and from it that a delete that was     *)
(* reported stays one, that no reservation is stale, that no transcript     *)
(* mixes prompts and what still runs of a loop when an iteration is started.*)
(***************************************************************************)
EXTENDS Scheduler, FiniteSetTheorems, TLAPS

-----------------------------------------------------------------------------
(* The inductive invariant                                                  *)

\* Where the actor stands says what it works on. An unfinished delete is pending all the
\* time, anything else runs only while none is.
ActorShape ==
  /\ actor.at = "idle" => actor = Resting
  /\ actor.at # "idle" => actor.task \in Tasks
  /\ actor.at = "save" => actor.op \in {"delete", "expiry", "sweep"}
  /\ actor.at = "publish" => actor.op \in {"delete", "expiry"}
  /\ actor.at \in {"query", "unit", "spawn"} => actor.op = "fire"
  /\ actor.op = "delete" => pending = actor.task
  /\ actor.op \in {"expiry", "sweep", "fire"} => pending = None
  /\ pending # None => pending \in created /\ ~table[pending].here

\* A fire works on a task that stays in the table with the prompt it has read; a task
\* that expires is out of the table until its removal is taken back.
KeptTask ==
  /\ actor.op = "fire" =>
       table[actor.task].here /\ table[actor.task].prompt = actor.kept.prompt
  /\ actor.op = "expiry" => actor.task \notin deleted /\ actor.task \in created

\* At most one snapshot is waited for, by the save that the actor is in.
Acks ==
  \A i \in DOMAIN queue : queue[i].ack =>
    /\ queue[i].flush /\ actor.at = "save" /\ actor.answer = "none"
    /\ \A j \in DOMAIN queue : queue[j].ack => i = j

\* Only ids that were used occur anywhere.
KnownTasks ==
  /\ \A t \in Tasks : table[t].here => t \in created
  /\ disk \subseteq created /\ debounced.tasks \subseteq created /\ deleted \subseteq created
  /\ \A i \in DOMAIN queue : queue[i].tasks \subseteq created
  /\ \A i \in DOMAIN runs : runs[i].task \in created

\* Nothing can bring the task back.
Gone(t) ==
  /\ ~table[t].here /\ t \notin disk /\ t \notin debounced.tasks
  /\ \A i \in DOMAIN queue : t \notin queue[i].tasks

\* A deleted task is gone for good from the moment its flush was written; before that,
\* no snapshot from the awaited one on holds it.
DeletedGone ==
  /\ \A t \in deleted : Gone(t)
  /\ actor.op = "delete" /\ (actor.at = "publish" \/ actor.answer = "ok") => Gone(actor.task)
  /\ actor.op = "delete" =>
       \A i, j \in DOMAIN queue : queue[i].ack /\ i <= j => actor.task \notin queue[j].tasks

\* Anchors name iterations of this process or of an earlier one.
Anchored(task) == task.anchor \in DOMAIN runs \union {0, Forgotten}

Anchors ==
  /\ \A t \in Tasks : Anchored(table[t])
  /\ Anchored(actor.kept)
  /\ actor.at = "query" => actor.kept.anchor # 0
  /\ actor.at \in {"unit", "spawn"} /\ actor.answer = "ok" => actor.kept.anchor \in DOMAIN runs

\* The transcript that a task may go on from holds its prompt and no other.
Chained(task) ==
  task.anchor \in DOMAIN runs /\ ~task.reset => runs[task.anchor].transcript = {task.prompt}

Chains ==
  /\ \A t \in Tasks : Chained(table[t])
  /\ Chained(actor.kept)
  /\ \A i \in DOMAIN runs : \E p \in 0..MaxPatches : runs[i].transcript = {p}

\* What is active of an iteration was woken, or nothing of it is but descendants when it
\* failed; or nothing at all.
OverRun(r) == r.woken \/ (r.status = "ok" /\ ~r.lingers) \/ r.status = "failed"
QuietRun(r) == r.woken \/ (r.status # "live" /\ ~r.lingers)
Over(i) == OverRun(runs[i])

\* Every iteration of a task but the one that its anchor names is over; once the actor
\* is about to start another, that one is too, and after an answer about the unit all
\* are quiet. An iteration whose anchor is about to be cleared is over.
OthersOver ==
  /\ \A t \in Tasks : table[t].here =>
       \A i \in DOMAIN runs : runs[i].task = t /\ i # table[t].anchor => Over(i)
  /\ actor.op \in {"expiry", "fire"} =>
       \A i \in DOMAIN runs : runs[i].task = actor.task /\ i # actor.kept.anchor => Over(i)
  /\ actor.at = "spawn" =>
       \A i \in DOMAIN runs : runs[i].task = actor.task => Over(i)
  /\ actor.at = "spawn" /\ actor.kept.anchor # 0 =>
       \A i \in DOMAIN runs : runs[i].task = actor.task => QuietRun(runs[i])
  /\ \A i \in DOMAIN runs : runs[i].watcher = "clears" => Over(i)

SchedulerInv ==
  /\ TypeOK /\ ReservationFresh
  /\ ActorShape /\ KeptTask
  /\ Acks /\ KnownTasks /\ DeletedGone
  /\ Anchors /\ Chains /\ OthersOver

-----------------------------------------------------------------------------
(* Types                                                                    *)

\* Editing one field of a task gives a task.
LEMMA TaskTypes ==
  /\ Absent \in Task
  /\ \A k \in Task :
       /\ \A b \in BOOLEAN : /\ [k EXCEPT !.due = b] \in Task
                             /\ [k EXCEPT !.expired = b] \in Task
                             /\ [k EXCEPT !.here = b] \in Task
       /\ \A a \in RunIds : [k EXCEPT !.anchor = a] \in Task
       /\ \A a \in RunIds, b \in BOOLEAN : [k EXCEPT !.anchor = a, !.reset = b] \in Task
       /\ k.prompt < MaxPatches => PatchedTask(k) \in Task
<1>1. Absent \in Task
  BY TasksAssumption DEF Task, Absent, RunIds
<1>2. ASSUME NEW k \in Task, NEW b \in BOOLEAN
      PROVE  /\ [k EXCEPT !.due = b] \in Task /\ [k EXCEPT !.expired = b] \in Task
             /\ [k EXCEPT !.here = b] \in Task
  BY DEF Task
<1>3. ASSUME NEW k \in Task, NEW a \in RunIds PROVE [k EXCEPT !.anchor = a] \in Task
  BY DEF Task
<1>4. ASSUME NEW k \in Task, NEW a \in RunIds, NEW b \in BOOLEAN
      PROVE  [k EXCEPT !.anchor = a, !.reset = b] \in Task
  BY DEF Task
<1>5. ASSUME NEW k \in Task, k.prompt < MaxPatches PROVE PatchedTask(k) \in Task
  <2>1. k.prompt + 1 \in 0..MaxPatches
    <3>1. k.prompt \in 0..MaxPatches
      BY DEF Task
    <3> QED
      BY <1>5, <3>1, TasksAssumption
  <2> DEFINE p == k.prompt + 1
  <2>2. p \in 0..MaxPatches
    BY <2>1
  <2> HIDE DEF p
  <2>3. [k EXCEPT !.prompt = p, !.reset = TRUE] \in Task
    BY <2>2 DEF Task
  <2> QED
    BY <2>3 DEF PatchedTask, p
<1> QED
  BY <1>1, <1>2, <1>3, <1>4, <1>5

\* The steps that change the iterations and nothing else.
RunsEdit ==
  \E i \in DOMAIN runs :
    \/ \E status \in {"ok", "failed"}, lingers \in BOOLEAN : RunEnds(i, status, lingers)
    \/ DescendantsEnd(i) \/ Wake(i) \/ WakeDescendant(i)

\* They leave the scheduler and the writer alone.
LEMMA EditsOnlyRuns ==
  RunsEdit => UNCHANGED <<table, actor, pending, moved, blocked, targets, queue, debounced, disk,
                          created, before, durable, deleted, crashes>>
<1>1. ASSUME NEW i \in DOMAIN runs, NEW status, NEW lingers, RunEnds(i, status, lingers)
      PROVE  UNCHANGED <<table, actor, pending, moved, blocked, targets, writer, history>>
  BY <1>1 DEF RunEnds
<1>2. ASSUME NEW i \in DOMAIN runs, DescendantsEnd(i) \/ Wake(i) \/ WakeDescendant(i)
      PROVE  UNCHANGED <<table, actor, pending, moved, blocked, targets, writer, history>>
  BY <1>2 DEF DescendantsEnd, Wake, WakeDescendant
<1> QED
  BY <1>1, <1>2 DEF RunsEdit, writer, history

\* The steps that change the table.
TableStep ==
  \/ \E t \in Tasks :
       \/ \E lasting \in BOOLEAN : Create(t, lasting)
       \/ UpdatePrompt(t) \/ UpdateInterval(t) \/ Delete(t) \/ Expire(t)
       \/ FireForeground(t) \/ FireLoop(t) \/ ComesDue(t) \/ ComesOfAge(t)
  \/ Spawn \/ SpawnUnsent \/ NotSaved
  \/ \E i \in DOMAIN runs : Watch(i)
  \/ CrashAndRestart

\* No other step changes the table.
LEMMA TableFrame == [Next]_vars => TableStep \/ UNCHANGED table
BY DEF Next, Command, Fire, Continue, Writer, World, TableStep, vars, RetryDelete,
       BlockExpiry, QueryPrevious, QueryUnit, SkipFire, Skip, Saved, SaveTimesOut, Swept,
       Published, NotPublished, WriterReceive, WriterFlush, WriterTick, ToolSave,
       ConsumerCloses, RunEnds, DescendantsEnd, Wake, WakeDescendant

\* The table stays a table of tasks.
LEMMA TableTyped == TypeOK /\ ActorShape /\ [Next]_vars => table' \in [Tasks -> Task]
<1> SUFFICES ASSUME TypeOK, ActorShape, TableStep PROVE table' \in [Tasks -> Task]
  BY TableFrame DEF TypeOK
<1>0. table \in [Tasks -> Task] /\ actor.kept \in Task /\ actor.task \in Tasks \union {None}
  BY DEF TypeOK, Actor
<1>1. ASSUME NEW t \in Tasks, NEW lasting \in BOOLEAN, Create(t, lasting)
      PROVE  table' \in [Tasks -> Task]
  BY <1>0, <1>1, TaskTypes DEF Create
<1>2. ASSUME NEW t \in Tasks, UpdatePrompt(t) PROVE table' \in [Tasks -> Task]
  BY <1>0, <1>2, TaskTypes DEF UpdatePrompt
<1>3. ASSUME NEW t \in Tasks, UpdateInterval(t) \/ ComesDue(t) \/ ComesOfAge(t)
      PROVE  table' \in [Tasks -> Task]
  <2>1. CASE UpdateInterval(t)
    BY <1>0, <2>1, TaskTypes DEF UpdateInterval
  <2>2. CASE ComesDue(t)
    BY <1>0, <2>2, TaskTypes DEF ComesDue
  <2>3. CASE ComesOfAge(t)
    BY <1>0, <2>3, TaskTypes DEF ComesOfAge
  <2> QED
    BY <1>3, <2>1, <2>2, <2>3
<1>4. ASSUME NEW t \in Tasks, Delete(t) \/ Expire(t) \/ FireForeground(t) \/ FireLoop(t)
      PROVE  table' \in [Tasks -> Task]
  <2>1. table' = Without(t) \/ table' = Fired(t)
    BY <1>4 DEF Delete, Expire, FireForeground, FireLoop
  <2> QED
    BY <1>0, <2>1, TaskTypes DEF Without, Fired
<1>5. CASE Spawn
  <2>1. Len(runs) + 1 \in RunIds
    BY DEF TypeOK, RunIds
  <2>2. table' = [table EXCEPT ![actor.task] =
                    [@ EXCEPT !.anchor = Len(runs) + 1, !.reset = FALSE]]
    BY <1>5 DEF Spawn, Assigned
  <2>3. actor.task \in Tasks
    BY <1>5 DEF Spawn, ActorShape
  <2> QED
    BY <1>0, <2>1, <2>2, <2>3, TaskTypes
<1>6. CASE SpawnUnsent
  <2>1. Restored(Assigned(table[actor.task]), actor.kept) \in Task
    <3>0. Len(runs) + 1 \in RunIds /\ table[actor.task] \in Task
      BY <1>0, <1>6 DEF SpawnUnsent, ActorShape, TypeOK, RunIds
    <3>1. Assigned(table[actor.task]) \in Task
      BY <3>0, TaskTypes DEF Assigned
    <3>2. actor.kept.anchor \in RunIds /\ actor.kept.reset \in BOOLEAN
      BY <1>0 DEF Task
    <3> QED
      BY <3>1, <3>2, TaskTypes DEF Restored
  <2> QED
    BY <1>0, <1>6, <2>1 DEF SpawnUnsent
<1>7. CASE NotSaved
  BY <1>0, <1>7 DEF NotSaved
<1>8. ASSUME NEW i \in DOMAIN runs, Watch(i) PROVE table' \in [Tasks -> Task]
  BY <1>0, <1>8, TaskTypes DEF Watch, RunIds
<1>9. CASE CrashAndRestart
  <2>1. \A k \in Loaded : k \in Task
    <3>1. [Absent EXCEPT !.here = TRUE] \in Task
      BY TaskTypes
    <3>2. \A a \in {0, Forgotten} : [Absent EXCEPT !.here = TRUE, !.anchor = a] \in Task
      BY <3>1, TaskTypes DEF RunIds
    <3> QED
      BY <3>2 DEF Loaded
  <2>2. [Absent EXCEPT !.here = TRUE] \in Task
    BY TaskTypes
  <2> QED
    BY <1>9, <2>1, <2>2, TaskTypes DEF CrashAndRestart
<1> QED
  BY <1>1, <1>2, <1>3, <1>4, <1>5, <1>6, <1>7, <1>8, <1>9 DEF TableStep

\* The steps that change what the actor does.
ActorStep ==
  \/ \E t \in Tasks : Delete(t) \/ Expire(t) \/ FireLoop(t)
  \/ RetryDelete \/ Continue \/ CrashAndRestart
  \/ \E ok \in BOOLEAN : WriterFlush(ok)

\* No other step changes the actor.
LEMMA ActorFrame == [Next]_vars => ActorStep \/ UNCHANGED actor
BY DEF Next, Command, Fire, Writer, World, ActorStep, vars, Create, UpdatePrompt,
       UpdateInterval, BlockExpiry, FireForeground, WriterReceive, WriterTick, ToolSave,
       ComesDue, ComesOfAge, ConsumerCloses, RunEnds, DescendantsEnd, Wake, WakeDescendant, Watch

\* The actor stays well formed.
LEMMA ActorTyped == TypeOK /\ [Next]_vars => actor' \in Actor
<1> SUFFICES ASSUME TypeOK, ActorStep PROVE actor' \in Actor
  BY ActorFrame DEF TypeOK
<1>0. /\ actor \in Actor /\ Resting \in Actor /\ pending \in Tasks \union {None}
      /\ \A t \in Tasks : table[t] \in Task
  BY TaskTypes DEF TypeOK, Actor, Resting, Places, Operations
<1>1. ASSUME NEW t \in Tasks, Delete(t) PROVE actor' \in Actor
  BY <1>1, TaskTypes DEF Delete, SaveAndFlush, DeleteStep, Actor, Resting, Places, Operations
<1>2. ASSUME NEW t \in Tasks, Expire(t) PROVE actor' \in Actor
  BY <1>0, <1>2 DEF Expire, SaveAndFlush, Actor, Resting, Places, Operations
<1>3. ASSUME NEW t \in Tasks, FireLoop(t) PROVE actor' \in Actor
  BY <1>0, <1>3 DEF FireLoop, Actor, Resting, Places, Operations
<1>4. CASE RetryDelete
  BY <1>0, <1>4, TaskTypes
  DEF RetryDelete, SaveAndFlush, DeleteStep, Actor, Resting, Places, Operations
<1>5. CASE Continue
  <2>1. CASE QueryPrevious
    BY <1>0, <2>1 DEF QueryPrevious, Actor, Places
  <2>2. CASE QueryUnit
    BY <1>0, <2>2 DEF QueryUnit, Actor, Places
  <2>3. CASE Saved
    BY <1>0, <2>3 DEF Saved, Actor, Places
  <2>4. CASE ~(QueryPrevious \/ QueryUnit \/ Saved)
    <3>1. actor' = Resting
      BY <1>5, <2>4 DEF Continue, SkipFire, Skip, Spawn, SpawnUnsent, NotSaved, SaveTimesOut,
                        Swept, Published, NotPublished
    <3> QED
      BY <1>0, <3>1
  <2> QED
    BY <2>1, <2>2, <2>3, <2>4
<1>6. CASE CrashAndRestart
  BY <1>0, <1>6 DEF CrashAndRestart
<1>7. ASSUME NEW ok \in BOOLEAN, WriterFlush(ok) PROVE actor' \in Actor
  BY <1>0, <1>7 DEF WriterFlush, Actor
<1> QED
  BY <1>1, <1>2, <1>3, <1>4, <1>5, <1>6, <1>7 DEF ActorStep

\* The steps that change what the writer has before it, holds back or has written.
WriterStep ==
  \/ \E t \in Tasks : Delete(t) \/ Expire(t)
  \/ RetryDelete \/ SaveTimesOut \/ Swept \/ Writer \/ ToolSave \/ CrashAndRestart

\* No other step touches the queue, the snapshot held back or the file.
LEMMA WriterFrame == [Next]_vars => WriterStep \/ UNCHANGED writer
BY DEF Next, Command, Fire, Continue, World, WriterStep, writer, vars, Create, UpdatePrompt,
       UpdateInterval, BlockExpiry, FireForeground, FireLoop, QueryPrevious, QueryUnit,
       SkipFire, Skip, Spawn, SpawnUnsent, Saved, NotSaved, Published, NotPublished,
       ComesDue, ComesOfAge, ConsumerCloses, RunEnds, DescendantsEnd, Wake, WakeDescendant, Watch

\* What a save appends.
LEMMA SentTyped ==
  ASSUME queue \in Seq(Snapshot), NEW T \in SUBSET Tasks,
         NEW flush \in BOOLEAN, NEW ack \in BOOLEAN,
         queue' = Append(queue, [tasks |-> T, flush |-> flush, ack |-> ack])
  PROVE  queue' \in Seq(Snapshot)
<1>1. [tasks |-> T, flush |-> flush, ack |-> ack] \in Snapshot
  BY DEF Snapshot
<1> QED
  BY <1>1

\* What the writer works on stays well formed.
LEMMA WriterTyped ==
  TypeOK /\ [Next]_vars => queue' \in Seq(Snapshot) /\ debounced' \in Held /\ disk' \subseteq Tasks
<1> DEFINE Typed == queue' \in Seq(Snapshot) /\ debounced' \in Held /\ disk' \subseteq Tasks
<1> SUFFICES ASSUME TypeOK, WriterStep PROVE Typed
  BY WriterFrame DEF TypeOK, writer
<1>0. /\ queue \in Seq(Snapshot) /\ debounced \in Held /\ disk \subseteq Tasks
      /\ NothingHeld \in Held
  BY DEF TypeOK, NothingHeld, Held
<1>1. ASSUME NEW t \in Tasks, Delete(t) \/ Expire(t) PROVE Typed
  <2>1. queue' = Append(queue, [tasks |-> TasksOf(Without(t)), flush |-> TRUE, ack |-> TRUE])
        /\ UNCHANGED <<debounced, disk>>
    BY <1>1 DEF Delete, Expire, SaveAndFlush
  <2>2. TasksOf(Without(t)) \subseteq Tasks
    BY DEF TasksOf
  <2> QED
    BY <1>0, <2>1, <2>2, SentTyped
<1>2. CASE RetryDelete
  <2>1. TasksOf(table) \subseteq Tasks
    BY DEF TasksOf
  <2>2. \/ queue' = Append(queue, [tasks |-> TasksOf(table), flush |-> TRUE, ack |-> TRUE])
        \/ queue' = queue
    BY <1>2 DEF RetryDelete, SaveAndFlush
  <2>3. queue' \in Seq(Snapshot)
    BY <1>0, <2>1, <2>2, SentTyped
  <2> QED
    BY <1>0, <1>2, <2>3 DEF RetryDelete
<1>3. CASE ToolSave
  <2>1. Here \subseteq Tasks
    BY DEF Here, TasksOf
  <2>2. queue' \in Seq(Snapshot)
    BY <1>0, <1>3, <2>1, SentTyped DEF ToolSave
  <2> QED
    BY <1>0, <1>3, <2>2 DEF ToolSave
<1>4. CASE SaveTimesOut \/ Swept
  <2>1. queue' = Unheard(queue) /\ UNCHANGED <<debounced, disk>>
    BY <1>4 DEF SaveTimesOut, Swept
  <2>2. \A s \in Snapshot : [s EXCEPT !.ack = FALSE] \in Snapshot
    BY DEF Snapshot
  <2> QED
    BY <1>0, <2>1, <2>2 DEF Unheard
<1>5. CASE Writer
  <2>0. queue # <<>> => Head(queue) \in Snapshot /\ Tail(queue) \in Seq(Snapshot)
    BY <1>0
  <2>1. CASE WriterReceive
    <3>1. Head(queue).tasks \subseteq Tasks
      BY <2>0, <2>1 DEF WriterReceive, Snapshot
    <3>2. debounced' \in Held
      BY <2>1, <3>1 DEF WriterReceive, Held
    <3> QED
      BY <1>0, <2>0, <2>1, <3>2 DEF WriterReceive
  <2>2. ASSUME NEW ok \in BOOLEAN, WriterFlush(ok) PROVE Typed
    <3>1. Head(queue).tasks \subseteq Tasks
      BY <2>0, <2>2 DEF WriterFlush, Snapshot
    <3> QED
      BY <1>0, <2>0, <2>2, <3>1 DEF WriterFlush, HeldAfterFlush
  <2>3. CASE WriterTick
    <3>1. debounced.tasks \subseteq Tasks
      BY <1>0 DEF Held
    <3> QED
      BY <1>0, <2>3, <3>1 DEF WriterTick
  <2> QED
    BY <1>5, <2>1, <2>2, <2>3 DEF Writer
<1>6. CASE CrashAndRestart
  BY <1>0, <1>6 DEF CrashAndRestart
<1> QED
  BY <1>1, <1>2, <1>3, <1>4, <1>5, <1>6 DEF WriterStep

\* The steps that change the iterations.
RunsStep ==
  \/ Spawn \/ CrashAndRestart
  \/ \E i \in DOMAIN runs :
       \/ \E status \in {"ok", "failed"}, lingers \in BOOLEAN : RunEnds(i, status, lingers)
       \/ DescendantsEnd(i) \/ Wake(i) \/ WakeDescendant(i) \/ Watch(i)

\* No other step changes the iterations.
LEMMA RunsFrame == [Next]_vars => RunsStep \/ UNCHANGED runs
BY DEF Next, Command, Fire, Continue, Writer, World, RunsStep, vars, Create, UpdatePrompt,
       UpdateInterval, Delete, RetryDelete, BlockExpiry, Expire, FireForeground, FireLoop,
       QueryPrevious, QueryUnit, SkipFire, Skip, SpawnUnsent, Saved, NotSaved,
       SaveTimesOut, Swept, Published, NotPublished, WriterReceive, WriterFlush, WriterTick,
       ToolSave, ComesDue, ComesOfAge, ConsumerCloses

\* A new iteration holds one prompt: it starts afresh, or goes on from one whose
\* transcript holds just that prompt.
NewRun ==
  [task |-> actor.task, transcript |-> {actor.kept.prompt}, status |-> "live",
   lingers |-> FALSE, watcher |-> "waits", woken |-> FALSE]

\* A spawn appends that iteration.
LEMMA SpawnsOnePrompt ==
  ASSUME TypeOK, Anchors, Chains, Spawn
  PROVE  runs' = Append(runs, NewRun)
<1>1. PICK transcript \in Transcripts(actor.kept, actor.answer) :
        runs' = Append(runs, [task |-> actor.task, transcript |-> transcript,
                              status |-> "live", lingers |-> FALSE, watcher |-> "waits",
                              woken |-> FALSE])
  BY DEF Spawn
<1>2. transcript = {actor.kept.prompt}
  <2>1. CASE actor.kept.reset \/ actor.answer # "ok"
    BY <1>1, <2>1 DEF Transcripts
  <2>2. CASE ~(actor.kept.reset \/ actor.answer # "ok")
    <3>1. actor.kept.anchor \in DOMAIN runs
      BY <2>2 DEF Spawn, Anchors
    <3>2. runs[actor.kept.anchor].transcript = {actor.kept.prompt}
      BY <2>2, <3>1 DEF Chains, Chained
    <3> QED
      BY <1>1, <3>2 DEF Transcripts
  <2> QED
    BY <2>1, <2>2
<1> QED
  BY <1>1, <1>2 DEF NewRun

\* What the world makes of an iteration: it ends, its descendants end, it is woken, or
\* one of its descendants is.
EndedRun(r, status, lingers) ==
  [r EXCEPT !.status = status, !.lingers = @ \/ lingers,
            !.woken = @ /\ (r.lingers \/ lingers),
            !.watcher = IF @ # "waits" THEN @
                        ELSE IF status = "failed" THEN "clears" ELSE "gone"]
LeftRun(r) == [r EXCEPT !.lingers = FALSE, !.woken = @ /\ r.status = "live"]
WokenRun(r) == [r EXCEPT !.status = "live", !.woken = TRUE]
JoinedRun(r) == [r EXCEPT !.lingers = TRUE, !.woken = TRUE]

\* The iterations stay well formed.
LEMMA RunsTyped ==
  TypeOK /\ ActorShape /\ Anchors /\ Chains /\ [Next]_vars => runs' \in Seq(Run)
<1> SUFFICES ASSUME TypeOK, ActorShape, Anchors, Chains, RunsStep PROVE runs' \in Seq(Run)
  BY RunsFrame DEF TypeOK
<1>0. runs \in Seq(Run) /\ \A i \in DOMAIN runs : runs[i] \in Run
  BY DEF TypeOK
<1>00. \A i \in DOMAIN runs, r \in Run : [runs EXCEPT ![i] = r] \in Seq(Run)
  BY <1>0
<1>1. CASE Spawn
  <2>1. actor.task \in Tasks /\ actor.kept.prompt \in 0..MaxPatches
    BY <1>1 DEF Spawn, ActorShape, TypeOK, Actor, Task
  <2>2. NewRun \in Run
    BY <2>1 DEF NewRun, Run
  <2> QED
    BY <1>0, <1>1, <2>2, SpawnsOnePrompt
<1>2. CASE CrashAndRestart
  BY <1>2 DEF CrashAndRestart
<1>3. ASSUME NEW i \in DOMAIN runs, NEW status \in {"ok", "failed"}, NEW lingers \in BOOLEAN,
             RunEnds(i, status, lingers)
      PROVE  runs' \in Seq(Run)
  <2>1. \A r \in Run : EndedRun(r, status, lingers) \in Run
    BY DEF Run, EndedRun
  <2>2. runs' = [runs EXCEPT ![i] = EndedRun(runs[i], status, lingers)]
    BY <1>3 DEF RunEnds, EndedRun
  <2> QED
    BY <1>0, <1>00, <2>1, <2>2
<1>4. ASSUME NEW i \in DOMAIN runs,
             DescendantsEnd(i) \/ Wake(i) \/ WakeDescendant(i) \/ Watch(i)
      PROVE  runs' \in Seq(Run)
  <2>1. \A r \in Run : /\ LeftRun(r) \in Run /\ WokenRun(r) \in Run
                       /\ JoinedRun(r) \in Run /\ [r EXCEPT !.watcher = "gone"] \in Run
    BY DEF Run, LeftRun, WokenRun, JoinedRun
  <2>2. \/ runs' = [runs EXCEPT ![i] = LeftRun(runs[i])]
        \/ runs' = [runs EXCEPT ![i] = WokenRun(runs[i])]
        \/ runs' = [runs EXCEPT ![i] = JoinedRun(runs[i])]
        \/ runs' = [runs EXCEPT ![i] = [runs[i] EXCEPT !.watcher = "gone"]]
    BY <1>4 DEF DescendantsEnd, Wake, WakeDescendant, Watch, LeftRun, WokenRun, JoinedRun
  <2> QED
    BY <1>0, <1>00, <2>1, <2>2
<1> QED
  BY <1>1, <1>2, <1>3, <1>4 DEF RunsStep

\* Every step keeps the types.
LEMMA TypePreserved ==
  TypeOK /\ ActorShape /\ Anchors /\ Chains /\ [Next]_vars => TypeOK'
<1> SUFFICES ASSUME TypeOK, ActorShape, Anchors, Chains, [Next]_vars PROVE TypeOK'
  OBVIOUS
<1>1. table' \in [Tasks -> Task] /\ actor' \in Actor
  BY TableTyped, ActorTyped
<1>2. queue' \in Seq(Snapshot) /\ debounced' \in Held /\ disk' \subseteq Tasks
  BY WriterTyped
<1>3. runs' \in Seq(Run)
  BY RunsTyped
<1>4. created' \subseteq Tasks /\ durable' \subseteq created' /\ deleted' \subseteq Tasks
  <2>1. CASE \E t \in Tasks, lasting \in BOOLEAN : Create(t, lasting)
    BY <2>1 DEF TypeOK, Create
  <2>2. CASE Published
    BY <2>2 DEF TypeOK, Published, Actor, ActorShape
  <2>3. CASE ~(Published \/ \E t \in Tasks, lasting \in BOOLEAN : Create(t, lasting))
    <3>1. UNCHANGED <<created, durable, deleted>>
      BY <2>3 DEF Next, Command, Fire, Continue, Writer, World, vars, history, UpdatePrompt,
           UpdateInterval, Delete, RetryDelete, BlockExpiry, Expire, FireForeground, FireLoop,
           QueryPrevious, QueryUnit, SkipFire, Skip, Spawn, SpawnUnsent, Saved, NotSaved,
           SaveTimesOut, Swept, NotPublished, WriterReceive, WriterFlush, WriterTick,
           ToolSave, ComesDue, ComesOfAge, ConsumerCloses, RunEnds, DescendantsEnd, Wake,
           WakeDescendant, Watch,
           CrashAndRestart
    <3> QED
      BY <3>1 DEF TypeOK
  <2> QED
    BY <2>1, <2>2, <2>3
<1>5. before' \in [Tasks -> SUBSET Tasks] /\ crashes' \in 0..MaxCrashes
  <2>1. CASE \E t \in Tasks, lasting \in BOOLEAN : Create(t, lasting)
    BY <2>1 DEF TypeOK, Create, Here, TasksOf
  <2>2. CASE CrashAndRestart
    BY <2>2, TasksAssumption DEF TypeOK, CrashAndRestart
  <2>3. CASE ~(CrashAndRestart \/ \E t \in Tasks, lasting \in BOOLEAN : Create(t, lasting))
    <3>1. UNCHANGED <<before, crashes>>
      BY <2>3 DEF Next, Command, Fire, Continue, Writer, World, vars, history, ComesDue,
           UpdatePrompt, UpdateInterval, Delete, RetryDelete, BlockExpiry, Expire,
           FireForeground, FireLoop, QueryPrevious, QueryUnit, SkipFire, Skip, Spawn,
           SpawnUnsent, Saved, NotSaved, SaveTimesOut, Swept, Published, NotPublished,
           WriterReceive, WriterFlush, WriterTick, ToolSave, ComesOfAge, ConsumerCloses,
           RunEnds, DescendantsEnd, Wake, WakeDescendant, Watch
    <3> QED
      BY <3>1 DEF TypeOK
  <2> QED
    BY <2>1, <2>2, <2>3
<1>6. /\ pending' \in Tasks \union {None} /\ blocked' \subseteq Tasks
      /\ moved' \in BOOLEAN /\ targets' \in BOOLEAN
  <2>1. pending' \in Tasks \union {None}
    <3>1. \/ pending' \in {None, pending}
          \/ \E t \in Tasks : pending' = t
      BY DEF Next, Command, Fire, Continue, Writer, World, vars, Create,
           UpdatePrompt, UpdateInterval, Delete, RetryDelete, BlockExpiry, Expire,
           FireForeground, FireLoop, QueryPrevious, QueryUnit, SkipFire, Skip, Spawn,
           SpawnUnsent, Saved, NotSaved, SaveTimesOut, Swept, Published, NotPublished,
           WriterReceive, WriterFlush, WriterTick, ToolSave, ComesDue, ComesOfAge,
           ConsumerCloses, RunEnds, DescendantsEnd, Wake, WakeDescendant, Watch, CrashAndRestart
    <3> QED
      BY <3>1 DEF TypeOK
  <2>2. blocked' \subseteq Tasks
    <3>1. \/ blocked' \in {{}, blocked}
          \/ \E t \in Tasks : blocked' = blocked \union {t}
          \/ NotSaved
      BY DEF Next, Command, Fire, Continue, Writer, World, vars, Create,
           UpdatePrompt, UpdateInterval, Delete, RetryDelete, BlockExpiry, Expire,
           FireForeground, FireLoop, QueryPrevious, QueryUnit, SkipFire, Skip, Spawn,
           SpawnUnsent, Saved, SaveTimesOut, Swept, Published, NotPublished,
           WriterReceive, WriterFlush, WriterTick, ToolSave, ComesDue, ComesOfAge,
           ConsumerCloses, RunEnds, DescendantsEnd, Wake, WakeDescendant, Watch, CrashAndRestart
    <3>2. CASE NotSaved
      BY <3>2 DEF NotSaved, ActorShape, TypeOK
    <3> QED
      BY <3>1, <3>2 DEF TypeOK
  <2>3. moved' \in BOOLEAN /\ targets' \in BOOLEAN
    <3>1. CASE RunsEdit
      BY <3>1, EditsOnlyRuns DEF TypeOK
    <3>2. CASE ~RunsEdit
      BY <3>2 DEF RunsEdit, Next, Command, Fire, Continue, Writer, World, vars, Commit,
           Create, TypeOK, UpdatePrompt, UpdateInterval, Delete, RetryDelete, BlockExpiry,
           Expire, FireForeground, FireLoop, QueryPrevious, QueryUnit, SkipFire, Skip, Spawn,
           SpawnUnsent, Saved, NotSaved, SaveTimesOut, Swept, Published, NotPublished,
           WriterReceive, WriterFlush, WriterTick, ToolSave, ComesDue, ComesOfAge,
           ConsumerCloses, Watch, CrashAndRestart
    <3> QED
      BY <3>1, <3>2
  <2> QED
    BY <2>1, <2>2, <2>3
<1> QED
  BY <1>1, <1>2, <1>3, <1>4, <1>5, <1>6 DEF TypeOK

-----------------------------------------------------------------------------
(* The actor and the unfinished delete                                      *)

\* A task comes into the table by a create, by an expiry that is taken back, or from
\* the file.
LEMMA HereGrows ==
  ASSUME TypeOK, ActorShape, [Next]_vars, NEW x \in Tasks, table'[x].here, ~table[x].here
  PROVE  \/ \E lasting \in BOOLEAN : Create(x, lasting)
         \/ NotSaved /\ actor.op = "expiry" /\ x = actor.task
         \/ CrashAndRestart /\ x \in disk
<1>0. table \in [Tasks -> Task] /\ TableStep
  BY TableFrame DEF TypeOK
<1>1. ASSUME NEW t \in Tasks, NEW lasting \in BOOLEAN, Create(t, lasting) PROVE x = t
  BY <1>0, <1>1 DEF Create
<1>2. ASSUME NEW t \in Tasks, UpdatePrompt(t) \/ UpdateInterval(t) \/ ComesDue(t) \/ ComesOfAge(t)
      PROVE  FALSE
  <2>1. table'[x].here = table[x].here
    BY <1>0, <1>2 DEF UpdatePrompt, UpdateInterval, ComesDue, ComesOfAge, PatchedTask, Task
  <2> QED
    BY <2>1
<1>3. ASSUME NEW t \in Tasks, Delete(t) \/ Expire(t) \/ FireForeground(t) \/ FireLoop(t)
      PROVE  FALSE
  <2>1. table' = Without(t) \/ table' = Fired(t)
    BY <1>3 DEF Delete, Expire, FireForeground, FireLoop
  <2>2. \/ table'[x] = Absent \/ table'[x] = table[x]
        \/ table'[x] = [table[x] EXCEPT !.due = FALSE]
    BY <1>0, <2>1 DEF Without, Fired
  <2>3. table[x] \in Task
    BY <1>0
  <2> QED
    BY <2>2, <2>3 DEF Absent, Task
<1>4. CASE Spawn
  <2>1. table'[x].here = table[x].here
    BY <1>0, <1>4 DEF Spawn, Assigned, Task
  <2> QED
    BY <2>1
<1>5. CASE SpawnUnsent
  <2>1. table'[x].here = table[x].here
    BY <1>0, <1>5 DEF SpawnUnsent, Restored, Assigned, Task
  <2> QED
    BY <2>1
<1>6. CASE NotSaved
  BY <1>0, <1>6 DEF NotSaved
<1>7. ASSUME NEW i \in DOMAIN runs, Watch(i) PROVE FALSE
  <2>1. table'[x].here = table[x].here
    BY <1>0, <1>7 DEF Watch, Task
  <2> QED
    BY <2>1
<1>8. CASE CrashAndRestart
  BY <1>8 DEF CrashAndRestart, Absent
<1> QED
  BY <1>0, <1>1, <1>2, <1>3, <1>4, <1>5, <1>6, <1>7, <1>8 DEF TableStep

\* Every step keeps the actor's place, operation and the pending delete in line.
LEMMA ShapePreserved ==
  TypeOK /\ ActorShape /\ Acks /\ KnownTasks /\ [Next]_vars => ActorShape'
<1> SUFFICES ASSUME TypeOK, ActorShape, Acks, KnownTasks, [Next]_vars PROVE ActorShape'
  OBVIOUS
<1> DEFINE Stand(a, p) ==
      /\ a.at = "idle" => a = Resting
      /\ a.at # "idle" => a.task \in Tasks
      /\ a.at = "save" => a.op \in {"delete", "expiry", "sweep"}
      /\ a.at = "publish" => a.op \in {"delete", "expiry"}
      /\ a.at \in {"query", "unit", "spawn"} => a.op = "fire"
      /\ a.op = "delete" => p = a.task
      /\ a.op \in {"expiry", "sweep", "fire"} => p = None
<1>0. Stand(actor, pending) /\ Stand(Resting, pending) /\ Stand(Resting, None)
  BY DEF ActorShape, Resting
<1>1. Stand(actor', pending')
  <2>1. ASSUME NEW t \in Tasks, Delete(t) PROVE Stand(actor', pending')
    BY <2>1 DEF Delete, SaveAndFlush, DeleteStep, Resting
  <2>2. ASSUME NEW t \in Tasks, Expire(t) PROVE Stand(actor', pending')
    BY <2>2 DEF Expire, MayFire, SaveAndFlush, Resting
  <2>3. ASSUME NEW t \in Tasks, FireLoop(t) PROVE Stand(actor', pending')
    BY <2>3 DEF FireLoop, MayFire, Resting
  <2>4. CASE RetryDelete
    BY <1>0, <2>4 DEF RetryDelete, SaveAndFlush, DeleteStep, Resting, TypeOK, Idle
  <2>5. CASE QueryPrevious \/ QueryUnit \/ Saved
    BY <1>0, <2>5 DEF QueryPrevious, QueryUnit, Saved, TypeOK, Actor
  <2>6. ASSUME NEW ok \in BOOLEAN, WriterFlush(ok) PROVE Stand(actor', pending')
    <3>1. CASE Head(queue).ack
      <4>1. actor.at = "save"
        BY <2>6, <3>1 DEF WriterFlush, Acks, TypeOK
      <4> QED
        BY <1>0, <2>6, <3>1, <4>1 DEF WriterFlush, TypeOK, Actor
    <3>2. CASE ~Head(queue).ack
      BY <1>0, <2>6, <3>2 DEF WriterFlush
    <3> QED
      BY <3>1, <3>2
  <2>7. CASE \/ SkipFire \/ Spawn \/ SpawnUnsent \/ NotSaved \/ SaveTimesOut \/ Swept
             \/ Published \/ NotPublished \/ CrashAndRestart
    <3>1. actor' = Resting
      BY <2>7 DEF SkipFire, Skip, Spawn, SpawnUnsent, NotSaved, SaveTimesOut, Swept,
                  Published, NotPublished, CrashAndRestart
    <3> QED
      BY <3>1 DEF Resting
  <2>8. CASE UNCHANGED <<actor, pending>>
    BY <1>0, <2>8
  <2> HIDE DEF Stand
  <2> QED
    BY <2>1, <2>2, <2>3, <2>4, <2>5, <2>6, <2>7, <2>8
    DEF Next, Command, Fire, Continue, Writer, World, vars, Create, UpdatePrompt,
        UpdateInterval, BlockExpiry, FireForeground, WriterReceive, WriterTick, ToolSave,
        ComesDue, ComesOfAge, ConsumerCloses, RunEnds, DescendantsEnd, Wake, WakeDescendant, Watch
<1>2. pending' # None => pending' \in created' /\ ~table'[pending'].here
  <2>1. ASSUME NEW t \in Tasks, Delete(t) PROVE pending' \in created' /\ ~table'[pending'].here
    BY <2>1 DEF Delete, Without, Here, TasksOf, Absent, history, TypeOK, KnownTasks
  <2>2. ASSUME pending' = pending, pending # None,
               UNCHANGED created \/ \E t \in Tasks, lasting \in BOOLEAN : Create(t, lasting)
        PROVE  pending' \in created' /\ ~table'[pending'].here
    <3>1. pending \in Tasks /\ pending \in created /\ ~table[pending].here
      BY <2>2 DEF TypeOK, ActorShape
    <3>2. pending \in created'
      BY <2>2, <3>1 DEF Create
    <3>3. ASSUME table'[pending].here PROVE FALSE
      <4>1. CASE \E lasting \in BOOLEAN : Create(pending, lasting)
        BY <4>1, <2>2 DEF Create, MayChange
      <4>2. CASE NotSaved /\ actor.op = "expiry"
        BY <2>2, <4>2 DEF ActorShape
      <4>3. CASE CrashAndRestart
        BY <2>2, <4>3 DEF CrashAndRestart
      <4> QED
        BY <3>1, <3>3, <4>1, <4>2, <4>3, HereGrows
    <3> QED
      BY <2>2, <3>2, <3>3
  <2>3. \/ \E t \in Tasks : Delete(t)
        \/ pending' = None
        \/ /\ pending' = pending
           /\ UNCHANGED created \/ \E t \in Tasks, lasting \in BOOLEAN : Create(t, lasting)
    <3>1. CASE RunsEdit
      BY <3>1, EditsOnlyRuns
    <3>2. CASE ~RunsEdit
      BY <3>2 DEF RunsEdit, Next, Command, Fire, Continue, Writer, World, vars, history,
           Create, UpdatePrompt, UpdateInterval, RetryDelete, BlockExpiry, Expire,
           FireForeground, FireLoop, QueryPrevious, QueryUnit, SkipFire, Skip, Spawn,
           SpawnUnsent, Saved, NotSaved, SaveTimesOut, Swept, Published, NotPublished,
           WriterReceive, WriterFlush, WriterTick, ToolSave, ComesDue, ComesOfAge,
           ConsumerCloses, Watch, CrashAndRestart
    <3> QED
      BY <3>1, <3>2
  <2> QED
    BY <2>1, <2>2, <2>3
<1> QED
  BY <1>1, <1>2 DEF ActorShape

\* No version is committed while a delete holds a reservation.
LEMMA ReservationPreserved ==
  ReservationFresh /\ ActorShape /\ [Next]_vars => ReservationFresh'
<1> SUFFICES ASSUME ReservationFresh, ActorShape, [Next]_vars PROVE ReservationFresh'
  OBVIOUS
<1>1. CASE Commit /\ UNCHANGED pending /\ pending = None
  BY <1>1 DEF Commit, ReservationFresh
<1>2. CASE moved' = FALSE \/ pending' = None
  BY <1>2 DEF ReservationFresh
<1>3. CASE UNCHANGED <<moved, pending>>
  BY <1>3 DEF ReservationFresh
<1>4. CASE Spawn \/ SpawnUnsent \/ Swept
  <2>1. pending = None /\ UNCHANGED pending
    BY <1>4 DEF Spawn, SpawnUnsent, Swept, ActorShape
  <2> QED
    BY <1>2, <2>1
<1>5. CASE Published
  <2>1. actor.op = "delete" \/ (actor.op = "expiry" /\ pending = None)
    BY <1>5 DEF Published, ActorShape
  <2> QED
    BY <1>2, <1>5, <2>1 DEF Published
<1> QED
  BY <1>1, <1>2, <1>3, <1>4, <1>5
  DEF Next, Command, Fire, Continue, Writer, World, vars, Create, MayChange, MayFire,
      UpdatePrompt, UpdateInterval, Delete, RetryDelete, BlockExpiry, Expire,
      FireForeground, FireLoop, QueryPrevious, QueryUnit, SkipFire, Skip, Saved, NotSaved,
      SaveTimesOut, NotPublished, WriterReceive, WriterFlush, WriterTick, ToolSave,
      ComesDue, ComesOfAge, ConsumerCloses, RunEnds, DescendantsEnd, Wake, WakeDescendant,
      Watch, CrashAndRestart

\* The actor begins something, ends it, or goes on with the same task; while it is busy
\* only time and the watchers touch the table.
LEMMA ActorMoves ==
  ASSUME TypeOK, ActorShape, Acks, [Next]_vars
  PROVE  \/ \E t \in Tasks : Delete(t) \/ Expire(t) \/ FireLoop(t)
         \/ RetryDelete
         \/ actor' = Resting
         \/ /\ actor'.op = actor.op /\ actor'.task = actor.task /\ actor'.kept = actor.kept
            /\ actor.at # "idle" => /\ UNCHANGED <<created, deleted>>
                                    /\ \/ UNCHANGED table
                                       \/ \E t \in Tasks : ComesDue(t) \/ ComesOfAge(t)
                                       \/ \E i \in DOMAIN runs : Watch(i)
<1>1. CASE QueryPrevious \/ QueryUnit \/ Saved
  BY <1>1 DEF QueryPrevious, QueryUnit, Saved, TypeOK, Actor, history
<1>2. CASE \E ok \in BOOLEAN : WriterFlush(ok)
  BY <1>2 DEF WriterFlush, TypeOK, Actor, history
<1>3. CASE ~ActorStep
  <2>1. \/ /\ actor.at = "idle"
        \/ /\ UNCHANGED <<created, deleted>>
           /\ \/ UNCHANGED table
              \/ \E t \in Tasks : ComesDue(t) \/ ComesOfAge(t)
              \/ \E i \in DOMAIN runs : Watch(i)
    <3>1. CASE \E t \in Tasks :
                 \/ \E lasting \in BOOLEAN : Create(t, lasting)
                 \/ UpdatePrompt(t) \/ UpdateInterval(t) \/ BlockExpiry(t) \/ FireForeground(t)
      BY <3>1 DEF Create, UpdatePrompt, UpdateInterval, BlockExpiry, FireForeground, MayChange,
                  MayFire, Idle
    <3>2. CASE \/ WriterReceive \/ WriterTick \/ ToolSave \/ ConsumerCloses \/ UNCHANGED vars
               \/ \E t \in Tasks : ComesDue(t) \/ ComesOfAge(t)
      BY <3>2 DEF WriterReceive, WriterTick, ToolSave, ConsumerCloses, vars, history, ComesDue,
                  ComesOfAge
    <3>3. CASE RunsEdit
      BY <3>3, EditsOnlyRuns
    <3>4. CASE \E i \in DOMAIN runs : Watch(i)
      BY <3>4 DEF Watch, history
    <3> QED
      BY <1>3, <3>1, <3>2, <3>3, <3>4 DEF Next, Command, Fire, Writer, World, ActorStep, RunsEdit
  <2> QED
    BY <1>3, <2>1, ActorFrame
<1>4. CASE \/ SkipFire \/ Spawn \/ SpawnUnsent \/ NotSaved \/ SaveTimesOut \/ Swept
           \/ Published \/ NotPublished \/ CrashAndRestart
  BY <1>4 DEF SkipFire, Skip, Spawn, SpawnUnsent, NotSaved, SaveTimesOut, Swept, Published,
              NotPublished, CrashAndRestart
<1> QED
  BY <1>1, <1>2, <1>3, <1>4, ActorFrame DEF ActorStep, Continue

\* Every step keeps what the actor has read in line with the table.
LEMMA KeptPreserved ==
  /\ TypeOK /\ ActorShape /\ KeptTask /\ Acks /\ KnownTasks /\ DeletedGone
  /\ [Next]_vars
  => KeptTask'
<1> SUFFICES ASSUME TypeOK, ActorShape, KeptTask, Acks, KnownTasks, DeletedGone, [Next]_vars
             PROVE  KeptTask'
  OBVIOUS
<1>0. table \in [Tasks -> Task] /\ actor \in Actor
  BY DEF TypeOK
<1>1. ASSUME NEW t \in Tasks, Delete(t) PROVE KeptTask'
  BY <1>1 DEF Delete, SaveAndFlush, DeleteStep, Resting, KeptTask
<1>2. ASSUME NEW t \in Tasks, Expire(t) PROVE KeptTask'
  <2>1. t \in created /\ t \notin deleted
    BY <1>2 DEF Expire, MayFire, Wakes, Here, TasksOf, KnownTasks, DeletedGone, Gone
  <2>2. actor'.task = t /\ actor'.op # "fire" /\ UNCHANGED <<created, deleted>>
    BY <1>2 DEF Expire, SaveAndFlush, Resting, history
  <2> QED
    BY <2>1, <2>2 DEF KeptTask
<1>3. ASSUME NEW t \in Tasks, FireLoop(t) PROVE KeptTask'
  <2>1. actor'.task = t /\ actor'.op = "fire" /\ actor'.kept = table[t]
    BY <1>3 DEF FireLoop, Resting
  <2>2. table[t].here /\ t \notin OneShots
    BY <1>3, TasksAssumption DEF FireLoop, MayFire, Wakes, Here, TasksOf
  <2>3. table'[t] = [table[t] EXCEPT !.due = FALSE]
    BY <1>0, <1>3, <2>2 DEF FireLoop, Fired
  <2>4. table[t] \in Task
    BY <1>0
  <2>5. table'[t].here = table[t].here /\ table'[t].prompt = table[t].prompt
    BY <2>3, <2>4 DEF Task
  <2> QED
    BY <2>1, <2>2, <2>5 DEF KeptTask
<1>4. CASE RetryDelete
  BY <1>4 DEF RetryDelete, SaveAndFlush, DeleteStep, Resting, KeptTask, ActorShape, Idle
<1>5. CASE actor' = Resting
  BY <1>5 DEF Resting, KeptTask
<1>6. ASSUME actor'.op = actor.op, actor'.task = actor.task, actor'.kept = actor.kept,
             actor.at # "idle", UNCHANGED <<created, deleted>>,
             \/ UNCHANGED table
             \/ \E t \in Tasks : ComesDue(t) \/ ComesOfAge(t)
             \/ \E i \in DOMAIN runs : Watch(i)
      PROVE  KeptTask'
  <2>1. actor.task \in Tasks
    BY <1>6 DEF ActorShape
  <2>2. /\ table'[actor.task].here = table[actor.task].here
        /\ table'[actor.task].prompt = table[actor.task].prompt
    <3>1. ASSUME NEW t \in Tasks, ComesDue(t) \/ ComesOfAge(t)
          PROVE  /\ table'[actor.task].here = table[actor.task].here
                 /\ table'[actor.task].prompt = table[actor.task].prompt
      BY <1>0, <2>1, <3>1 DEF ComesDue, ComesOfAge, Task
    <3>2. ASSUME NEW i \in DOMAIN runs, Watch(i)
          PROVE  /\ table'[actor.task].here = table[actor.task].here
                 /\ table'[actor.task].prompt = table[actor.task].prompt
      BY <1>0, <2>1, <3>2 DEF Watch, Task
    <3> QED
      BY <1>6, <3>1, <3>2
  <2> QED
    BY <1>6, <2>1, <2>2 DEF KeptTask
<1>7. ASSUME actor'.op = actor.op, actor.at = "idle" PROVE KeptTask'
  BY <1>7 DEF ActorShape, Resting, KeptTask
<1> QED
  BY <1>1, <1>2, <1>3, <1>4, <1>5, <1>6, <1>7, ActorMoves

-----------------------------------------------------------------------------
(* Snapshots on their way                                                   *)

\* Appending to and taking from the queue.
LEMMA Sent ==
  ASSUME queue \in Seq(Snapshot), NEW s, queue' = Append(queue, s)
  PROVE  /\ DOMAIN queue' = DOMAIN queue \union {Len(queue) + 1}
         /\ Len(queue) + 1 \notin DOMAIN queue
         /\ \A i \in DOMAIN queue : queue'[i] = queue[i] /\ i < Len(queue) + 1
         /\ queue'[Len(queue) + 1] = s
OBVIOUS

\* What is left after taking the head.
LEMMA Taken ==
  ASSUME queue \in Seq(Snapshot), queue # <<>>, queue' = Tail(queue)
  PROVE  /\ 1 \in DOMAIN queue /\ Head(queue) = queue[1]
         /\ \A i \in DOMAIN queue' : i + 1 \in DOMAIN queue /\ i + 1 # 1 /\ queue'[i] = queue[i + 1]
OBVIOUS

\* An idle actor begins to wait for the snapshot it sends.
LEMMA AckOfSave ==
  ASSUME queue \in Seq(Snapshot), Acks, actor.at = "idle", NEW T,
         queue' = Append(queue, [tasks |-> T, flush |-> TRUE, ack |-> TRUE]),
         actor'.at = "save", actor'.answer = "none"
  PROVE  /\ Acks'
         /\ \A i \in DOMAIN queue' : queue'[i].ack => i = Len(queue) + 1
<1> DEFINE s == [tasks |-> T, flush |-> TRUE, ack |-> TRUE]
<1>1. \A i \in DOMAIN queue : ~queue[i].ack
  BY DEF Acks
<1>2. /\ DOMAIN queue' = DOMAIN queue \union {Len(queue) + 1}
      /\ \A i \in DOMAIN queue : queue'[i] = queue[i]
      /\ queue'[Len(queue) + 1] = s
  BY Sent
<1>3. \A i \in DOMAIN queue' : queue'[i].ack => i = Len(queue) + 1
  BY <1>1, <1>2
<1>4. s.flush
  OBVIOUS
<1> HIDE DEF s
<1> QED
  BY <1>2, <1>3, <1>4 DEF Acks

\* Every step leaves at most one awaited snapshot.
LEMMA AcksPreserved == TypeOK /\ ActorShape /\ Acks /\ [Next]_vars => Acks'
<1> SUFFICES ASSUME TypeOK, ActorShape, Acks, [Next]_vars PROVE Acks'
  OBVIOUS
<1>0. queue \in Seq(Snapshot) /\ actor \in Actor
  BY DEF TypeOK
<1>1. ASSUME NEW t \in Tasks, Delete(t) \/ Expire(t) PROVE Acks'
  <2>1. /\ queue' = Append(queue, [tasks |-> TasksOf(Without(t)), flush |-> TRUE, ack |-> TRUE])
        /\ actor.at = "idle" /\ actor'.at = "save" /\ actor'.answer = "none"
    BY <1>1 DEF Delete, Expire, MayFire, Idle, SaveAndFlush, DeleteStep, Resting
  <2> QED
    BY <1>0, <2>1, AckOfSave
<1>2. CASE RetryDelete
  <2>1. CASE targets
    <3>1. /\ queue' = Append(queue, [tasks |-> TasksOf(table), flush |-> TRUE, ack |-> TRUE])
          /\ actor.at = "idle" /\ actor'.at = "save" /\ actor'.answer = "none"
      BY <1>2, <2>1 DEF RetryDelete, Idle, SaveAndFlush, DeleteStep, Resting
    <3> QED
      BY <1>0, <3>1, AckOfSave
  <2>2. CASE ~targets
    BY <1>2, <2>2 DEF RetryDelete, Acks
  <2> QED
    BY <2>1, <2>2
<1>3. CASE ToolSave
  <2>1. queue' = Append(queue, [tasks |-> Here, flush |-> FALSE, ack |-> FALSE]) /\ actor' = actor
    BY <1>3 DEF ToolSave
  <2>2. /\ DOMAIN queue' = DOMAIN queue \union {Len(queue) + 1}
        /\ \A i \in DOMAIN queue : queue'[i] = queue[i]
        /\ ~queue'[Len(queue) + 1].ack
    BY <1>0, <2>1, Sent
  <2> QED
    BY <2>1, <2>2 DEF Acks
<1>4. CASE SaveTimesOut \/ Swept
  <2>1. queue' = Unheard(queue)
    BY <1>4 DEF SaveTimesOut, Swept
  <2>2. \A i \in DOMAIN queue' : ~queue'[i].ack
    <3>1. \A s \in Snapshot : ~[s EXCEPT !.ack = FALSE].ack
      BY DEF Snapshot
    <3>2. \A i \in DOMAIN queue : queue[i] \in Snapshot
      BY <1>0
    <3> QED
      BY <2>1, <3>1, <3>2 DEF Unheard
  <2> QED
    BY <2>2 DEF Acks
<1>5. CASE WriterReceive
  <2>1. \A i \in DOMAIN queue' : i + 1 \in DOMAIN queue /\ queue'[i] = queue[i + 1]
    BY <1>0, <1>5, Taken DEF WriterReceive
  <2>2. queue' \in Seq(Snapshot) /\ actor' = actor
    BY <1>0, <1>5 DEF WriterReceive
  <2>3. \A i, j \in DOMAIN queue' : i + 1 = j + 1 => i = j
    BY <2>2
  <2> QED
    BY <2>1, <2>2, <2>3 DEF Acks
<1>6. ASSUME NEW ok \in BOOLEAN, WriterFlush(ok) PROVE Acks'
  <2>1. /\ 1 \in DOMAIN queue /\ Head(queue) = queue[1]
        /\ \A i \in DOMAIN queue' : i + 1 \in DOMAIN queue /\ i + 1 # 1 /\ queue'[i] = queue[i + 1]
    BY <1>0, <1>6, Taken DEF WriterFlush
  <2>2. CASE Head(queue).ack
    <3>1. \A i \in DOMAIN queue' : ~queue'[i].ack
      BY <2>1, <2>2 DEF Acks
    <3> QED
      BY <3>1 DEF Acks
  <2>3. CASE ~Head(queue).ack
    <3>1. queue' \in Seq(Snapshot) /\ actor' = actor
      BY <1>0, <1>6, <2>3 DEF WriterFlush
    <3>2. \A i, j \in DOMAIN queue' : i + 1 = j + 1 => i = j
      BY <3>1
    <3> QED
      BY <2>1, <3>1, <3>2 DEF Acks
  <2> QED
    BY <2>2, <2>3
<1>7. CASE UNCHANGED queue /\ (UNCHANGED actor \/ actor.at # "save" \/ actor.answer # "none")
  BY <1>7 DEF Acks
<1>8. CASE CrashAndRestart
  BY <1>8 DEF CrashAndRestart, Acks
<1> QED
  BY <1>1, <1>2, <1>3, <1>4, <1>5, <1>6, <1>7, <1>8
  DEF Next, Command, Fire, Continue, Writer, World, vars, writer, Create,
      UpdatePrompt, UpdateInterval, BlockExpiry, FireForeground, FireLoop, MayFire, Idle,
      QueryPrevious, QueryUnit, SkipFire, Skip, Spawn, SpawnUnsent, Saved, NotSaved,
      Published, NotPublished, WriterTick, ComesDue, ComesOfAge,
      ConsumerCloses, RunEnds, DescendantsEnd, Wake, WakeDescendant, Watch

\* What no edit of an iteration changes, and that one which is over or quiet stays so.
Edited(r, e) ==
  /\ e.task = r.task /\ e.transcript = r.transcript
  /\ (OverRun(r) => OverRun(e)) /\ (QuietRun(r) => QuietRun(e))
  /\ e.watcher = "clears" => r.watcher = "clears" \/ OverRun(e)

\* Iterations end and are looked after; their task and transcript never change, and one
\* that is over stays so.
LEMMA RunsEdited ==
  ASSUME TypeOK, RunsStep, ~Spawn, ~CrashAndRestart
  PROVE  /\ DOMAIN runs' = DOMAIN runs
         /\ \A j \in DOMAIN runs : Edited(runs[j], runs'[j])
<1>0. runs \in Seq(Run) /\ \A i \in DOMAIN runs : runs[i] \in Run
  BY DEF TypeOK
<1>1. ASSUME NEW i \in DOMAIN runs, NEW e, Edited(runs[i], e), runs' = [runs EXCEPT ![i] = e]
      PROVE  /\ DOMAIN runs' = DOMAIN runs
             /\ \A j \in DOMAIN runs : Edited(runs[j], runs'[j])
  <2>1. \A j \in DOMAIN runs : runs'[j] = IF j = i THEN e ELSE runs[j]
    BY <1>0, <1>1
  <2>2. DOMAIN runs' = DOMAIN runs
    BY <1>0, <1>1
  <2>3. \A r : Edited(r, r)
    BY DEF Edited
  <2> QED
    BY <1>1, <2>1, <2>2, <2>3
<1>2. ASSUME NEW i \in DOMAIN runs, NEW status \in {"ok", "failed"}, NEW lingers \in BOOLEAN,
             RunEnds(i, status, lingers)
      PROVE  \E e : Edited(runs[i], e) /\ runs' = [runs EXCEPT ![i] = e]
  <2>1. /\ runs' = [runs EXCEPT ![i] = EndedRun(runs[i], status, lingers)]
        /\ runs[i].status = "live"
    BY <1>2 DEF RunEnds, EndedRun
  <2>2. ASSUME NEW r \in Run, r.status = "live" PROVE Edited(r, EndedRun(r, status, lingers))
    BY <2>2 DEF Edited, EndedRun, OverRun, QuietRun, Run
  <2> QED
    BY <1>0, <2>1, <2>2
<1>3. ASSUME NEW i \in DOMAIN runs, DescendantsEnd(i)
      PROVE  \E e : Edited(runs[i], e) /\ runs' = [runs EXCEPT ![i] = e]
  <2>1. runs' = [runs EXCEPT ![i] = LeftRun(runs[i])]
    BY <1>3 DEF DescendantsEnd, LeftRun
  <2>2. ASSUME NEW r \in Run PROVE Edited(r, LeftRun(r))
    BY DEF Edited, LeftRun, OverRun, QuietRun, Run
  <2> QED
    BY <1>0, <2>1, <2>2
<1>4. ASSUME NEW i \in DOMAIN runs, Wake(i) \/ WakeDescendant(i)
      PROVE  \E e : Edited(runs[i], e) /\ runs' = [runs EXCEPT ![i] = e]
  <2>1. \/ runs' = [runs EXCEPT ![i] = WokenRun(runs[i])]
        \/ runs' = [runs EXCEPT ![i] = JoinedRun(runs[i])]
    BY <1>4 DEF Wake, WakeDescendant, WokenRun, JoinedRun
  <2>2. ASSUME NEW r \in Run PROVE Edited(r, WokenRun(r)) /\ Edited(r, JoinedRun(r))
    BY DEF Edited, WokenRun, JoinedRun, OverRun, QuietRun, Run
  <2> QED
    BY <1>0, <2>1, <2>2
<1>5. ASSUME NEW i \in DOMAIN runs, Watch(i)
      PROVE  \E e : Edited(runs[i], e) /\ runs' = [runs EXCEPT ![i] = e]
  <2>1. runs' = [runs EXCEPT ![i] = [runs[i] EXCEPT !.watcher = "gone"]]
    BY <1>5 DEF Watch
  <2>2. ASSUME NEW r \in Run PROVE Edited(r, [r EXCEPT !.watcher = "gone"])
    BY DEF Edited, OverRun, QuietRun, Run
  <2> QED
    BY <1>0, <2>1, <2>2
<1>6. PICK i \in DOMAIN runs : \E e : Edited(runs[i], e) /\ runs' = [runs EXCEPT ![i] = e]
  BY <1>2, <1>3, <1>4, <1>5 DEF RunsStep
<1> QED
  BY <1>1, <1>6

\* No step brings in an id that was never used.
LEMMA KnownPreserved ==
  TypeOK /\ ActorShape /\ KeptTask /\ KnownTasks /\ Anchors /\ Chains /\ [Next]_vars => KnownTasks'
<1> SUFFICES ASSUME TypeOK, ActorShape, KeptTask, KnownTasks, Anchors, Chains, [Next]_vars
             PROVE  KnownTasks'
  OBVIOUS
<1>0. queue \in Seq(Snapshot) /\ table \in [Tasks -> Task] /\ runs \in Seq(Run)
  BY DEF TypeOK
<1>1. created \subseteq created'
  BY DEF Next, Command, Fire, Continue, Writer, World, vars, history, Create,
         UpdatePrompt, UpdateInterval, Delete, RetryDelete, BlockExpiry, Expire,
         FireForeground, FireLoop, QueryPrevious, QueryUnit, SkipFire, Skip, Spawn,
         SpawnUnsent, Saved, NotSaved, SaveTimesOut, Swept, Published, NotPublished,
         WriterReceive, WriterFlush, WriterTick, ToolSave, ComesDue, ComesOfAge,
         ConsumerCloses, RunEnds, DescendantsEnd, Wake, WakeDescendant, Watch, CrashAndRestart
<1>2. \A t \in Tasks : table'[t].here => t \in created'
  <2> SUFFICES ASSUME NEW t \in Tasks, table'[t].here PROVE t \in created'
    OBVIOUS
  <2>1. CASE table[t].here
    BY <1>1, <2>1 DEF KnownTasks
  <2>2. CASE ~table[t].here
    <3>1. CASE \E lasting \in BOOLEAN : Create(t, lasting)
      BY <3>1 DEF Create
    <3>2. CASE NotSaved /\ actor.op = "expiry" /\ t = actor.task
      BY <1>1, <3>2 DEF KeptTask
    <3>3. CASE CrashAndRestart /\ t \in disk
      BY <1>1, <3>3 DEF KnownTasks
    <3> QED
      BY <2>2, <3>1, <3>2, <3>3, HereGrows
  <2> QED
    BY <2>1, <2>2
<1>3. deleted' \subseteq created'
  <2>1. CASE Published
    <3>1. actor.op = "delete" => actor.task \in created
      BY <2>1, TasksAssumption DEF Published, ActorShape
    <3> QED
      BY <1>1, <2>1, <3>1 DEF Published, KnownTasks
  <2>2. CASE ~Published
    <3>1. UNCHANGED deleted
      BY <2>2 DEF Next, Command, Fire, Continue, Writer, World, vars, history, Create,
         UpdatePrompt, UpdateInterval, Delete, RetryDelete, BlockExpiry, Expire,
         FireForeground, FireLoop, QueryPrevious, QueryUnit, SkipFire, Skip, Spawn,
         SpawnUnsent, Saved, NotSaved, SaveTimesOut, Swept, NotPublished,
         WriterReceive, WriterFlush, WriterTick, ToolSave, ComesDue, ComesOfAge,
         ConsumerCloses, RunEnds, DescendantsEnd, Wake, WakeDescendant, Watch, CrashAndRestart
    <3> QED
      BY <1>1, <3>1 DEF KnownTasks
  <2> QED
    BY <2>1, <2>2
<1>4. /\ disk' \subseteq created' /\ debounced'.tasks \subseteq created'
      /\ \A i \in DOMAIN queue' : queue'[i].tasks \subseteq created'
  <2> DEFINE Fine == /\ disk' \subseteq created' /\ debounced'.tasks \subseteq created'
                     /\ \A i \in DOMAIN queue' : queue'[i].tasks \subseteq created'
  <2>0. ASSUME NEW T, NEW flush, NEW ack, T \subseteq created', UNCHANGED <<debounced, disk>>,
               queue' = Append(queue, [tasks |-> T, flush |-> flush, ack |-> ack])
        PROVE  Fine
    <3>1. /\ DOMAIN queue' = DOMAIN queue \union {Len(queue) + 1}
          /\ \A i \in DOMAIN queue : queue'[i] = queue[i]
          /\ queue'[Len(queue) + 1].tasks = T
      BY <1>0, <2>0, Sent
    <3> QED
      BY <1>1, <2>0, <3>1 DEF KnownTasks
  <2>1. ASSUME NEW t \in Tasks, Delete(t) \/ Expire(t) PROVE Fine
    <3>1. queue' = Append(queue, [tasks |-> TasksOf(Without(t)), flush |-> TRUE, ack |-> TRUE])
          /\ UNCHANGED <<debounced, disk>>
      BY <2>1 DEF Delete, Expire, SaveAndFlush
    <3>2. TasksOf(Without(t)) \subseteq created
      BY <1>0 DEF TasksOf, Without, Absent, KnownTasks
    <3> QED
      BY <1>1, <2>0, <3>1, <3>2
  <2>2. CASE RetryDelete
    <3>1. TasksOf(table) \subseteq created
      BY DEF TasksOf, KnownTasks
    <3>2. /\ UNCHANGED <<debounced, disk>>
          /\ \/ UNCHANGED queue
             \/ queue' = Append(queue, [tasks |-> TasksOf(table), flush |-> TRUE, ack |-> TRUE])
      BY <2>2 DEF RetryDelete, SaveAndFlush
    <3>3. CASE UNCHANGED queue
      BY <1>1, <3>2, <3>3 DEF KnownTasks
    <3> QED
      BY <1>1, <2>0, <3>1, <3>2, <3>3
  <2>3. CASE ToolSave
    <3>1. Here \subseteq created
      BY DEF Here, TasksOf, KnownTasks
    <3> QED
      BY <1>1, <2>0, <2>3, <3>1 DEF ToolSave
  <2>4. CASE SaveTimesOut \/ Swept
    <3>1. queue' = Unheard(queue) /\ UNCHANGED <<debounced, disk>>
      BY <2>4 DEF SaveTimesOut, Swept
    <3>2. \A i \in DOMAIN queue : queue[i] \in Snapshot
      BY <1>0
    <3>3. \A s \in Snapshot : [s EXCEPT !.ack = FALSE].tasks = s.tasks
      BY DEF Snapshot
    <3>4. \A i \in DOMAIN queue' : i \in DOMAIN queue /\ queue'[i].tasks = queue[i].tasks
      BY <3>1, <3>2, <3>3 DEF Unheard
    <3> QED
      BY <1>1, <3>1, <3>4 DEF KnownTasks
  <2>5. CASE WriterReceive
    <3>1. /\ 1 \in DOMAIN queue /\ Head(queue) = queue[1]
          /\ \A i \in DOMAIN queue' : i + 1 \in DOMAIN queue /\ queue'[i] = queue[i + 1]
      BY <1>0, <2>5, Taken DEF WriterReceive
    <3> QED
      BY <1>1, <2>5, <3>1 DEF WriterReceive, KnownTasks
  <2>6. ASSUME NEW ok \in BOOLEAN, WriterFlush(ok) PROVE Fine
    <3>1. /\ 1 \in DOMAIN queue /\ Head(queue) = queue[1]
          /\ \A i \in DOMAIN queue' : i + 1 \in DOMAIN queue /\ queue'[i] = queue[i + 1]
      BY <1>0, <2>6, Taken DEF WriterFlush
    <3>2. NothingHeld.tasks = {}
      BY DEF NothingHeld
    <3> QED
      BY <1>1, <2>6, <3>1, <3>2 DEF WriterFlush, HeldAfterFlush, KnownTasks
  <2>7. CASE WriterTick
    BY <1>1, <2>7 DEF WriterTick, NothingHeld, KnownTasks
  <2>8. CASE CrashAndRestart
    BY <1>1, <2>8 DEF CrashAndRestart, NothingHeld, KnownTasks
  <2>9. CASE UNCHANGED writer
    BY <1>1, <2>9 DEF writer, KnownTasks
  <2> QED
    BY <2>1, <2>2, <2>3, <2>4, <2>5, <2>6, <2>7, <2>8, <2>9, WriterFrame DEF WriterStep, Writer
<1>5. \A i \in DOMAIN runs' : runs'[i].task \in created'
  <2>1. CASE Spawn
    <3>1. actor.task \in created
      BY <2>1 DEF Spawn, ActorShape, KeptTask, KnownTasks
    <3>2. runs' = Append(runs, NewRun)
      BY <2>1, SpawnsOnePrompt
    <3>3. \A i \in DOMAIN runs' : (i \in DOMAIN runs /\ runs'[i] = runs[i]) \/ runs'[i] = NewRun
      BY <1>0, <3>2
    <3> QED
      BY <1>1, <3>1, <3>3 DEF NewRun, KnownTasks
  <2>2. CASE CrashAndRestart
    BY <2>2 DEF CrashAndRestart
  <2>3. CASE RunsStep /\ ~Spawn /\ ~CrashAndRestart
    BY <1>1, <2>3, RunsEdited DEF KnownTasks, Edited
  <2>4. CASE UNCHANGED runs
    BY <1>1, <2>4 DEF KnownTasks
  <2> QED
    BY <2>1, <2>2, <2>3, <2>4, RunsFrame
<1> QED
  BY <1>2, <1>3, <1>4, <1>5 DEF KnownTasks

\* What is gone stays so: no snapshot on its way holds the task and no step takes it
\* back into the table.
LEMMA GoneStays ==
  ASSUME TypeOK, ActorShape, KnownTasks, [Next]_vars, NEW t \in created, Gone(t),
         actor.op = "expiry" => actor.task # t
  PROVE  Gone(t)'
<1>0. queue \in Seq(Snapshot) /\ table \in [Tasks -> Task] /\ t \in Tasks
  BY DEF TypeOK
<1>1. ~table'[t].here
  <2> SUFFICES ASSUME table'[t].here PROVE FALSE
    OBVIOUS
  <2>1. ~(\E lasting \in BOOLEAN : Create(t, lasting))
    BY DEF Create
  <2> QED
    BY <1>0, <2>1, HereGrows DEF Gone
<1> DEFINE Fine == /\ t \notin disk' /\ t \notin debounced'.tasks
                   /\ \A i \in DOMAIN queue' : t \notin queue'[i].tasks
<1> SUFFICES Fine
  BY <1>1 DEF Gone
<1>2. ASSUME NEW T, NEW flush, NEW ack, t \notin T, UNCHANGED <<debounced, disk>>,
             queue' = Append(queue, [tasks |-> T, flush |-> flush, ack |-> ack])
      PROVE  Fine
  <2>1. /\ DOMAIN queue' = DOMAIN queue \union {Len(queue) + 1}
        /\ \A i \in DOMAIN queue : queue'[i] = queue[i]
        /\ queue'[Len(queue) + 1].tasks = T
    BY <1>0, <1>2, Sent
  <2> QED
    BY <1>2, <2>1 DEF Gone
<1>3. ASSUME NEW s \in Tasks, Delete(s) \/ Expire(s) PROVE Fine
  <2>1. queue' = Append(queue, [tasks |-> TasksOf(Without(s)), flush |-> TRUE, ack |-> TRUE])
        /\ UNCHANGED <<debounced, disk>>
    BY <1>3 DEF Delete, Expire, SaveAndFlush
  <2>2. t \notin TasksOf(Without(s))
    BY <1>0 DEF TasksOf, Without, Absent, Gone
  <2> QED
    BY <1>2, <2>1, <2>2
<1>4. CASE RetryDelete
  <2>1. t \notin TasksOf(table)
    BY DEF TasksOf, Gone
  <2>2. /\ UNCHANGED <<debounced, disk>>
        /\ \/ UNCHANGED queue
           \/ queue' = Append(queue, [tasks |-> TasksOf(table), flush |-> TRUE, ack |-> TRUE])
    BY <1>4 DEF RetryDelete, SaveAndFlush
  <2>3. CASE UNCHANGED queue
    BY <2>2, <2>3 DEF Gone
  <2> QED
    BY <1>2, <2>1, <2>2, <2>3
<1>5. CASE ToolSave
  <2>1. t \notin Here
    BY DEF Here, TasksOf, Gone
  <2> QED
    BY <1>2, <1>5, <2>1 DEF ToolSave
<1>6. CASE SaveTimesOut \/ Swept
  <2>1. queue' = Unheard(queue) /\ UNCHANGED <<debounced, disk>>
    BY <1>6 DEF SaveTimesOut, Swept
  <2>2. \A i \in DOMAIN queue : queue[i] \in Snapshot
    BY <1>0
  <2>3. \A s \in Snapshot : [s EXCEPT !.ack = FALSE].tasks = s.tasks
    BY DEF Snapshot
  <2>4. \A i \in DOMAIN queue' : i \in DOMAIN queue /\ queue'[i].tasks = queue[i].tasks
    BY <2>1, <2>2, <2>3 DEF Unheard
  <2> QED
    BY <2>1, <2>4 DEF Gone
<1>7. CASE WriterReceive
  <2>1. /\ 1 \in DOMAIN queue /\ Head(queue) = queue[1]
        /\ \A i \in DOMAIN queue' : i + 1 \in DOMAIN queue /\ queue'[i] = queue[i + 1]
    BY <1>0, <1>7, Taken DEF WriterReceive
  <2> QED
    BY <1>7, <2>1 DEF WriterReceive, Gone
<1>8. ASSUME NEW ok \in BOOLEAN, WriterFlush(ok) PROVE Fine
  <2>1. /\ 1 \in DOMAIN queue /\ Head(queue) = queue[1]
        /\ \A i \in DOMAIN queue' : i + 1 \in DOMAIN queue /\ queue'[i] = queue[i + 1]
    BY <1>0, <1>8, Taken DEF WriterFlush
  <2>2. NothingHeld.tasks = {}
    BY DEF NothingHeld
  <2> QED
    BY <1>8, <2>1, <2>2 DEF WriterFlush, HeldAfterFlush, Gone
<1>9. CASE WriterTick \/ CrashAndRestart \/ UNCHANGED writer
  BY <1>9 DEF WriterTick, CrashAndRestart, writer, NothingHeld, Gone
<1> QED
  BY <1>3, <1>4, <1>5, <1>6, <1>7, <1>8, <1>9, WriterFrame DEF WriterStep, Writer

\* The acknowledged flush is what makes a deleted task go: everything sent before it is
\* overwritten, and everything sent after it was taken from a table without the task.
LEMMA FlushedGone ==
  ASSUME TypeOK, ActorShape, Acks, DeletedGone, WriterFlush(TRUE), Head(queue).ack,
         actor.op = "delete", UNCHANGED table
  PROVE  Gone(actor.task)'
<1>1. actor' = [actor EXCEPT !.answer = "ok"]
  BY DEF WriterFlush
<1>2. /\ 1 \in DOMAIN queue /\ Head(queue) = queue[1] /\ queue \in Seq(Snapshot)
      /\ \A i \in DOMAIN queue' : i + 1 \in DOMAIN queue /\ queue'[i] = queue[i + 1]
  BY Taken DEF TypeOK, WriterFlush
<1>3. \A j \in DOMAIN queue : 1 <= j
  BY <1>2
<1>4. \A j \in DOMAIN queue : actor.task \notin queue[j].tasks
  BY <1>2, <1>3 DEF DeletedGone
<1>5. actor.task \notin disk' /\ actor.task \notin debounced'.tasks
  BY <1>2, <1>4 DEF WriterFlush, HeldAfterFlush, NothingHeld
<1>6. ~table'[actor.task].here
  <2>1. actor.at = "save"
    BY <1>2 DEF Acks
  <2>2. pending = actor.task /\ actor.task \in Tasks
    BY <2>1 DEF ActorShape
  <2> QED
    BY <2>2, TasksAssumption DEF ActorShape
<1>7. actor'.task = actor.task
  BY <1>1 DEF TypeOK, Actor
<1> QED
  BY <1>2, <1>4, <1>5, <1>6, <1>7 DEF Gone

\* Every step keeps deleted tasks out of the table, the file and the queue.
LEMMA DeletedPreserved ==
  /\ TypeOK /\ ActorShape /\ KeptTask /\ Acks /\ KnownTasks /\ DeletedGone
  /\ [Next]_vars
  => DeletedGone'
<1> SUFFICES ASSUME TypeOK, ActorShape, KeptTask, Acks, KnownTasks, DeletedGone, [Next]_vars
             PROVE  DeletedGone'
  OBVIOUS
<1>0. /\ queue \in Seq(Snapshot) /\ table \in [Tasks -> Task] /\ actor \in Actor
      /\ None \notin Tasks
  BY TasksAssumption DEF TypeOK
<1>1. \A t \in deleted' : Gone(t)'
  <2> SUFFICES ASSUME NEW t \in deleted' PROVE Gone(t)'
    OBVIOUS
  <2>1. CASE t \in deleted
    BY <2>1, GoneStays DEF DeletedGone, KnownTasks, KeptTask
  <2>2. CASE t \notin deleted
    <3>1. Published /\ actor.op = "delete" /\ t = actor.task
      BY <2>2 DEF Next, Command, Fire, Continue, Writer, World, vars, history, Create,
         UpdatePrompt, UpdateInterval, Delete, RetryDelete, BlockExpiry, Expire,
         FireForeground, FireLoop, QueryPrevious, QueryUnit, SkipFire, Skip, Spawn,
         SpawnUnsent, Saved, NotSaved, SaveTimesOut, Swept, Published, NotPublished,
         WriterReceive, WriterFlush, WriterTick, ToolSave, ComesDue, ComesOfAge,
         ConsumerCloses, RunEnds, DescendantsEnd, Wake, WakeDescendant, Watch, CrashAndRestart
    <3>2. Gone(t) /\ t \in created
      BY <1>0, <3>1 DEF Published, DeletedGone, ActorShape
    <3> QED
      BY <3>1, <3>2, GoneStays
  <2> QED
    BY <2>1, <2>2
<1>2. ASSUME actor'.op = "delete", actor'.at = "publish" \/ actor'.answer = "ok"
      PROVE  Gone(actor.task)'
  <2>1. ASSUME actor.op = "delete", actor.at = "publish" \/ actor.answer = "ok",
               actor'.task = actor.task
        PROVE  Gone(actor.task)'
    <3>1. Gone(actor.task)
      BY <2>1 DEF DeletedGone
    <3>2. actor.task \in created
      BY <1>0, <2>1 DEF ActorShape, Resting
    <3>3. PICK t \in created : t = actor.task
      BY <3>2
    <3>4. Gone(t)'
      BY <2>1, <3>1, <3>3, GoneStays
    <3> QED
      BY <2>1, <3>3, <3>4 DEF Gone
  <2>2. ASSUME NEW t \in Tasks, Delete(t) \/ Expire(t) \/ FireLoop(t) PROVE FALSE
    BY <1>2, <2>2 DEF Delete, Expire, FireLoop, SaveAndFlush, DeleteStep, Resting
  <2>3. CASE RetryDelete
    <3>1. targets => actor' = DeleteStep(pending)
      BY <2>3 DEF RetryDelete, SaveAndFlush
    <3>2. ~targets => actor' = Resting
      BY <2>3 DEF RetryDelete, ActorShape, Idle
    <3>3. DeleteStep(pending).answer = "none" /\ DeleteStep(pending).at = "save"
      BY DEF DeleteStep, Resting
    <3>4. actor' = DeleteStep(pending) \/ actor' = Resting
      BY <3>1, <3>2
    <3>5. actor' # Resting
      BY <1>2 DEF Resting
    <3> QED
      BY <1>2, <3>3, <3>4, <3>5
  <2>4. CASE QueryPrevious \/ QueryUnit
    BY <1>0, <1>2, <2>4 DEF QueryPrevious, QueryUnit, ActorShape, Actor
  <2>5. CASE Saved
    <3>1. actor'.op = actor.op /\ actor'.task = actor.task
      BY <1>0, <2>5 DEF Saved, Actor
    <3> QED
      BY <1>2, <2>1, <2>5, <3>1 DEF Saved
  <2>6. ASSUME NEW ok \in BOOLEAN, WriterFlush(ok) PROVE Gone(actor.task)'
    <3>1. CASE Head(queue).ack
      <4>1. Head(queue) = queue[1] /\ 1 \in DOMAIN queue
        BY <1>0, <2>6 DEF WriterFlush
      <4>2. actor.at = "save"
        BY <3>1, <4>1 DEF Acks
      <4>3. actor' = [actor EXCEPT !.answer = IF ok THEN "ok" ELSE "error"]
        BY <2>6, <3>1 DEF WriterFlush
      <4>4. actor'.op = actor.op /\ actor'.at = "save" /\ (~ok => actor'.answer = "error")
        BY <1>0, <4>2, <4>3 DEF Actor
      <4>5. ok = TRUE /\ actor.op = "delete"
        BY <1>2, <4>4
      <4>6. WriterFlush(TRUE) /\ UNCHANGED table
        BY <2>6, <4>5 DEF WriterFlush
      <4> QED
        BY <3>1, <4>5, <4>6, FlushedGone
    <3>2. CASE ~Head(queue).ack
      BY <1>2, <2>1, <2>6, <3>2 DEF WriterFlush
    <3> QED
      BY <3>1, <3>2
  <2>7. CASE UNCHANGED actor
    BY <1>2, <2>1, <2>7
  <2>8. CASE actor' = Resting
    BY <1>2, <2>8 DEF Resting
  <2>9. Continue => QueryPrevious \/ QueryUnit \/ Saved \/ actor' = Resting
    BY DEF Continue, SkipFire, Skip, Spawn, SpawnUnsent, NotSaved, SaveTimesOut, Swept,
           Published, NotPublished
  <2>10. CrashAndRestart => actor' = Resting
    BY DEF CrashAndRestart
  <2> QED
    BY <2>2, <2>3, <2>4, <2>5, <2>6, <2>7, <2>8, <2>9, <2>10, ActorFrame DEF ActorStep
<1>3. ASSUME actor'.op = "delete", NEW i \in DOMAIN queue', NEW j \in DOMAIN queue',
             queue'[i].ack, i <= j
      PROVE  actor'.task \notin queue'[j].tasks
  <2>1. ASSUME NEW t \in Tasks, Delete(t) PROVE actor'.task \notin queue'[j].tasks
    <3>1. /\ queue' = Append(queue, [tasks |-> TasksOf(Without(t)), flush |-> TRUE, ack |-> TRUE])
          /\ actor.at = "idle" /\ actor'.at = "save" /\ actor'.answer = "none" /\ actor'.task = t
      BY <2>1 DEF Delete, Idle, SaveAndFlush, DeleteStep, Resting
    <3>2. i = Len(queue) + 1
      BY <1>0, <1>3, <3>1, AckOfSave
    <3>3. j = Len(queue) + 1
      BY <1>0, <1>3, <3>1, <3>2
    <3>4. t \notin TasksOf(Without(t))
      BY <1>0 DEF TasksOf, Without, Absent
    <3> QED
      BY <1>0, <3>1, <3>3, <3>4, Sent
  <2>2. CASE RetryDelete
    <3>1. CASE targets
      <4>1. /\ queue' = Append(queue, [tasks |-> TasksOf(table), flush |-> TRUE, ack |-> TRUE])
            /\ actor.at = "idle" /\ actor'.at = "save" /\ actor'.answer = "none"
            /\ actor'.task = pending /\ pending # None
        BY <2>2, <3>1 DEF RetryDelete, Idle, SaveAndFlush, DeleteStep, Resting
      <4>2. i = Len(queue) + 1
        BY <1>0, <1>3, <4>1, AckOfSave
      <4>3. j = Len(queue) + 1
        BY <1>0, <1>3, <4>1, <4>2
      <4>4. pending \notin TasksOf(table)
        BY <4>1 DEF TasksOf, ActorShape
      <4> QED
        BY <1>0, <4>1, <4>3, <4>4, Sent
    <3>2. CASE ~targets
      BY <1>3, <2>2, <3>2 DEF RetryDelete, ActorShape, Idle, Resting
    <3> QED
      BY <3>1, <3>2
  <2>3. CASE ToolSave
    <3>1. queue' = Append(queue, [tasks |-> Here, flush |-> FALSE, ack |-> FALSE]) /\ actor' = actor
      BY <2>3 DEF ToolSave
    <3>2. /\ DOMAIN queue' = DOMAIN queue \union {Len(queue) + 1}
          /\ \A k \in DOMAIN queue : queue'[k] = queue[k]
          /\ ~queue'[Len(queue) + 1].ack /\ queue'[Len(queue) + 1].tasks = Here
      BY <1>0, <3>1, Sent
    <3>3. i \in DOMAIN queue
      BY <1>3, <3>2
    <3>4. actor.task \notin Here
      <4>1. actor.at # "idle"
        BY <1>3, <3>1 DEF ActorShape, Resting
      <4> QED
        BY <1>0, <1>3, <3>1, <4>1 DEF Here, TasksOf, ActorShape
    <3> QED
      BY <1>3, <3>1, <3>2, <3>3, <3>4 DEF DeletedGone
  <2>4. CASE WriterReceive \/ \E ok \in BOOLEAN : WriterFlush(ok)
    <3>1. queue # <<>> /\ queue' = Tail(queue)
      BY <2>4 DEF WriterReceive, WriterFlush
    <3>2. /\ i + 1 \in DOMAIN queue /\ queue'[i] = queue[i + 1]
          /\ j + 1 \in DOMAIN queue /\ queue'[j] = queue[j + 1] /\ i + 1 <= j + 1
      BY <1>0, <1>3, <3>1, Taken
    <3>3. actor'.op = actor.op /\ actor'.task = actor.task
      BY <1>0, <2>4 DEF WriterReceive, WriterFlush, Actor
    <3> QED
      BY <1>3, <3>2, <3>3 DEF DeletedGone
  <2>5. CASE UNCHANGED <<queue, actor>>
    BY <1>3, <2>5 DEF DeletedGone
  <2>6. CASE ~(actor.at = "save" /\ actor.answer = "none") /\ UNCHANGED queue
    BY <1>3, <2>6 DEF Acks
  <2>7. CASE actor' = Resting
    BY <1>3, <2>7 DEF Resting
  <2>8. ASSUME NEW t \in Tasks, Expire(t) PROVE FALSE
    BY <1>3, <2>8 DEF Expire, SaveAndFlush, Resting
  <2>9. (QueryPrevious \/ QueryUnit \/ Saved \/ \E t \in Tasks : FireLoop(t))
          => ~(actor.at = "save" /\ actor.answer = "none") /\ UNCHANGED queue
    BY DEF QueryPrevious, QueryUnit, Saved, FireLoop, MayFire, Idle, writer
  <2>10. Continue => QueryPrevious \/ QueryUnit \/ Saved \/ actor' = Resting
    BY DEF Continue, SkipFire, Skip, Spawn, SpawnUnsent, NotSaved, SaveTimesOut, Swept,
           Published, NotPublished
  <2>11. CASE ~ActorStep
    <3>1. UNCHANGED actor
      BY <2>11, ActorFrame
    <3>2. UNCHANGED writer \/ ToolSave \/ WriterReceive \/ WriterTick
      <4>1. ~(\E t \in Tasks : Delete(t) \/ Expire(t)) /\ ~RetryDelete /\ ~SaveTimesOut
            /\ ~Swept /\ ~CrashAndRestart /\ ~(\E ok \in BOOLEAN : WriterFlush(ok))
        BY <2>11 DEF ActorStep, Continue
      <4> QED
        BY <4>1, WriterFrame DEF WriterStep, Writer
    <3>3. WriterTick => UNCHANGED queue
      BY DEF WriterTick
    <3> QED
      BY <2>3, <2>4, <2>5, <3>1, <3>2, <3>3 DEF writer
  <2>12. CrashAndRestart => actor' = Resting
    BY DEF CrashAndRestart
  <2> QED
    BY <2>1, <2>2, <2>4, <2>6, <2>7, <2>8, <2>9, <2>10, <2>11, <2>12 DEF ActorStep
<1> QED
  BY <1>1, <1>2, <1>3 DEF DeletedGone

-----------------------------------------------------------------------------
(* Iterations                                                               *)

\* A process adds iterations one by one, each by a spawn, and never forgets one.
LEMMA RunsGrow ==
  ASSUME TypeOK, Anchors, Chains, [Next]_vars, ~CrashAndRestart
  PROVE  /\ DOMAIN runs \subseteq DOMAIN runs'
         /\ \A j \in DOMAIN runs : /\ Edited(runs[j], runs'[j])
                                   /\ runs'[j].task = runs[j].task
                                   /\ runs'[j].transcript = runs[j].transcript
                                   /\ Over(j) => Over(j)'
         /\ \A j \in DOMAIN runs' \ DOMAIN runs :
              Spawn /\ j = Len(runs) + 1 /\ runs'[j] = NewRun
<1>0. runs \in Seq(Run)
  BY DEF TypeOK
<1> SUFFICES /\ DOMAIN runs \subseteq DOMAIN runs'
             /\ \A j \in DOMAIN runs : Edited(runs[j], runs'[j])
             /\ \A j \in DOMAIN runs' \ DOMAIN runs :
                  Spawn /\ j = Len(runs) + 1 /\ runs'[j] = NewRun
  BY DEF Edited, Over
<1>1. CASE Spawn
  <2>1. runs' = Append(runs, NewRun)
    BY <1>1, SpawnsOnePrompt
  <2>2. /\ DOMAIN runs' = DOMAIN runs \union {Len(runs) + 1}
        /\ \A j \in DOMAIN runs : runs'[j] = runs[j]
        /\ runs'[Len(runs) + 1] = NewRun
    BY <1>0, <2>1
  <2> QED
    BY <1>1, <2>2 DEF Edited
<1>2. CASE RunsStep /\ ~Spawn
  BY <1>2, RunsEdited
<1>3. CASE UNCHANGED runs
  BY <1>3 DEF Edited
<1> QED
  BY <1>1, <1>2, <1>3, RunsFrame

\* Neither 0 nor Forgotten is an iteration.
LEMMA NoRunIds == ASSUME TypeOK PROVE 0 \notin DOMAIN runs /\ Forgotten \notin DOMAIN runs
BY DEF TypeOK, Forgotten

\* What a step makes of a task that is in the table after it.
Kept(x) ==
  /\ table'[x].anchor = table[x].anchor /\ table'[x].here = table[x].here
  /\ \/ table'[x].prompt = table[x].prompt /\ table'[x].reset = table[x].reset
     \/ table'[x].reset

TakesKept(x) ==
  /\ x = actor.task
  /\ \/ /\ SpawnUnsent
        /\ table'[x].anchor = actor.kept.anchor /\ table'[x].reset = actor.kept.reset
        /\ table'[x].prompt = table[x].prompt
     \/ NotSaved /\ actor.op = "expiry" /\ table'[x] = actor.kept

\* A step keeps a task, removes it, creates it, has its anchor cleared by a watcher,
\* anchors it to a new iteration or puts back what the actor had read.
LEMMA TableMoves ==
  ASSUME TypeOK, ActorShape, [Next]_vars, ~CrashAndRestart, NEW x \in Tasks
  PROVE  \/ Kept(x)
         \/ table'[x] = Absent
         \/ \E lasting \in BOOLEAN : Create(x, lasting) /\ table'[x].anchor = 0
         \/ /\ \E i \in DOMAIN runs : Watch(i) /\ table[x].anchor = i
            /\ table'[x].anchor = 0 /\ table'[x].here = table[x].here
         \/ /\ Spawn /\ x = actor.task
            /\ table'[x].anchor = Len(runs) + 1 /\ table'[x].prompt = table[x].prompt
         \/ TakesKept(x)
<1>0. table \in [Tasks -> Task] /\ table[x] \in Task
  BY DEF TypeOK
<1>1. ASSUME NEW t \in Tasks, NEW lasting \in BOOLEAN, Create(t, lasting)
      PROVE  Kept(x) \/ (\E l \in BOOLEAN : Create(x, l) /\ table'[x].anchor = 0)
  <2>1. CASE t = x
    BY <1>0, <1>1, <2>1 DEF Create, Absent
  <2>2. CASE t # x
    BY <1>0, <1>1, <2>2 DEF Create, Kept
  <2> QED
    BY <2>1, <2>2
<1>2. ASSUME NEW t \in Tasks, UpdatePrompt(t) PROVE Kept(x)
  <2>1. CASE t = x
    BY <1>0, <1>2, <2>1 DEF UpdatePrompt, PatchedTask, Kept, Task
  <2>2. CASE t # x
    BY <1>0, <1>2, <2>2 DEF UpdatePrompt, Kept
  <2> QED
    BY <2>1, <2>2
<1>3. ASSUME NEW t \in Tasks, UpdateInterval(t) \/ ComesDue(t) \/ ComesOfAge(t) PROVE Kept(x)
  <2>1. CASE t = x
    BY <1>0, <1>3, <2>1 DEF UpdateInterval, ComesDue, ComesOfAge, Kept, Task
  <2>2. CASE t # x
    BY <1>0, <1>3, <2>2 DEF UpdateInterval, ComesDue, ComesOfAge, Kept
  <2> QED
    BY <2>1, <2>2
<1>4. ASSUME NEW t \in Tasks, table' = Without(t) PROVE Kept(x) \/ table'[x] = Absent
  BY <1>0, <1>4 DEF Without, Kept
<1>5. ASSUME NEW t \in Tasks, table' = [table EXCEPT ![t].due = FALSE] PROVE Kept(x)
  <2>1. CASE t = x
    BY <1>0, <1>5, <2>1 DEF Kept, Task
  <2>2. CASE t # x
    BY <1>0, <1>5, <2>2 DEF Kept
  <2> QED
    BY <2>1, <2>2
<1>6. ASSUME NEW t \in Tasks, Delete(t) \/ Expire(t) PROVE Kept(x) \/ table'[x] = Absent
  BY <1>4, <1>6 DEF Delete, Expire
<1>7. ASSUME NEW t \in Tasks, FireForeground(t) \/ FireLoop(t)
      PROVE  Kept(x) \/ table'[x] = Absent
  BY <1>4, <1>5, <1>7 DEF FireForeground, FireLoop, Fired
<1>8. ASSUME NEW i \in DOMAIN runs, Watch(i)
      PROVE  \/ Kept(x)
             \/ table[x].anchor = i /\ table'[x].anchor = 0 /\ table'[x].here = table[x].here
  <2>1. table'[x] = IF table[x].anchor = i THEN [table[x] EXCEPT !.anchor = 0] ELSE table[x]
    BY <1>8 DEF Watch
  <2> QED
    BY <1>0, <2>1 DEF Kept, Task
<1>9. CASE Spawn
  <2>1. CASE x = actor.task
    BY <1>0, <1>9, <2>1 DEF Spawn, Assigned, Task
  <2>2. CASE x # actor.task
    BY <1>0, <1>9, <2>2 DEF Spawn, Kept
  <2> QED
    BY <1>9, <2>1, <2>2
<1>10. CASE SpawnUnsent
  <2>1. CASE x = actor.task
    BY <1>0, <1>10, <2>1 DEF SpawnUnsent, Restored, Assigned, TakesKept, Task
  <2>2. CASE x # actor.task
    BY <1>0, <1>10, <2>2 DEF SpawnUnsent, Kept
  <2> QED
    BY <2>1, <2>2
<1>11. CASE NotSaved
  BY <1>0, <1>11 DEF NotSaved, Kept, TakesKept
<1>12. CASE UNCHANGED table
  BY <1>12 DEF Kept
<1> QED
  BY <1>1, <1>2, <1>3, <1>6, <1>7, <1>8, <1>9, <1>10, <1>11, <1>12, TableFrame DEF TableStep

\* The stages of a fire follow one another.
LEMMA FireStages ==
  ASSUME TypeOK, ActorShape, Acks, [Next]_vars, actor'.at \in {"query", "unit", "spawn"}
  PROVE  (\E t \in Tasks : FireLoop(t)) \/ QueryPrevious \/ QueryUnit \/ UNCHANGED actor
<1>0. queue \in Seq(Snapshot) /\ actor \in Actor
  BY DEF TypeOK
<1>1. ASSUME NEW t \in Tasks, Delete(t) \/ Expire(t) PROVE FALSE
  <2>1. CASE Delete(t)
    BY <2>1 DEF Delete, SaveAndFlush, DeleteStep, Resting
  <2>2. CASE Expire(t)
    <3>1. actor'.at = "save"
      BY <2>2 DEF Expire, SaveAndFlush, Resting
    <3> QED
      BY <3>1
  <2> QED
    BY <1>1, <2>1, <2>2
<1>2. CASE RetryDelete
  BY <1>2 DEF RetryDelete, SaveAndFlush, DeleteStep, Resting
<1>3. CASE Saved
  BY <1>0, <1>3 DEF Saved, Actor
<1>4. actor' # Resting
  BY DEF Resting
<1>5. Continue => QueryPrevious \/ QueryUnit \/ Saved
  BY <1>4 DEF Continue, SkipFire, Skip, Spawn, SpawnUnsent, NotSaved, SaveTimesOut, Swept,
              Published, NotPublished
<1>6. ~CrashAndRestart
  BY <1>4 DEF CrashAndRestart
<1>7. ASSUME NEW ok \in BOOLEAN, WriterFlush(ok) PROVE UNCHANGED actor
  <2>1. Head(queue) = queue[1] /\ 1 \in DOMAIN queue
    BY <1>0, <1>7 DEF WriterFlush
  <2>2. CASE Head(queue).ack
    <3>1. actor.at = "save"
      BY <2>1, <2>2 DEF Acks
    <3>2. actor'.at = "save"
      BY <1>0, <1>7, <2>2, <3>1 DEF WriterFlush, Actor
    <3> QED
      BY <3>2
  <2> QED
    BY <1>7, <2>2 DEF WriterFlush
<1> QED
  BY <1>1, <1>2, <1>3, <1>5, <1>6, <1>7, ActorFrame DEF ActorStep

\* The task that the actor has read is one of the table, or the one it had read before.
LEMMA KeptMoves ==
  ASSUME TypeOK, ActorShape, Acks, [Next]_vars
  PROVE  \/ actor'.kept = Absent
         \/ actor'.kept = actor.kept /\ actor'.op = actor.op /\ actor'.task = actor.task
         \/ \E t \in Tasks : /\ Expire(t) \/ FireLoop(t)
                             /\ actor'.kept = table[t] /\ actor'.task = t /\ UNCHANGED runs
<1>1. ASSUME NEW t \in Tasks, Delete(t) PROVE actor'.kept = Absent
  BY <1>1 DEF Delete, SaveAndFlush, DeleteStep, Resting
<1>2. ASSUME NEW t \in Tasks, Expire(t) \/ FireLoop(t)
      PROVE  actor'.kept = table[t] /\ actor'.task = t /\ UNCHANGED runs
  <2>1. CASE Expire(t)
    BY <2>1 DEF Expire, SaveAndFlush, Resting
  <2>2. CASE FireLoop(t)
    BY <2>2 DEF FireLoop, Resting
  <2> QED
    BY <1>2, <2>1, <2>2
<1>3. CASE RetryDelete
  <2>1. actor' = DeleteStep(pending) \/ actor' = actor
    BY <1>3 DEF RetryDelete, SaveAndFlush
  <2> QED
    BY <2>1 DEF DeleteStep, Resting
<1>4. CASE actor' = Resting
  BY <1>4 DEF Resting
<1> QED
  BY <1>1, <1>2, <1>3, <1>4, ActorMoves

\* Every step keeps anchors naming iterations.
LEMMA AnchorsPreserved ==
  TypeOK /\ ActorShape /\ Acks /\ Anchors /\ Chains /\ [Next]_vars => Anchors'
<1> SUFFICES ASSUME TypeOK, ActorShape, Acks, Anchors, Chains, [Next]_vars PROVE Anchors'
  OBVIOUS
<1>0. runs \in Seq(Run) /\ table \in [Tasks -> Task] /\ actor \in Actor
  BY DEF TypeOK
<1>1. CASE CrashAndRestart
  <2>1. actor' = Resting /\ Resting.kept.anchor = 0 /\ Resting.at = "idle"
    BY <1>1 DEF CrashAndRestart, Resting, Absent
  <2>2. \A t \in Tasks : table'[t].anchor \in {0, Forgotten}
    <3>1. PICK loaded \in [Loops -> Loaded] :
            table' = [t \in Tasks |->
                        IF t \notin disk THEN Absent
                        ELSE IF t \in Loops THEN loaded[t] ELSE [Absent EXCEPT !.here = TRUE]]
      BY <1>1 DEF CrashAndRestart
    <3>2. \A k \in Loaded : k.anchor \in {0, Forgotten}
      BY DEF Loaded, Absent
    <3>3. Absent.anchor = 0 /\ [Absent EXCEPT !.here = TRUE].anchor = 0
      BY DEF Absent
    <3> QED
      BY <3>1, <3>2, <3>3
  <2> QED
    BY <2>1, <2>2 DEF Anchors, Anchored
<1>2. CASE ~CrashAndRestart
  <2>0. /\ DOMAIN runs \subseteq DOMAIN runs' /\ Absent.anchor = 0
        /\ \A k : k.anchor = 0 \/ Anchored(k) => Anchored(k)'
    <3>1. DOMAIN runs \subseteq DOMAIN runs'
      BY <1>2, RunsGrow
    <3> QED
      BY <3>1 DEF Anchored, Absent
  <2>1. ASSUME NEW x \in Tasks PROVE table'[x].anchor \in DOMAIN runs' \union {0, Forgotten}
    <3>1. table[x].anchor \in DOMAIN runs \union {0, Forgotten}
          /\ actor.kept.anchor \in DOMAIN runs \union {0, Forgotten}
      BY DEF Anchors, Anchored
    <3>2. CASE Kept(x)
      BY <2>0, <3>1, <3>2 DEF Kept
    <3>3. CASE Spawn /\ table'[x].anchor = Len(runs) + 1
      <4>1. runs' = Append(runs, NewRun)
        BY <3>3, SpawnsOnePrompt
      <4> QED
        BY <1>0, <3>3, <4>1
    <3>4. CASE TakesKept(x)
      BY <2>0, <3>1, <3>4 DEF TakesKept
    <3> QED
      BY <1>2, <2>0, <3>2, <3>3, <3>4, TableMoves
  <2>2. actor'.kept.anchor \in DOMAIN runs' \union {0, Forgotten}
    BY <2>0, KeptMoves DEF Anchors, Anchored
  <2>3. actor'.at = "query" => actor'.kept.anchor # 0
    <3> SUFFICES ASSUME actor'.at = "query" PROVE actor'.kept.anchor # 0
      OBVIOUS
    <3>1. ASSUME NEW t \in Tasks, FireLoop(t) PROVE actor'.kept.anchor # 0
      BY <3>1 DEF FireLoop, Resting
    <3>2. ~QueryPrevious /\ ~QueryUnit
      BY <1>0 DEF QueryPrevious, QueryUnit, Actor
    <3> QED
      BY <3>1, <3>2, FireStages DEF Anchors
  <2>4. ASSUME actor'.at \in {"unit", "spawn"}, actor'.answer = "ok"
        PROVE  actor'.kept.anchor \in DOMAIN runs'
    <3>1. ASSUME NEW t \in Tasks, FireLoop(t) PROVE FALSE
      BY <2>4, <3>1 DEF FireLoop, Resting
    <3>2. CASE QueryPrevious
      <4>1. actor'.kept = actor.kept /\ actor.kept.anchor # Forgotten /\ actor.at = "query"
        BY <1>0, <2>4, <3>2 DEF QueryPrevious, Actor
      <4> QED
        BY <2>0, <4>1 DEF Anchors, Anchored
    <3>3. CASE QueryUnit
      <4>1. actor'.kept = actor.kept /\ actor'.answer = actor.answer /\ actor.at = "unit"
        BY <1>0, <3>3 DEF QueryUnit, Actor
      <4> QED
        BY <2>0, <2>4, <4>1 DEF Anchors
    <3>4. CASE UNCHANGED actor
      BY <2>0, <2>4, <3>4 DEF Anchors
    <3> QED
      BY <2>4, <3>1, <3>2, <3>3, <3>4, FireStages
  <2> QED
    BY <2>1, <2>2, <2>3, <2>4 DEF Anchors, Anchored
<1> QED
  BY <1>1, <1>2

\* Every step keeps transcripts to one prompt.
LEMMA ChainsPreserved ==
  TypeOK /\ ActorShape /\ KeptTask /\ Acks /\ Anchors /\ Chains /\ [Next]_vars => Chains'
<1> SUFFICES ASSUME TypeOK, ActorShape, KeptTask, Acks, Anchors, Chains, [Next]_vars
             PROVE  Chains'
  OBVIOUS
<1>0. /\ runs \in Seq(Run) /\ actor \in Actor
      /\ TypeOK'
  BY TypePreserved DEF TypeOK
<1>1. CASE CrashAndRestart
  <2>1. runs' = <<>> /\ DOMAIN runs' = {}
    BY <1>1 DEF CrashAndRestart
  <2> QED
    BY <2>1 DEF Chains, Chained
<1>2. CASE ~CrashAndRestart
  <2> DEFINE Fits(k) ==
        k.anchor \in DOMAIN runs' /\ ~k.reset => runs'[k.anchor].transcript = {k.prompt}
  <2>0. 0 \notin DOMAIN runs' /\ Forgotten \notin DOMAIN runs' /\ Absent.anchor = 0
    BY <1>0 DEF TypeOK, Forgotten, Absent
  <2>1. /\ DOMAIN runs \subseteq DOMAIN runs'
        /\ \A j \in DOMAIN runs : runs'[j].transcript = runs[j].transcript
        /\ \A j \in DOMAIN runs' \ DOMAIN runs :
             Spawn /\ j = Len(runs) + 1 /\ runs'[j] = NewRun
    BY <1>2, RunsGrow
  <2>2. ASSUME NEW k, Anchored(k), Chained(k) PROVE Fits(k)
    BY <2>0, <2>1, <2>2 DEF Anchored, Chained
  <2>3. ASSUME NEW x \in Tasks PROVE Fits(table'[x])
    <3>1. Fits(table[x]) /\ Fits(actor.kept)
      BY <2>2 DEF Anchors, Chains
    <3>2. CASE Kept(x)
      BY <3>1, <3>2 DEF Kept
    <3>3. CASE table'[x].anchor = 0 \/ table'[x] = Absent
      BY <2>0, <3>3
    <3>4. CASE /\ Spawn /\ x = actor.task
               /\ table'[x].anchor = Len(runs) + 1 /\ table'[x].prompt = table[x].prompt
      <4>1. runs' = Append(runs, NewRun)
        BY <3>4, SpawnsOnePrompt
      <4>2. runs'[Len(runs) + 1].transcript = {actor.kept.prompt}
        BY <1>0, <4>1 DEF NewRun
      <4>3. table[x].prompt = actor.kept.prompt
        BY <3>4 DEF Spawn, ActorShape, KeptTask
      <4> QED
        BY <3>4, <4>2, <4>3
    <3>5. CASE TakesKept(x)
      <4>1. table'[x] = actor.kept \/
              /\ table'[x].anchor = actor.kept.anchor /\ table'[x].reset = actor.kept.reset
              /\ table'[x].prompt = table[x].prompt /\ actor.op = "fire" /\ x = actor.task
        BY <3>5 DEF TakesKept, SpawnUnsent, ActorShape
      <4> QED
        BY <3>1, <4>1 DEF KeptTask
    <3> HIDE DEF Fits
    <3> QED
      BY <1>2, <3>2, <3>3, <3>4, <3>5, TableMoves
  <2>4. Fits(actor'.kept)
    <3>1. Fits(Absent)
      BY <2>0
    <3>2. Fits(actor.kept) /\ \A t \in Tasks : Fits(table[t])
      BY <2>2 DEF Anchors, Chains
    <3> HIDE DEF Fits
    <3> QED
      BY <3>1, <3>2, KeptMoves
  <2>5. ASSUME NEW i \in DOMAIN runs'
        PROVE  \E p \in 0..MaxPatches : runs'[i].transcript = {p}
    <3>1. CASE i \in DOMAIN runs
      BY <2>1, <3>1 DEF Chains
    <3>2. CASE i \notin DOMAIN runs
      <4>1. runs'[i].transcript = {actor.kept.prompt}
        BY <2>1, <3>2 DEF NewRun
      <4>2. actor.kept.prompt \in 0..MaxPatches
        BY <1>0 DEF Actor, Task
      <4> QED
        BY <4>1, <4>2
    <3> QED
      BY <3>1, <3>2
  <2> QED
    BY <2>3, <2>4, <2>5 DEF Chains, Chained
<1> QED
  BY <1>1, <1>2

\* Every step keeps all iterations but the anchored one over.
LEMMA OthersOverPreserved ==
  /\ TypeOK /\ ActorShape /\ KeptTask /\ Acks /\ KnownTasks /\ Anchors /\ Chains /\ OthersOver
  /\ [Next]_vars
  => OthersOver'
<1> SUFFICES ASSUME TypeOK, ActorShape, KeptTask, Acks, KnownTasks, Anchors, Chains, OthersOver,
                    [Next]_vars
             PROVE  OthersOver'
  OBVIOUS
<1>0. runs \in Seq(Run) /\ table \in [Tasks -> Task] /\ actor \in Actor
  BY DEF TypeOK
<1>1. CASE CrashAndRestart
  <2>1. DOMAIN runs' = {}
    BY <1>1 DEF CrashAndRestart
  <2> QED
    BY <2>1 DEF OthersOver
<1>2. CASE ~CrashAndRestart
  <2>1. /\ \A j \in DOMAIN runs : /\ runs'[j].task = runs[j].task /\ (Over(j) => Over(j)')
                                  /\ Edited(runs[j], runs'[j])
        /\ \A j \in DOMAIN runs' \ DOMAIN runs :
             Spawn /\ j = Len(runs) + 1 /\ runs'[j] = NewRun
    BY <1>2, RunsGrow
  <2>2. ASSUME NEW x \in Tasks, table'[x].here, NEW i \in DOMAIN runs', runs'[i].task = x,
               i # table'[x].anchor
        PROVE  Over(i)'
    <3>1. i \in DOMAIN runs /\ runs[i].task = x
      <4>1. CASE i \notin DOMAIN runs
        <5>1. Spawn /\ i = Len(runs) + 1 /\ x = actor.task
          BY <2>1, <2>2, <4>1 DEF NewRun
        <5>2. table'[x].anchor = Len(runs) + 1
          BY <1>0, <5>1 DEF Spawn, Assigned, Task
        <5> QED
          BY <2>2, <5>1, <5>2
      <4> QED
        BY <2>1, <2>2, <4>1
    <3> SUFFICES ASSUME ~Over(i) PROVE Over(i)'
      BY <2>1, <3>1
    <3>2. CASE Kept(x)
      BY <2>2, <3>1, <3>2 DEF Kept, OthersOver
    <3>3. CASE table'[x] = Absent
      BY <2>2, <3>3 DEF Absent
    <3>4. ~(\E lasting \in BOOLEAN : Create(x, lasting))
      BY <3>1 DEF Create, KnownTasks
    <3>5. CASE /\ \E w \in DOMAIN runs : Watch(w) /\ table[x].anchor = w
               /\ table'[x].here = table[x].here
      <4>1. PICK w \in DOMAIN runs : Watch(w) /\ table[x].anchor = w
        BY <3>5
      <4>2. w = i
        BY <2>2, <3>1, <3>5, <4>1 DEF OthersOver
      <4> QED
        BY <3>1, <4>1, <4>2 DEF Watch, OthersOver
    <3>6. CASE Spawn /\ x = actor.task
      BY <3>1, <3>6 DEF Spawn, OthersOver
    <3>7. CASE TakesKept(x)
      BY <2>2, <3>1, <3>7 DEF TakesKept, SpawnUnsent, OthersOver
    <3> QED
      BY <1>2, <3>2, <3>3, <3>4, <3>5, <3>6, <3>7, TableMoves
  <2>3. ASSUME actor'.op \in {"expiry", "fire"}, NEW i \in DOMAIN runs',
               runs'[i].task = actor'.task, i # actor'.kept.anchor
        PROVE  Over(i)'
    <3>1. i \in DOMAIN runs /\ runs[i].task = actor'.task
      <4>1. actor' # Resting
        BY <2>3 DEF Resting
      <4> QED
        BY <2>1, <2>3, <4>1 DEF Spawn
    <3>2. ASSUME NEW t \in Tasks, Expire(t) \/ FireLoop(t), actor'.kept = table[t], actor'.task = t
          PROVE  Over(i)
      <4>1. table[t].here
        BY <3>2 DEF Expire, FireLoop, MayFire, Wakes, Here, TasksOf
      <4> QED
        BY <2>3, <3>1, <3>2, <4>1 DEF OthersOver
    <3>3. CASE actor'.kept = actor.kept /\ actor'.op = actor.op /\ actor'.task = actor.task
      BY <2>1, <2>3, <3>1, <3>3 DEF OthersOver
    <3>4. ASSUME NEW t \in Tasks, Delete(t) PROVE FALSE
      BY <2>3, <3>4 DEF Delete, SaveAndFlush, DeleteStep, Resting
    <3>5. ASSUME RetryDelete PROVE FALSE
      <4>1. actor' = DeleteStep(pending) \/ actor' = Resting
        BY <3>5 DEF RetryDelete, SaveAndFlush, ActorShape, Idle
      <4>2. DeleteStep(pending).op = "delete" /\ Resting.op = "none"
        BY DEF DeleteStep, Resting
      <4> QED
        BY <2>3, <4>1, <4>2
    <3>6. actor' # Resting
      BY <2>3 DEF Resting
    <3>7. (\E t \in Tasks : Expire(t) \/ FireLoop(t)) \/
            (actor'.kept = actor.kept /\ actor'.op = actor.op /\ actor'.task = actor.task)
      BY <3>4, <3>5, <3>6, ActorMoves
    <3>8. ASSUME NEW t \in Tasks, Expire(t) \/ FireLoop(t)
          PROVE  actor'.kept = table[t] /\ actor'.task = t
      <4>1. CASE Expire(t)
        BY <4>1 DEF Expire, SaveAndFlush, Resting
      <4>2. CASE FireLoop(t)
        BY <4>2 DEF FireLoop, Resting
      <4> QED
        BY <3>8, <4>1, <4>2
    <3> QED
      BY <2>1, <3>1, <3>2, <3>3, <3>7, <3>8
  <2>4. ASSUME actor'.at = "spawn", NEW i \in DOMAIN runs', runs'[i].task = actor'.task
        PROVE  Over(i)'
    <3>1. i \in DOMAIN runs /\ runs[i].task = actor'.task
      <4>1. actor' # Resting
        BY <2>4 DEF Resting
      <4> QED
        BY <2>1, <2>4, <4>1 DEF Spawn
    <3> SUFFICES Over(i)
      BY <2>1, <3>1
    <3>2. ASSUME NEW t \in Tasks, FireLoop(t) PROVE Over(i)
      <4>1. table[t].here
        BY <3>2 DEF FireLoop, MayFire, Wakes, Here, TasksOf
      <4>2. table[t].anchor = 0 /\ actor'.task = t
        BY <2>4, <3>2 DEF FireLoop, Resting
      <4> QED
        BY <3>1, <4>1, <4>2, NoRunIds DEF OthersOver
    <3>3. ~QueryPrevious
      BY <1>0, <2>4 DEF QueryPrevious, Actor
    <3>4. CASE QueryUnit
      <4>1. actor'.task = actor.task /\ ~UnitActive(actor.task)
        BY <1>0, <3>4 DEF QueryUnit, Actor
      <4>2. runs[i] \in Run
        BY <1>0, <3>1
      <4>3. runs[i].status # "live" /\ ~runs[i].lingers
        BY <3>1, <4>1 DEF UnitActive
      <4> QED
        BY <4>2, <4>3 DEF Run, Over, OverRun
    <3>5. CASE UNCHANGED actor
      BY <2>4, <3>1, <3>5 DEF OthersOver
    <3> QED
      BY <2>4, <3>2, <3>3, <3>4, <3>5, FireStages
  <2>5. ASSUME actor'.at = "spawn", actor'.kept.anchor # 0,
               NEW i \in DOMAIN runs', runs'[i].task = actor'.task
        PROVE  QuietRun(runs'[i])
    <3>1. i \in DOMAIN runs /\ runs[i].task = actor'.task
      <4>1. actor' # Resting
        BY <2>5 DEF Resting
      <4> QED
        BY <2>1, <2>5, <4>1 DEF Spawn
    <3> SUFFICES QuietRun(runs[i])
      BY <2>1, <3>1 DEF Edited
    <3>2. ASSUME NEW t \in Tasks, FireLoop(t) PROVE FALSE
      BY <2>5, <3>2 DEF FireLoop, Resting
    <3>3. ~QueryPrevious
      BY <1>0, <2>5 DEF QueryPrevious, Actor
    <3>4. CASE QueryUnit
      <4>1. actor'.task = actor.task /\ ~UnitActive(actor.task)
        BY <1>0, <3>4 DEF QueryUnit, Actor
      <4> QED
        BY <3>1, <4>1 DEF UnitActive, QuietRun
    <3>5. CASE UNCHANGED actor
      BY <2>5, <3>1, <3>5 DEF OthersOver
    <3> QED
      BY <2>5, <3>2, <3>3, <3>4, <3>5, FireStages
  <2>6. ASSUME NEW i \in DOMAIN runs', runs'[i].watcher = "clears" PROVE Over(i)'
    <3>1. i \in DOMAIN runs
      BY <2>1, <2>6 DEF NewRun
    <3> QED
      BY <2>1, <2>6, <3>1 DEF OthersOver, Edited, Over
  <2> QED
    BY <2>2, <2>3, <2>4, <2>5, <2>6 DEF OthersOver
<1> QED
  BY <1>1, <1>2

-----------------------------------------------------------------------------
(* Theorems                                                                 *)

\* The invariant holds at the start.
LEMMA InitSchedulerInv == Init => SchedulerInv
<1> SUFFICES ASSUME Init PROVE SchedulerInv
  OBVIOUS
<1>1. Absent \in Task /\ Absent.anchor = 0 /\ Absent.reset = FALSE /\ ~Absent.here
  BY TaskTypes DEF Absent
<1>2. Resting \in Actor
  BY <1>1 DEF Resting, Actor, Places, Operations
<1>3. table \in [Tasks -> Task] /\ \A t \in Tasks : table[t] = Absent
  BY <1>1 DEF Init, Empty
<1>4. TypeOK
  <2>1. NothingHeld \in Held /\ 0 \in 0..MaxCrashes
    BY TasksAssumption DEF NothingHeld, Held
  <2>2. queue \in Seq(Snapshot) /\ runs \in Seq(Run)
    BY DEF Init
  <2> QED
    BY <1>2, <1>3, <2>1, <2>2 DEF Init, TypeOK
<1>5. Resting.at = "idle" /\ Resting.op = "none" /\ Resting.answer = "none" /\ Resting.kept = Absent
  BY DEF Resting
<1>6. ActorShape /\ KeptTask /\ ReservationFresh
  BY <1>5 DEF Init, ActorShape, KeptTask, ReservationFresh
<1>7. Acks /\ KnownTasks /\ DeletedGone
  BY <1>1, <1>3, <1>5 DEF Init, Acks, KnownTasks, DeletedGone, NothingHeld
<1>8. Anchors /\ Chains /\ OthersOver
  BY <1>1, <1>3, <1>5 DEF Init, Anchors, Anchored, Chains, Chained, OthersOver
<1> QED
  BY <1>4, <1>6, <1>7, <1>8 DEF SchedulerInv

\* The invariant holds in every reachable state.
THEOREM SchedulerInvHolds == Spec => []SchedulerInv
<1>1. SchedulerInv /\ [Next]_vars => SchedulerInv'
  BY TypePreserved, ReservationPreserved, ShapePreserved, KeptPreserved, AcksPreserved,
     KnownPreserved, DeletedPreserved, AnchorsPreserved, ChainsPreserved, OthersOverPreserved
     DEF SchedulerInv
<1> QED
  BY <1>1, InitSchedulerInv, PTL DEF Spec

\* The types hold, a task whose delete was reported as done is never in the table or in
\* the file again, and the version that an unfinished delete has reserved is the next one.
THEOREM SchedulerSafetyHolds == Spec => []SchedulerSafety
<1>1. SchedulerInv => SchedulerSafety
  BY DEF SchedulerInv, SchedulerSafety, DeletedStaysDeleted, DeletedGone, Gone
<1> QED
  BY <1>1, SchedulerInvHolds, PTL

\* No iteration ever goes on from the transcript of an earlier prompt.
THEOREM FreshAfterPatchHolds == Spec => []FreshAfterPatch
<1>1. SchedulerInv => FreshAfterPatch
  BY FS_Singleton DEF SchedulerInv, Chains, FreshAfterPatch
<1> QED
  BY <1>1, SchedulerInvHolds, PTL

\* An iteration of a loop is started only when every earlier one has ended and so has
\* everything with the loop's id that it had started, except for what was woken and, when
\* nobody is asked because the anchor was cleared, the descendants of one that failed.
THEOREM StartsAloneHolds == Spec => StartsAlone
<1> DEFINE Alone ==
      \A j \in DOMAIN runs' \ DOMAIN runs :
        \A i \in DOMAIN runs :
          runs[i].task = runs'[j].task /\ ~runs[i].woken =>
            /\ runs[i].status # "live"
            /\ runs[i].lingers => runs[i].status = "failed" /\ actor.kept.anchor = 0
<1>1. SchedulerInv /\ [Next]_vars => [Alone]_vars
  <2> SUFFICES ASSUME SchedulerInv, [Next]_vars, NEW j \in DOMAIN runs' \ DOMAIN runs,
                      NEW i \in DOMAIN runs, runs[i].task = runs'[j].task, ~runs[i].woken
               PROVE  /\ runs[i].status # "live"
                      /\ runs[i].lingers => runs[i].status = "failed" /\ actor.kept.anchor = 0
    OBVIOUS
  <2>1. ~CrashAndRestart
    BY DEF CrashAndRestart
  <2>2. Spawn /\ runs'[j] = NewRun
    BY <2>1, RunsGrow DEF SchedulerInv
  <2>3. Over(i) /\ (actor.kept.anchor # 0 => QuietRun(runs[i]))
    BY <2>2 DEF Spawn, NewRun, SchedulerInv, OthersOver
  <2> QED
    BY <2>3 DEF Over, OverRun, QuietRun
<1> QED
  BY <1>1, SchedulerInvHolds, PTL DEF Spec, StartsAlone
=============================================================================
