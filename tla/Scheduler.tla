------------------------------ MODULE Scheduler ------------------------------
(***************************************************************************)
(* The scheduler of recurring prompts: the actor with its task table, the   *)
(* background writer that turns snapshots of the table into the state file, *)
(* the subagents that run the iterations of a loop, and a process that may  *)
(* crash at any point and start again from the file.                        *)
(*                                                                         *)
(* The actor is one task: while it waits for the writer, for a tombstone's  *)
(* acknowledgement or for the subagent coordinator it takes no command, but *)
(* tools keep saving snapshots, iterations keep ending and the detached     *)
(* watchers of failed iterations keep editing the table.                    *)
(***************************************************************************)
EXTENDS Integers, Sequences, FiniteSets

CONSTANTS
  Tasks,          \* ids; each is a fresh UUID, used by one create
  Loops,          \* recurring tasks that run in a background subagent
  OneShots,       \* tasks that fire once (all others are recurring)
  None,
  MaxTasks,       \* MAX_SCHEDULED_TASKS
  MaxRuns,        \* bound: iterations that a process starts (due times are not bounded)
  Mixed,          \* bound: whether iterations start beside other tasks and tools' saves
  MaxPatches,     \* bound: new prompts of a loop
  MaxQueue,       \* bound: snapshots on their way when another tool or delete sends one
  MaxCrashes      \* bound: crashes

ASSUME TasksAssumption ==
  /\ Loops \subseteq Tasks /\ OneShots \subseteq Tasks
  /\ Loops \intersect OneShots = {}
  /\ None \notin Tasks
  /\ MaxTasks \in Nat /\ MaxRuns \in Nat /\ MaxPatches \in Nat
  /\ MaxQueue \in Nat /\ MaxCrashes \in Nat /\ Mixed \in BOOLEAN

VARIABLES
  table,      \* the task table in memory
  actor,      \* what the actor is waiting for
  pending,    \* the delete that has not gone through
  moved,      \* whether a version was committed since that delete reserved its own
  blocked,    \* tasks whose expiry is given up until a restart
  targets,    \* whether somebody acknowledges durable notifications
  queue,      \* snapshots and flush requests sent to the writer
  debounced,  \* the snapshot that the writer holds back
  disk,       \* the state file
  runs,       \* the iterations that this process has started, in order
  created,    \* ids that were used
  before,     \* the tasks that stand before each in the table and in the file
  durable,    \* those of tasks that were created durable
  deleted,    \* history: deletes that were answered with success
  crashes

vars == <<table, actor, pending, moved, blocked, targets, queue, debounced, disk, runs,
          created, before, durable, deleted, crashes>>

Forgotten == -1                     \* stands for every iteration of an earlier process
RunIds == Nat \union {Forgotten}    \* 0: no iteration

Task == [here : BOOLEAN, due : BOOLEAN, expired : BOOLEAN, anchor : RunIds,
         prompt : 0..MaxPatches, reset : BOOLEAN]
Absent == [here |-> FALSE, due |-> FALSE, expired |-> FALSE, anchor |-> 0,
           prompt |-> 0, reset |-> FALSE]
Empty == [t \in Tasks |-> Absent]

\* A snapshot is the set of tasks that it holds; ack says that the actor waits for the
\* result of its write.
Snapshot == [tasks : SUBSET Tasks, flush : BOOLEAN, ack : BOOLEAN]

\* An iteration: the prompts that its transcript holds, how it ended, and whether
\* descendants that carry the loop's id go on without it. A nested spawn takes the id
\* from a spawner that is still active; one that arrives later has none, is counted by
\* nobody here and has no state. The watcher waits for the first end only. woken: what
\* is active of the iteration was woken by a message after it had ended.
Run == [task : Tasks, transcript : SUBSET (0..MaxPatches),
        status : {"live", "ok", "failed"}, lingers : BOOLEAN,
        watcher : {"waits", "clears", "gone"}, woken : BOOLEAN]

NothingHeld == [held |-> FALSE, tasks |-> {}]
Held == [held : BOOLEAN, tasks : SUBSET Tasks]

Places == {"idle", "save", "publish", "query", "unit", "spawn"}
Operations == {"none", "delete", "expiry", "sweep", "fire"}
Actor == [at : Places, op : Operations, task : Tasks \union {None}, kept : Task,
          answer : {"none", "ok", "error"}]
Resting == [at |-> "idle", op |-> "none", task |-> None, kept |-> Absent, answer |-> "none"]

TypeOK ==
  /\ table \in [Tasks -> Task] /\ disk \subseteq Tasks /\ durable \subseteq created
  /\ actor \in Actor
  /\ pending \in Tasks \union {None} /\ moved \in BOOLEAN
  /\ blocked \subseteq Tasks /\ targets \in BOOLEAN
  /\ queue \in Seq(Snapshot)
  /\ debounced \in Held
  /\ runs \in Seq(Run)
  /\ created \subseteq Tasks /\ deleted \subseteq Tasks
  /\ before \in [Tasks -> SUBSET Tasks] /\ crashes \in 0..MaxCrashes

Init ==
  /\ table = Empty /\ disk = {} /\ queue = <<>> /\ debounced = NothingHeld
  /\ actor = Resting /\ pending = None /\ moved = FALSE /\ blocked = {} /\ targets = TRUE
  /\ runs = <<>> /\ created = {} /\ durable = {} /\ deleted = {} /\ crashes = 0
  /\ before = [t \in Tasks |-> {}]

history == <<created, before, durable, deleted, crashes>>
writer == <<queue, debounced, disk>>

-----------------------------------------------------------------------------
TasksOf(tab) == {t \in Tasks : tab[t].here}
Here == TasksOf(table)
Idle == actor.at = "idle"

\* A transition takes the next version of the clock.
Commit == moved' = (moved \/ pending # None)

\* The actor sends a snapshot that replaces whatever the writer holds back, and waits.
SaveAndFlush(new, step) ==
  /\ queue' = Append(queue, [tasks |-> TasksOf(new), flush |-> TRUE, ack |-> TRUE])
  /\ actor' = step

\* The bound that keeps iterations apart from a second task and from tools' snapshots.
NoIteration == Mixed \/ runs = <<>>
OnlyIterations ==
  Mixed \/ (created = {actor.task} /\ ~debounced.held /\ \A i \in DOMAIN queue : queue[i].flush)

Without(t) == [table EXCEPT ![t] = Absent]

\* Nobody listens to the result of a save that is given up.
Unheard(q) == [i \in DOMAIN q |-> [q[i] EXCEPT !.ack = FALSE]]

-----------------------------------------------------------------------------
(* Commands                                                                 *)

\* Creates and updates are refused while a delete is unfinished.
MayChange == Idle /\ pending = None

Create(t, lasting) ==
  /\ MayChange /\ t \notin created /\ Cardinality(Here) < MaxTasks /\ NoIteration
  /\ lasting => t \notin OneShots
  /\ table' = [table EXCEPT ![t] = [Absent EXCEPT !.here = TRUE]]
  /\ created' = created \union {t} /\ before' = [before EXCEPT ![t] = Here]
  /\ durable' = IF lasting THEN durable \union {t} ELSE durable
  /\ Commit
  /\ UNCHANGED <<actor, pending, blocked, targets, writer, runs, deleted, crashes>>

\* A new prompt is a new job; the anchor stays for the guard against a running iteration.
PatchedTask(task) == [task EXCEPT !.prompt = @ + 1, !.reset = TRUE]

UpdatePrompt(t) ==
  /\ MayChange /\ t \in Here \intersect Loops /\ table[t].prompt < MaxPatches
  /\ table' = [table EXCEPT ![t] = PatchedTask(@)]
  /\ Commit
  /\ UNCHANGED <<actor, pending, blocked, targets, writer, runs, history>>

\* A new interval never makes a task fire at once.
UpdateInterval(t) ==
  /\ MayChange /\ t \in Here /\ table[t].due
  /\ table' = [table EXCEPT ![t].due = FALSE]
  /\ Commit
  /\ UNCHANGED <<actor, pending, blocked, targets, writer, runs, history>>

DeleteStep(t) == [Resting EXCEPT !.at = "save", !.op = "delete", !.task = t]

Delete(t) ==
  /\ Idle /\ pending = None /\ t \in Here /\ targets
  /\ table' = Without(t)
  /\ pending' = t /\ moved' = FALSE
  /\ SaveAndFlush(Without(t), DeleteStep(t))
  /\ UNCHANGED <<blocked, targets, debounced, disk, runs, history>>

\* A repeated delete goes on where the first one failed, or gives up the reservation
\* when nobody acknowledges any more.
RetryDelete ==
  /\ Idle /\ pending # None /\ Len(queue) < MaxQueue
  /\ IF targets
     THEN SaveAndFlush(table, DeleteStep(pending)) /\ UNCHANGED pending
     ELSE pending' = None /\ UNCHANGED <<queue, actor>>
  /\ UNCHANGED <<table, moved, blocked, targets, debounced, disk, runs, history>>

-----------------------------------------------------------------------------
(* Due tasks                                                                *)

Wakes(t) == t \in Here /\ (table[t].due \/ table[t].expired) /\ t \notin blocked

\* A task that stands before this one is due as well.
Crowded(t) == \E u \in before[t] : Wakes(u)

\* The actor takes the first due task of the table.
MayFire(t) == Idle /\ pending = None /\ Wakes(t) /\ ~Crowded(t)

BlockExpiry(t) ==
  /\ MayFire(t) /\ table[t].expired /\ t \in durable /\ ~targets
  /\ blocked' = blocked \union {t}
  /\ UNCHANGED <<table, actor, pending, moved, targets, writer, runs, history>>

\* The task leaves the table before its absence is saved: durably and announced after
\* that, or on a best effort.
Expire(t) ==
  /\ MayFire(t) /\ table[t].expired /\ (t \in durable => targets)
  /\ table' = Without(t)
  /\ SaveAndFlush(Without(t),
       [Resting EXCEPT !.at = "save", !.op = IF t \in durable THEN "expiry" ELSE "sweep",
                       !.task = t, !.kept = table[t]])
  /\ UNCHANGED <<pending, moved, blocked, targets, debounced, disk, runs, history>>

Fired(t) == IF t \in OneShots THEN Without(t) ELSE [table EXCEPT ![t].due = FALSE]

\* The prompt is injected into the parent's conversation.
FireForeground(t) ==
  /\ MayFire(t) /\ ~table[t].expired
  /\ table' = Fired(t)
  /\ Commit
  /\ UNCHANGED <<actor, pending, blocked, targets, writer, runs, history>>

\* The table is released before the coordinator is asked about the previous iteration.
FireLoop(t) ==
  /\ MayFire(t) /\ ~table[t].expired /\ t \in Loops
  /\ table' = Fired(t)
  /\ actor' = [Resting EXCEPT !.at = IF table[t].anchor = 0 THEN "spawn" ELSE "query",
                              !.op = "fire", !.task = t, !.kept = table[t]]
  /\ UNCHANGED <<pending, moved, blocked, targets, writer, runs, history>>

Skip ==
  /\ actor' = Resting
  /\ UNCHANGED <<table, pending, moved, blocked, targets, writer, runs, history>>

\* What the coordinator answers about the previous iteration; it has never heard of
\* those of an earlier process.
StillRunning(i) == i # Forgotten /\ runs[i].status = "live"

QueryPrevious ==
  /\ actor.at = "query" /\ ~StillRunning(actor.kept.anchor)
  /\ actor' = [actor EXCEPT !.at = "unit",
                 !.answer = IF actor.kept.anchor = Forgotten THEN "error"
                            ELSE IF runs[actor.kept.anchor].status = "ok" THEN "ok" ELSE "error"]
  /\ UNCHANGED <<table, pending, moved, blocked, targets, writer, runs, history>>

\* Mutant of UnitActive: descendants of an iteration are not part of it.
UnitIsIteration(t) == \E i \in DOMAIN runs : runs[i].task = t /\ runs[i].status = "live"

\* Whatever is pending, active or queued and carries the loop's id.
UnitActive(t) ==
  \E i \in DOMAIN runs : runs[i].task = t /\ (runs[i].status = "live" \/ runs[i].lingers)

QueryUnit ==
  /\ actor.at = "unit" /\ ~UnitActive(actor.task)
  /\ actor' = [actor EXCEPT !.at = "spawn"]
  /\ UNCHANGED <<table, pending, moved, blocked, targets, writer, runs, history>>

\* Mutant of SkipFire: the fire waits for the previous iteration.
WaitForPrevious == actor.at = "unit" /\ Skip

\* The fire is skipped: something of the loop still runs, or no answer came in time.
SkipFire == actor.at \in {"query", "unit"} /\ Skip

\* The new iteration goes on from the previous one, or starts afresh: always after a
\* new prompt, when the previous one is unusable, and now and then.
Transcripts(kept, answer) ==
  {{kept.prompt}} \union
    (IF kept.reset \/ answer # "ok" THEN {}
     ELSE {runs[kept.anchor].transcript \union {kept.prompt}})

\* The task is given the new iteration before the spawn is sent.
Assigned(task) == [task EXCEPT !.anchor = Len(runs) + 1, !.reset = FALSE]

Spawn ==
  /\ actor.at = "spawn" /\ Len(runs) < MaxRuns /\ OnlyIterations
  /\ \E transcript \in Transcripts(actor.kept, actor.answer) :
       runs' = Append(runs, [task |-> actor.task, transcript |-> transcript,
                             status |-> "live", lingers |-> FALSE, watcher |-> "waits",
                             woken |-> FALSE])
  /\ table' = [table EXCEPT ![actor.task] = Assigned(@)]
  /\ actor' = Resting
  /\ Commit
  /\ UNCHANGED <<pending, blocked, targets, writer, history>>

\* Mutant of Restored: a pending reset that the fire has consumed is lost.
RestoredWithoutReset(task, kept) == [task EXCEPT !.anchor = kept.anchor]

Restored(task, kept) == [task EXCEPT !.anchor = kept.anchor, !.reset = kept.reset]

\* The coordinator is gone: what the fire had read is put back, and the prompt is
\* injected instead.
SpawnUnsent ==
  /\ actor.at = "spawn"
  /\ table' = [table EXCEPT ![actor.task] = Restored(Assigned(@), actor.kept)]
  /\ actor' = Resting
  /\ Commit
  /\ UNCHANGED <<pending, blocked, targets, writer, runs, history>>

-----------------------------------------------------------------------------
(* Results that the actor waits for                                         *)

\* The save of a delete or of a durable expiry has gone through: publish it.
Saved ==
  /\ actor.at = "save" /\ actor.op \in {"delete", "expiry"} /\ actor.answer = "ok"
  /\ actor' = [actor EXCEPT !.at = "publish", !.answer = "none"]
  /\ UNCHANGED <<table, pending, moved, blocked, targets, writer, runs, history>>

\* Not saved: a delete stays unfinished, a durable expiry is taken back.
NotSaved ==
  /\ actor.at = "save" /\ actor.op \in {"delete", "expiry"} /\ actor.answer = "error"
  /\ IF actor.op = "expiry"
     THEN /\ table' = [table EXCEPT ![actor.task] = actor.kept]
          /\ blocked' = blocked \union {actor.task}
     ELSE UNCHANGED <<table, blocked>>
  /\ actor' = Resting
  /\ UNCHANGED <<pending, moved, targets, writer, runs, history>>

\* No result in time: the outcome is unknown, and a late result is heard by nobody.
SaveTimesOut ==
  /\ actor.at = "save" /\ actor.op \in {"delete", "expiry"} /\ actor.answer = "none"
  /\ actor' = Resting
  /\ queue' = Unheard(queue)
  /\ UNCHANGED <<table, pending, moved, blocked, targets, debounced, disk, runs, history>>

\* The expiry of a task that is not durable goes on whatever became of the save.
Swept ==
  /\ actor.at = "save" /\ actor.op = "sweep"
  /\ actor' = Resting
  /\ queue' = Unheard(queue)
  /\ Commit
  /\ UNCHANGED <<table, pending, blocked, targets, debounced, disk, runs, history>>

\* The tombstone is acknowledged: the delete has succeeded, the version is taken.
Published ==
  /\ actor.at = "publish" /\ targets
  /\ IF actor.op = "delete"
     THEN pending' = None /\ deleted' = deleted \union {actor.task} /\ UNCHANGED moved
     ELSE Commit /\ UNCHANGED <<pending, deleted>>
  /\ actor' = Resting
  /\ UNCHANGED <<table, blocked, targets, writer, runs, created, before, durable, crashes>>

\* No acknowledgement: a delete stays unfinished, an expiry is over without a version.
NotPublished == actor.at = "publish" /\ Skip

-----------------------------------------------------------------------------
(* The writer                                                               *)

\* Mutant of HeldAfterFlush: a flush does not drop the snapshot held back.
HeldStays == debounced

HeldAfterFlush == NothingHeld

WriterReceive ==
  /\ queue # <<>> /\ ~Head(queue).flush
  /\ debounced' = [held |-> TRUE, tasks |-> Head(queue).tasks]
  /\ queue' = Tail(queue)
  /\ UNCHANGED <<table, actor, pending, moved, blocked, targets, disk, runs, history>>

\* A failed write may already have replaced the file.
WriterFlush(ok) ==
  /\ queue # <<>> /\ Head(queue).flush
  /\ debounced' = HeldAfterFlush
  /\ disk' \in {Head(queue).tasks} \union (IF ok THEN {} ELSE {disk})
  /\ actor' = IF Head(queue).ack THEN [actor EXCEPT !.answer = IF ok THEN "ok" ELSE "error"]
                                 ELSE actor
  /\ queue' = Tail(queue)
  /\ UNCHANGED <<table, pending, moved, blocked, targets, runs, history>>

\* The held back snapshot is written on the next tick, or lost when that fails.
WriterTick ==
  /\ debounced.held
  /\ disk' \in {debounced.tasks, disk}
  /\ debounced' = NothingHeld
  /\ UNCHANGED <<table, actor, pending, moved, blocked, targets, queue, runs, history>>

-----------------------------------------------------------------------------
(* The world around the actor                                               *)

\* The last snapshot sent, or what has become of it.
LastSent ==
  IF queue # <<>> THEN queue[Len(queue)].tasks
  ELSE IF debounced.held THEN debounced.tasks ELSE disk

\* A tool call ends: the table is read under the lock that orders the snapshots. One
\* that repeats the last is left out.
ToolSave ==
  /\ Len(queue) < MaxQueue /\ Here # LastSent /\ NoIteration
  /\ queue' = Append(queue, [tasks |-> Here, flush |-> FALSE, ack |-> FALSE])
  /\ UNCHANGED <<table, actor, pending, moved, blocked, targets, debounced, disk, runs, history>>

ComesDue(t) ==
  /\ t \in Here /\ ~table[t].due
  /\ table' = [table EXCEPT ![t].due = TRUE]
  /\ UNCHANGED <<actor, pending, moved, blocked, targets, writer, runs, history>>

ComesOfAge(t) ==
  /\ t \in Here \ OneShots /\ ~table[t].expired
  /\ table' = [table EXCEPT ![t].expired = TRUE]
  /\ UNCHANGED <<actor, pending, moved, blocked, targets, writer, runs, history>>

ConsumerCloses ==
  /\ targets
  /\ targets' = FALSE
  /\ UNCHANGED <<table, actor, pending, moved, blocked, writer, runs, history>>

\* The coordinator answers the watcher, if it has not done so already; the watcher of an
\* iteration that went well has nothing to do.
RunEnds(i, status, lingers) ==
  /\ runs[i].status = "live"
  /\ runs' = [runs EXCEPT ![i].status = status,
                         ![i].lingers = @ \/ lingers,
                         ![i].woken = @ /\ (runs[i].lingers \/ lingers),
                         ![i].watcher = IF @ # "waits" THEN @
                                        ELSE IF status = "failed" THEN "clears" ELSE "gone"]
  /\ UNCHANGED <<table, actor, pending, moved, blocked, targets, writer, history>>

DescendantsEnd(i) ==
  /\ runs[i].lingers
  /\ runs' = [runs EXCEPT ![i].lingers = FALSE,
                         ![i].woken = @ /\ runs[i].status = "live"]
  /\ UNCHANGED <<table, actor, pending, moved, blocked, targets, writer, history>>

\* A message wakes an iteration that has ended: it runs again under its id, queued or at
\* once, and nobody watches it a second time.
Wake(i) ==
  /\ runs[i].status # "live"
  /\ runs' = [runs EXCEPT ![i].status = "live", ![i].woken = TRUE]
  /\ UNCHANGED <<table, actor, pending, moved, blocked, targets, writer, history>>

\* The same for a descendant of an ended iteration; it keeps the loop's id.
WakeDescendant(i) ==
  /\ runs[i].status # "live" /\ ~runs[i].lingers
  /\ runs' = [runs EXCEPT ![i].lingers = TRUE, ![i].woken = TRUE]
  /\ UNCHANGED <<table, actor, pending, moved, blocked, targets, writer, history>>

\* The detached watcher of an iteration that failed clears the anchor that still names
\* it, also when the iteration has been woken in the meantime.
Watch(i) ==
  /\ runs[i].watcher = "clears"
  /\ runs' = [runs EXCEPT ![i].watcher = "gone"]
  /\ table' = [t \in Tasks |-> IF table[t].anchor = i THEN [table[t] EXCEPT !.anchor = 0] ELSE table[t]]
  /\ UNCHANGED <<actor, pending, moved, blocked, targets, writer, history>>

\* What a process that starts may find in a saved task: whether it goes on from an
\* iteration is left open, and with one that nobody knows any more a pending reset makes
\* no difference; whether it is due or expired the clock will tell; and to a process
\* without iterations one prompt is as good as another.
Loaded == {[Absent EXCEPT !.here = TRUE, !.anchor = a] : a \in {0, Forgotten}}

\* The process dies with its subagents and everything unwritten; a new one loads the file.
CrashAndRestart ==
  /\ crashes < MaxCrashes
  /\ crashes' = crashes + 1
  /\ \E loaded \in [Loops -> Loaded] :
       table' = [t \in Tasks |->
                   IF t \notin disk THEN Absent
                   ELSE IF t \in Loops THEN loaded[t] ELSE [Absent EXCEPT !.here = TRUE]]
  /\ actor' = Resting /\ pending' = None /\ moved' = FALSE /\ blocked' = {} /\ targets' = TRUE
  /\ queue' = <<>> /\ debounced' = NothingHeld
  /\ runs' = <<>>
  /\ UNCHANGED <<disk, created, before, durable, deleted>>

-----------------------------------------------------------------------------
Command ==
  \/ \E t \in Tasks :
       \/ \E lasting \in BOOLEAN : Create(t, lasting)
       \/ UpdatePrompt(t)
       \/ UpdateInterval(t)
       \/ Delete(t)
  \/ RetryDelete

Fire(t) == BlockExpiry(t) \/ Expire(t) \/ FireForeground(t) \/ FireLoop(t)

Continue ==
  \/ QueryPrevious \/ QueryUnit \/ SkipFire \/ Spawn \/ SpawnUnsent
  \/ Saved \/ NotSaved \/ SaveTimesOut \/ Swept \/ Published \/ NotPublished

Writer == WriterReceive \/ (\E ok \in BOOLEAN : WriterFlush(ok)) \/ WriterTick

World ==
  \/ ToolSave
  \/ \E t \in Tasks : ComesDue(t) \/ ComesOfAge(t)
  \/ ConsumerCloses
  \/ \E i \in DOMAIN runs :
       \/ \E status \in {"ok", "failed"}, lingers \in BOOLEAN : RunEnds(i, status, lingers)
       \/ DescendantsEnd(i)
       \/ Wake(i) \/ WakeDescendant(i)
       \/ Watch(i)
  \/ CrashAndRestart

Next == Command \/ (\E t \in Tasks : Fire(t)) \/ Continue \/ Writer \/ World

Spec == Init /\ [][Next]_vars

\* The actor's waits are all bounded by timeouts, and the timer that fires due tasks is
\* polled whenever the actor is idle; commands, tools, iterations and the writer owe
\* nothing.
FireSpec == Spec /\ WF_vars(Continue) /\ WF_vars(\E t \in Tasks : Fire(t))

-----------------------------------------------------------------------------
(* Properties                                                               *)

\* A delete that was reported as done survives a crash: neither the table nor the
\* file ever holds the task again, whatever snapshots of older tables were on their
\* way to the writer.
DeletedStaysDeleted == \A t \in deleted : ~table[t].here /\ t \notin disk

\* The version that an unfinished delete has reserved is still the next one, so that
\* committing it cannot trip the clock's assertion against stale reservations.
ReservationFresh == pending # None => ~moved

SchedulerSafety == TypeOK /\ DeletedStaysDeleted /\ ReservationFresh

\* An iteration of a loop is started only when every earlier one has ended and all its
\* descendants with the loop's id have. Two things are excepted. What runs because a
\* message woke it: the answer that nothing of the loop is active may be stale when it
\* is used, and a fire without an anchor asks nobody. And, for that reason too, the
\* descendants of an iteration that failed once its watcher has cleared the anchor.
\* Descendants without the loop's id are outside this promise.
StartsAlone ==
  [][\A j \in DOMAIN runs' \ DOMAIN runs :
       \A i \in DOMAIN runs :
         runs[i].task = runs'[j].task /\ ~runs[i].woken =>
           /\ runs[i].status # "live"
           /\ runs[i].lingers => runs[i].status = "failed" /\ actor.kept.anchor = 0]_vars

\* After a new prompt the next iteration starts a fresh transcript: none ever holds two
\* prompts, whatever failed, was put back or was read before the prompt changed.
FreshAfterPatch == \A i \in DOMAIN runs : Cardinality(runs[i].transcript) = 1

\* The first due task is fired, skipped, removed or blocked, even when the previous
\* iterations, the writer and the coordinator never answer. Only two things keep a due
\* task waiting: a delete that nobody finishes or gives up, and a task before it that
\* comes due in the meantime, as often as that happens.
DueHandled ==
  \A t \in Tasks : Wakes(t) ~> (~Wakes(t) \/ Crowded(t) \/ pending # None)
=============================================================================
