# Verification of the concurrent core of Open Grok

TLA+ specifications, TLC configurations and TLAPS proofs for the concurrent core of
Open Grok, a terminal coding agent written in Rust. Paths below are relative to the
repository; `task/` stands for
`crates/codegen/xai-grok-tools/src/implementations/grok_build/task/`, `scheduler/` for its
sibling directory, `code-mode/` for `crates/codegen/xai-grok-code-mode/src/`.

## 1. The system

A terminal client (pager) talks ACP to the shell, which owns one actor per session. A
session samples a model, runs tools, and may spawn *subagents*: child sessions that work
on a part of the task. All children of a process are kept by one actor, the subagent
coordinator. Its callers are on other threads: tool calls that wait for a result, the
user's Stop, the deletion of a session, workflow runs, the children themselves and the
children's sessions. A session also has a *scheduler* of recurring prompts, which asks the
coordinator to run iterations, and *code mode*, where the model writes a script that a
cell runs on a thread of its own.

| Part | State | Operations | Interacts with |
|---|---|---|---|
| Coordinator (`task/coordinator.rs`, `coordinator/{spawn,queue,query}.rs`, `admission.rs`, `coordinator_state.rs`) | queued, pending, active and completed children; blocked sessions; parked deletes, workflow cancels, drain waits; buffered completions | spawn, start, run end, cancel by id / prompt / session / workflow, delete, reopen, hand-off, query, take completions, timers, sweep | commands and internal events by channel; tokens and reply channels shared with callers |
| Wake (`coordinator/wake.rs`) | completed records | restart a finished child with a message | coordinator, active messages, mailboxes |
| Active messages (`active_message.rs`, `coordinator/active_message.rs`) | lease per message, lifecycle per live child, parked outputs | send, admit, complete, finalize, park | coordinator, the child's session, the child's runner |
| Host side (`xai-grok-shell/src/session/acp_session_impl/parent_message.rs`) | input queue of the child's session | claim, insert, commit, answer | the lease |
| Mailboxes (`coordinator.rs` 677-1150) | mail, the batch on offer, barrier, waiters, receipts on their way | send, wait, batch, commit or drop of a receipt, settle, flush at start, teardown | senders, `wait_agent` calls, wake |
| Scheduler (`scheduler/{actor,types}.rs`, the writer in `xai-grok-tools/src/persistence.rs`) | task table, version clock, unfinished delete, state file, iterations | create, update, delete, fire, expire, save, publish, watch | coordinator, tools that save, the notification consumer |
| Code mode cells (`code-mode/cell_actor/`, `session_runtime/`, `runtime/`) | cell state, the actor's locals, runtime thread and its channels, callbacks | execute, observe, terminate, shutdown | callers, host callbacks |
| Native agents, leader, session bus, file locks, circuit breaker, workflow engine, prompt queue | see PROJECT.json | | |

PROJECT.json lists every part, modelled or not, with the reason.

What is hard here: callers vanish and tokens fire between any two turns of an actor; a
slot freed by one session must be handed on in the same turn; Stop and delete race spawns
that are already in the channel; the result of a child has several possible consumers, and
it is to be announced only when none of them gets it; timers are the only thing that
notices some events; a message is inserted by another thread while the coordinator decides
whether to give up on it; a batch of mail is held by a reader that may vanish, while its
recipient finishes and is woken; a snapshot taken before a delete is still on its way to
the disk when the delete is acknowledged, and the process may die in between; a cell's end
is decided by its script, by terminators and by a shutdown at once. The "hazards" of
PROJECT.json give each of these at its line with the properties that would catch it.

What makes each part correct:

- Coordinator: a session stays within its limit; a spawn waits only while its session is
  full; first in, first out per session; a cancelled spawn never starts; Stop reaches
  every task child; a parked delete or workflow cancel always has something to wait for
  and is answered; whoever waits for a child is answered when it ends, and its completion is
  announced only if nobody heard; a deleted session is told nothing.
  Seen from outside, every session has a pool of slots of its own.
- Active messages: a refusal is final, an acceptance is true, uncertainty is admitted
  only when there is some; a child finishes only after its messages are settled; every
  sender is answered.
- Mailboxes: no mail is lost or shown twice; newer mail does not pass a batch on offer; a
  finished child is woken for its steering mail.
- Scheduler: a delete that was reported survives a crash; the version an unfinished delete
  has reserved stays usable; an iteration starts only when nothing of its loop is active
  that the coordinator can know of; iterations do not mix prompts; the first task that is
  due is handled.
- Cells: one outcome, heard by all; no output lost, doubled or reordered; actor and
  runtime agree on who waits for whom; who hears of the end can rely on it.

## 2. Modules

| Module | Contents |
|---|---|
| `SubagentCoordinator` | the coordinator: state, one action per command, internal event and timer, properties, mutated definitions |
| `SlotPool` | abstract specification: one first come, first served pool of slots per session |
| `SubagentPool` | the coordinator's tables read as pools (the refinement mapping) |
| `MCSubagentCoordinator` | request sets and symmetry of the coordinator's runs; extends `SubagentPool` |
| `SubagentCoordinatorProofs` | type correctness |
| `SubagentCoordinatorSafety` | the inductive invariant and what follows from it |
| `SubagentCoordinatorDelivery` | the proofs about who gets a child's result |
| `ActiveMessages`, `MCActiveMessages` | messages to a running child, the lease, the drain |
| `ActiveMessagesProofs` | the inductive invariant of the messages |
| `Mailbox`, `MCMailbox` | one mailbox, its batches and receipts, its recipient |
| `MailboxProofs` | the inductive invariant of a mailbox |
| `CodeModeCell`, `MCCodeModeCell` | one cell: callers, actor, runtime thread, callbacks |
| `CodeModeCellProofs` | the inductive invariant of a cell |
| `CodeModeCellOutput` | the ledger of a cell's output |
| `Scheduler`, `MCScheduler` | the scheduler's actor, writer, iterations, crash and restart |
| `SchedulerProofs` | the inductive invariant of the scheduler |

### SubagentCoordinator

The four collections of the code are the sets `queued`, `pending`, `active`, `completed`
of ids; `child[id]` is the record of an id (request and bookkeeping fields), `token[id]`
its cancellation token. The `VecDeque` of queued spawns is `ahead[id]`, the queued ids in
front of `id`. Each command of `handle_command`, each `InternalEvent`, the end of a run
and `process_deadlines` is one action with everything it calls: `finish_child` includes
delivery, the start of queued spawns and the resolution of parked deletes and workflow
cancels; a turn ends with `resolve_drain_waiters`. `reap_abandoned_callers` runs before
every command and before the deadlines, so such a turn is two steps, with `phase`
recording where the loop is; the environment (callers that vanish, tokens that fire) may
act in between.

Abstractions:

- A request is `parent`, `prompt`, `owner`, `mode`, `surface`; text, models, personas and
  worktrees are left out. `team` is a ghost field: the root session the sender belongs to.
- `reply` is `none`, `open` or `closed`; a background caller's channel is never looked at
  and is `none`.
- Consecutive `finish_child` calls of one handler are one step (`FinishChildren`). This is
  sound because a spawn waits only at capacity (`QueuedAtCapacity`): the starts that the
  calls trigger do not depend on their order.
- `tokio::select!` is biased; the model allows every order of ready events.
- The run of a child ends when its output is handed on; the wait for messages in flight
  that comes before is `ActiveMessages`. An unclean drain shows as a cancelled result.
- The hand-off to background assumes that the tool call has an id.
- Left out: the caps of 1024 completed records and 256 buffered completions, native
  agents, validation, listing and progress, the actor's exit.
- Commands range over `Parents`, the sessions that send the run's requests.

### SlotPool and SubagentPool

`SlotPool` knows nothing of queues shared between sessions, of tokens or of records. A
step of a session ends some of its children, lets some of those in line give up, lets one
arrive, and hands every free slot to the front of the line; a step of the coordinator is
such a step of any of its sessions. `SubagentPool` maps `busy` to the pending and
active children that hold slots and `line` to the session's part of the shared queue, in
its order. `ImplementsPool` is the abstract specification under that mapping.

### ActiveMessages

A child is an id with its incarnations (`gen`), `starting`, `active` or `down`; how it gets
from `down` or `starting` to a slot is the other module's matter. A message goes `idle`,
`ingress` (in the channel with a permit), `inflight` (handed to the host under a lease),
`done` (answered). The lease is the atomic cell of the code. The host's
`commit_admission` is three actions, `HostClaim`, `HostInsert`, `HostCommit`, then
`HostAdmitted` for its answer, because the coordinator's thread acts between any two. A
host may vanish at any of these points. `settle` (a load and a compare-exchange) and
`revoke` are one step with the completion: whatever the host does between the load and the
compare-exchange makes the exchange fail, which is the outcome of the step taken after it.
`Complete` is `ActiveMessageFuture::poll` and `finish_active_message`; `RunEnded` is
`begin_terminalization`, which finishes the child or parks its output; `ActorDrop` is the
destructor of the coordinator. Deadlines elapse at any time. Each message is sent once and
a wake needs a message, so the model is finite without further bounds.

The refusals of a wake that depend on slots or on a closed session are a free choice here
(`ReceiveRefuse` is enabled whenever `ReceiveWake` is); `SubagentCoordinator` models when
they happen.

### Mailbox

One mailbox, since mailboxes share nothing: `mb` holds the coordinator's tables for it (the
queue, the batch on offer, the barrier, the parked waiter), the receipts that readers hold
and the settlements on their way back. `handed` is what has reached the recipient's
conversation or its wake prompt. The recipient is the root of the team or a child in one
of the coordinator's phases. A receipt is committed or dropped (its destructor settles it)
at any time after the batch was taken, so a settlement may arrive after the recipient has
finished, been woken or been torn down. Whether a wake starts, queues or is refused is a
free choice of `SettleMailbox`, as in `ActiveMessages`. Three generations suffice to tell
the batches that can be outstanding apart; the code counts on in 64 bits. What a `retain`
leaves of the queue is `Keep`, which says what `SelectSeq` computes without recursion, so
that it can be reasoned about.

### CodeModeCell

The actor (`run_cell`) is split at every await: `actor.at` says where it stands, and
everything between two awaits is one action. `CellState` behind its mutex is `cell`; a
caller's operation on it is one step. The runtime thread emits events, stops at a frontier
and waits on its two channels (`commands`, `control`); `killed` is V8's
`terminate_execution`. Callbacks (notifications and nested tool calls) are counted, not
told apart. Output items are numbered in the order they are printed, so that loss,
duplication and reordering are visible. Left out: the initial yield of pending items, ids
of pending tool calls, the script's timers, stored values beyond whether they were
published, the service wrapper and the JavaScript itself.

### Scheduler

The actor takes a command or a due task when it is idle and otherwise waits: for the
result of a save, for the acknowledgement of a tombstone, or for the coordinator's answers
during a fire. `actor` records which, on what task, and the copy of the task that the code
keeps across the await (`kept`). A snapshot is the set of tasks it holds. The writer takes
snapshots in order, holds an unforced one back until the next tick, drops the one held
back when a flush comes, and may fail with or without having replaced the file. A crash
empties everything but the file; iterations of an earlier process are `Forgotten`.
The tasks before a task in the table are `before[t]`; the actor takes the first that is due
(`MayFire`).

An iteration ends well or badly, once and perhaps again: a message may wake it, or one of
its descendants, at any time after its end (`Wake`, `WakeDescendant`), also between the
coordinator's answer about the loop and the spawn. `woken` marks what runs for that reason.
The watcher hears the first end only and clears the anchor of an iteration that failed,
even if that has been woken in the meantime (`Watch`). `lingers` stands for the
descendants that carry the loop's id, which are the ones the coordinator counts
(`coordinator.rs` 661-673, `UnitActive`). A nested spawn takes the id from a spawner that is
still in `active` (`coordinator/spawn.rs` 155-190); one that arrives after its iteration
has ended carries none, is counted by nobody, and has no state here.

Versions are abstracted to the one comparison the code makes: `moved` says whether a
version was committed since the pending delete reserved its own. Time is abstracted to two
events, a task comes due and a task comes of age, at any moment. `BlockExpiry`, the retry
of a delete and the give-up when nobody acknowledges are kept. Left out: listing,
announcements at start and shutdown, rollover of the clock, live tail records, the
arithmetic of intervals. `occurrence_journal.rs` is not modelled: its records are a field
of the saved state that only its own tests fill.

## 3. Runs

| Run | Instance | Distinct states | Shows |
|---|---|---|---|
| `slots` | 4 ids, 2 sessions of 2 spawns, limit 0 (clamped to 1) | 290,652 | limits, waiting only at capacity, FIFO, no start of a cancelled spawn, refinement of `SlotPool` |
| `stop` | 3 ids, one session, one nested spawner, one workflow run, limit 1 | 256,320 | Stop, delete and workflow cancel |
| `delivery` | 2 ids, foreground, background and swarm callers, one query per child, wakes, limit 1 | 358,096 | those who wait are answered and the rest is announced, waiters only on live children, silence after delete |
| `reject` | 3 ids, task and workflow owners, wakes, limit 2, failing at the limit | 110,541 | the inductive invariant under the other policy |
| `timers` | 2 ids, foreground callers, limit 0, runs that may never end | 7,662 | cancelled queued spawns, deletes and budgets are resolved by timers alone; the queue drains if runs end |
| `messages` | 1 child, 3 messages of the parent, 1 of another session, 2 in flight per child, 3 permits, wakes | 282,100 | truth of the answers, soundness of the drain |
| `message_answers` | 2 children (one of a workflow), 2 messages, wakes | 170,124 | answers and drains come |
| `mailbox` | 3 messages, capacity 2, batches of 1, one teardown | 138,356 | mail conserved, in order, finished recipients woken |
| `cells` | 2 observers, 2 terminators, 2 emissions, a shutdown | 1,320,663 | one outcome, output conserved, pause agreement, quiet after the end |
| `cell_answers` | 2 observers, 1 terminator, 1 emission, a shutdown | 177,374 | terminators, observers and shutdown are answered |
| `scheduler` | a loop that may be durable and a one-shot, any number of due times, 2 iterations per process, wakes, 1 patch, 1 crash | 726,642 | deletes, reservations, iterations, prompts, due tasks |
| `late_spawn` | 2 ids, nested spawns, limit 1 | (violation) | see below |

Bounds. Three spawns with one slot give a runner, a spawn that waits and one that waits
behind it. For one session's waiting spawn to stand in front of another's, each session
needs a runner and a waiter: hence the four ids of `slots`. Two ids suffice where the
property concerns one child and the slot it competes for. `MaxWaiters` bounds the blocking
queries parked on a child. Two messages in flight on one child are needed for a
disposition to be overwritten and for a count above one; the third meets the per-child
limit, or a later incarnation after a wake. Three messages (`MaxMessages`) through a
mailbox of two (`Capacity`) with batches of one (`BatchLimit`) give a batch on offer, mail
behind it, a full box and a message that is refused. `MaxEmits` bounds the items, yields
and callbacks of a script: with two, one can be read while the other is on its way. In the
scheduler, `MaxTasks` is the code's own limit; due times are not bounded; two iterations
per process (`MaxRuns`) give one and the next that may meet it, with any number of fires
that are skipped, put back or injected between them; one patch (`MaxPatches`) gives a
change of prompt, one snapshot ahead of a save (`MaxQueue`) something stale to be
overtaken, one crash (`MaxCrashes`) an iteration of an earlier process. `Mixed = FALSE`
keeps two halves of the run apart: iterations start only while the loop is the only task
created so far and no tool's snapshot is on its way. Without it the run does not end in
reasonable time. Fires of the loop beside the one-shot, down to the spawn that cannot be
sent, are met in the other half. The theorems hold for either value. Ids, the parent's
messages, observers and terminators are interchangeable (symmetry) in the runs without
liveness, the nested spawner apart.

Deadlock is checked in the coordinator's runs and in `mailbox`. In `messages`,
`message_answers`, `cells`, `cell_answers` and `scheduler` it is not: once the messages are
answered or the cell is closed, the system is at rest; so is a scheduler without tasks.

Each property has a mutated definition in its module (a dropped guard, a missing reset, a
lost field), listed in PROJECT.json, under which TLC finds it violated.

Fairness.

- `TimerSpec` (coordinator): the actor takes the command or deadline turn it has begun, and
  its timer branch is taken when armed (strong fairness: other branches come first in the
  biased select and are assumed not to be ready for ever). Nothing is assumed of runs; that
  they end is a hypothesis (`RunsEnd`) of `QueueDrains` alone.
- `LiveSpec` (messages): the coordinator takes what its ingress channel holds and polls
  admissions in flight, whose deadline elapses. Nothing is assumed of the host, the runner
  or the senders.
- `MailSpec`: the actor takes settlements, and a receipt is in the end committed or
  dropped, since its destructor settles it. Nothing is assumed of senders, waits or the
  recipient.
- `CellSpec`: actor and runtime thread go on when they can and a timer that runs fires; a
  script ends its turn once `terminate_execution` was called, a callback once its token is
  cancelled, which hosts are asked to forward. That turns or notifications end by
  themselves is a named hypothesis of `ObserverAnswered` alone.
- `FireSpec` (scheduler): the actor's waits are all bounded by timeouts and its timer is
  polled when it is idle. Commands, tools, iterations and the writer owe nothing.

### The violation

`LateSpawnCannotOutrunStop` states what the comment at `task/coordinator.rs` 101-104 says
of blocked sessions. `reparent_nested_spawn` looks for the parent only among `active`
children, so a background spawn of a child that has finished in the meantime keeps the
child's own session as parent; Stop closed only the root, and the spawn starts. It needs a
raised nesting depth. The finding in PROJECT.json quotes the lines.

### Observations

Behaviours that the models show and that no property forbids, because no text of the
repository clearly does:

- A steering message sent while a `wait_agent` call is past its deadline but not yet
  expired is parked in the mailbox of a child that runs and could be reached;
  `docs/agents/subagents.md` speaks of queueing only for a recipient that cannot receive
  yet. A later steering message overtakes it.
- A child that finishes after its batch was dropped keeps steering mail unread until the
  next message comes: `finish_child` does not call `wake_completed_mailbox`. This is why
  `MailWakesFinished` speaks of children that finish while a batch is out.
- Mail queued for a root session can be overtaken by steering that reaches it live; hence
  the exception for mail never offered in `MailInOrder`.
- No scheduled task fires while a delete is unfinished, until it is retried or given up.
- `crates/codegen/xai-grok-shell/CHANGELOG.md` 159 says that loop iterations "no longer
  overlap when descendant subagents are still running". They still may in three cases,
  excepted in `StartsAlone` or left out of the model. The watcher of a failed iteration
  clears the anchor, and a fire without an anchor asks nobody, so descendants that the
  failed one left behind do not keep the next back. A message may wake an ended iteration
  or descendant between the coordinator's answer and the spawn (`scheduler/actor.rs`
  636-732), or the anchor of a woken one may be cleared. And a nested spawn that arrives
  after its iteration has ended has no `loop_task_id`.
- A due task may wait for ever behind others: the actor takes the first due task by
  position (`scheduler/actor.rs` 297), a coordinator that does not answer costs a fire 10
  seconds or more, and intervals may be as short as 60 seconds. Hence `Crowded` in
  `DueHandled`.
- A queued swarm spawn whose caller is gone is moved to the background, not dropped
  (`coordinator.rs` 1939), and a workflow spawn into a session that is being deleted is
  admitted (`coordinator.rs` 120). Both are by design.

## 4. Proofs

All theorems hold for every set of ids, sessions, requests, children, messages, tasks,
callers and terminators, every limit, mailboxes of every capacity and scripts of every
length, under the assumptions named in the modules (finite sets of ids and messages,
natural limits, Boolean switches, well-formed requests, session names apart from ids, loops
apart from one-shots).

`TypeCorrect` shows that every action keeps the types of the coordinator.
`SafetyInvariant` shows the inductive invariant `Safety`: types, one record per id, records
keyed to their session, no workflow child in the queue, the queue a strict order, the
limit, waiting only at capacity, Stop, justified deletes and workflow cancels, and waiters
on live children only. None of the interesting parts is inductive alone: the limit needs
unique records (a wake would count an id twice) and the absence of workflow children in
the queue; waiting only at capacity needs the limit, and needs that a dequeue starts every
spawn whose session has room. The central lemma is `SweepOfSession`: what
`start_queued_within_capacity` starts in one session fills it or empties its part of the
queue. From the invariant follow `CapacityHolds`, `QueueOnlyAtCapacity`, `StopHolds`,
`DeleteJustified`, `WorkflowCancelHolds`, `WaitersHold`, `UniqueRecord`, and the action
properties `FirstInFirstOut` and `CancelledStayDown`. `QueueOnlyAtCapacity` is what the
comment on the actor's exit (`coordinator.rs` 310-312) claims.

`MessageSafetyHolds` shows `MessageSafety`: types, the count, the shape of the lease, the
truth of the answers, who waits for a drain, the disposition, and the meaning of clean and
unclean. The argument: a message is answered once, by the step that takes it out of
flight, and that step reads or revokes the lease (`CompletionMeaning`); a claimed or
committed lease is never revoked and a revoked one never claimed, so the answer stays
true. A drain ends at a count of zero; the count is the number of messages in flight of
the live generation, so all are answered, and the disposition remembers any uncertain one.
From it follow `AnswersHold`, `CleanDrainHolds`, `UncertaintyHolds`, `UncleanHolds`,
`CountHolds` and the action property `FinalHolds`.

`SchedulerInvHolds` shows `SchedulerInv`. That deleted tasks stay out of the table and the
file is far from inductive. A delete is reported after its flush was acknowledged, so the
invariant follows the flush: at most one snapshot is awaited, by the save the actor is in
(`Acks`); from that snapshot on nothing in the queue holds the task, since the table lost
it before the snapshot was taken (`DeletedGone`); the flush overwrites the file and drops
what is held back, so that when its acknowledgement is there the task is `Gone` from
everywhere (`FlushedGone`), and what is gone stays so (`GoneStays`), because ids are never
reused (`KnownTasks`) and an expiry that is taken back is never of a deleted task
(`KeptTask`). For the iterations: an anchor names an iteration of this process or none
(`Anchors`); the transcript a task may go on from holds exactly the prompt the task has
(`Chains`), which also covers the copy that the actor carries through its waits; and all
iterations of a task but the anchored one are over, in the last stage of a fire the
anchored one too, and nothing at all is active if the fire has asked (`OthersOver`). Over
means ended, well and without descendants or badly, or woken; an iteration whose watcher
is about to clear the anchor is over by then, which is what lets the next fire go on
without asking. What is shown of the steps of an iteration (its end, a wake, the end of
its descendants) is shared: each edits one record and makes nothing active that is not
marked woken (`EditsOnlyRuns`). `SchedulerSafetyHolds`, `FreshAfterPatchHolds` and
`StartsAloneHolds` follow.

`DeliveryInvHolds` adds to `Safety` what the delivery of results rests on: the record of an
id that was never spawned is blank (`Blank`), a spawn caller is held only for a live child
that was not asked for in the background and that, when it runs, has not been handed off
(`CallersFit`), and the children of a session that is being deleted surface nothing, those
of workflows apart (`Hushed`). `AnnouncedIfUnheard` speaks of the caller and the mode while
`finish_child` looks at `handle_only`; `CallersFit` is what makes the two agree. Every
handler edits records in one of a few ways (`EditsSoften`) and ends children through one
operator, so that two lemmas, `EditDelivers` and `FinishDelivers`, cover all of them: an
edit never gives a caller back or makes a child surface, and a child that ends without
having been cancelled does so with the record it had before the step. A spawn into a
session that is being deleted is admitted only for a workflow, by `DrainHasChildren` and
the refusal of `handle_spawn`; this is where `Hushed` needs `Safety`.
`AnnouncedIfUnheardHolds` and `TeardownSilencesHolds` follow; that the step leaves nobody
waiting is `CallersFit` and `WaitersOnLive` after it.

`MailInvHolds` shows `MailInv`. That mail is neither lost nor doubled depends on who may
still settle which batch. Each batch that is out has one receipt or one settlement, never
both, and beside the current batch at most one other is out, that of a torn down session
(`OneBatch`); the mailbox is in the order of acceptance and the current batch is its front
(`Queued`), so that settling a batch removes exactly its messages; what a reader holds was
not shown, and a batch left over from a teardown is older than anything in the mailbox
(`Unshown`), so that its late commit neither shows mail twice nor passes newer mail. What
was shown is in the mailbox only while its committed receipt is on the way (`Shown`), the
barrier stands as long as offered mail is left (`Guarded`), and every accepted message is
in the mailbox, was shown, or was thrown away by the teardown (`Accounted`). The handlers
are compositions of helpers from tables to tables, so the invariant is a predicate of
tables and history and is shown to be kept helper by helper. `MailSafetyHolds` and the
action property `MailInOrderHolds` follow.

`CellInvHolds` shows `CellInv`. The result is the last event that the runtime sends, so an
actor that has seen it, or has seen the channel close, has seen everything (`Ended`); the
cell becomes a tombstone in the step in which the actor turns to leave, and a kept
completion has no observer beside it (`Stage`); callbacks are waited for in two awaits
before either happens (`Silence`). Hence the verdict by phase (`Verdict`): while the cell
runs or is being terminated nobody has heard of an end, while a completion is kept it is
the only end anybody heard of, and the tombstone is where all are told at once. A runtime
that was not killed and the actor take turns at frontiers (`Turns`): a frontier that is on
its way is the last event and unanswered, one that was handled is either a pause or has
exactly one answer in the channel. From it follow `CellSafetyHolds`, `PauseAgreementHolds`,
`OverMeansQuietHolds`, `ShutdownIsFinalHolds` and the action property
`TerminatorHearsHolds`.

`OutputInvHolds` is the ledger of the output on top of `CellInv`: until the tombstone, what
was told followed by what the actor holds is 1..n, and n+1 up to the last item printed are
on their way in order (`Balance`); where the held items are (the buffer, a rejected
completion, a kept one) depends on the phase (`Drafts`); and an outcome carries the rest of
a beginning of what was printed, all of it after a completion (`Receipts`).
`OutputConservedHolds` follows.

Each inductive invariant was first checked by TLC as an invariant of the component's runs.

Only model-checked: the liveness properties (`CancelledQueuedResolved`, `TeardownAnswered`,
`BudgetHonoured`, `QueueDrains`, `AnswerComes`, `DrainEnds`, `MailWakesFinished`,
`TerminationAnswered`, `CellCloses`, `ObserverAnswered`, `DueHandled`), which need fairness
and enabledness and are out of the prover's reach, and the refinement `ImplementsPool`,
whose lines are sequences cut out of the shared queue's order.

## 5. Plan

1. Native agents of the coordinator: names, completions, mail from outside the process.
2. The circuit breaker: probe leases under concurrent calls, late results of an earlier
   state. File-lock slots with stale owners; leader take-over; the session bus.
3. The workflow journal's replay after a crash.
4. The composition of the coordinator with the drain of `ActiveMessages`, so that a slot is
   held until the drain ends, and of the scheduler with the coordinator's queue.
5. Proofs: the refinement of the slot pool.

## 6. Not modelled, and why

The repository holds some 1.6 million lines; the models cover the parts where several
threads or processes meet in the program's own protocols, a small share of the text. User
interface, sampling, parsing, configuration and file-system code have little shared state
and are left to tests. Third-party pieces (tokio's channels, semaphores and tokens, V8) are
assumed to do what their users rely on: channels are FIFO and report closure, a oneshot
delivers at most once, a token stays cancelled, a terminated script stops.
