------------------------- MODULE SubagentCoordinator -------------------------
(***************************************************************************)
(* The lifecycle actor of the subagents (SubagentCoordinator<R> of          *)
(* xai-grok-tools, implementations/grok_build/task/coordinator.rs): spawn   *)
(* admission, the FIFO of spawns parked at a session's limit, child runs,   *)
(* cancellation by id, prompt, session and workflow run, session teardown,  *)
(* foreground callers and their await budget, blocking queries, wakes of    *)
(* finished children.                                                       *)
(*                                                                          *)
(* A child is known by its id and stands in one of four collections, as in  *)
(* the code: queued, pending, active, completed. The collections hold       *)
(* records in the code; here they are sets of ids and child[id] is the      *)
(* record, which is sound because no id is in two of them (OneRecordPerId). *)
(* The queue is a VecDeque in the code; ahead[id] is the set of queued ids  *)
(* in front of id.                                                          *)
(*                                                                          *)
(* The actor handles one event per turn of its loop. reap_abandoned_callers *)
(* runs before every command and before the deadlines, and callers and      *)
(* tokens live on other threads, so a turn with a reap is two steps (Reap,  *)
(* then the handler) and only the environment acts in between.              *)
(***************************************************************************)
EXTENDS Naturals, FiniteSets

CONSTANTS
  Ids,                \* subagent ids; a child's own session bears its id
  Roots,              \* the sessions that are nobody's child
  Prompts,            \* prompt ids of the parents
  Runs,               \* workflow run ids
  Requests,           \* the spawn requests callers may send
  MaxConcurrent,      \* SubagentLimits.max_concurrent, as configured
  FailAtLimit,        \* LimitBehavior::Fail rather than Queue
  SupportsWake,       \* ChildRunner::supports_wake
  BufferCompletions,  \* CoordinatorConfig.buffer_completions
  MaxWaiters          \* bound: blocking queries parked on one child

VARIABLES
  phase,         \* where the actor's loop is: "select", "command", "deadlines"
  queued,        \* ids parked at the session's limit
  ahead,         \* for a queued id, the queued ids in front of it
  pending,       \* started, not yet reported live by the runner
  active,        \* reported live
  completed,     \* finished records
  child,         \* the record of each id
  token,         \* is the request's CancellationToken cancelled?
  waiters,       \* open blocking queries on each id
  drainWaiters,  \* scopes <<session, prompt>> with a parked WaitPromptDrained
  workflowCancelWaiters, \* runs with a parked workflow cancel
  teardownDrains,        \* sessions with a parked deleting teardown
  spawnBlocked,          \* sessions whose spawn admission is closed
  buffered       \* ids whose completion waits in pending_completions

vars == <<phase, queued, ahead, pending, active, completed, child, token,
          waiters, drainWaiters, workflowCancelWaiters, teardownDrains,
          spawnBlocked, buffered>>

(***************************************************************************)
(* Values                                                                  *)
(***************************************************************************)

None == "none"
Sessions == Roots \union Ids

\* The sessions a child can be keyed to; a command about any other finds nothing.
Parents == {r.parent : r \in Requests}
Owners == {"task", "swarm"} \union Runs

\* SubagentRequest.run_in_background and await_to_completion.
Modes == {"background", "foreground", "await_to_completion"}

Request == [id : Ids, parent : Sessions, prompt : Prompts, owner : Owners,
            mode : Modes, surface : BOOLEAN]

\* spawn_reply: no sender held, receiver waiting, receiver dropped. A background
\* spawn has "none": its sender is never looked at before it is used.
Replies == {"none", "open", "closed"}

\* How a child finished: its result is cancelled, its completion is announced to
\* the parent (should_surface), or neither.
Outcomes == {"cancelled", "surfaced", "silent"}

\* The fields of QueuedSpawn, PendingChild, ActiveChild and CompletedChild that
\* decide something. "team" (the root session whose tree the spawn comes from)
\* is history and no action reads it to decide.
ChildRecord ==
  [parent : Sessions \union {None}, team : Roots \union {None},
   prompt : Prompts \union {None}, owner : Owners, mode : Modes,
   surface : BOOLEAN, reply : Replies, deadline : BOOLEAN,
   handleOnly : BOOLEAN, killed : BOOLEAN, definitionBackground : BOOLEAN,
   hasSession : BOOLEAN, outcome : Outcomes \union {None}]

NoChild ==
  [parent |-> None, team |-> None, prompt |-> None, owner |-> "task",
   mode |-> "background", surface |-> FALSE, reply |-> "none",
   deadline |-> FALSE, handleOnly |-> FALSE, killed |-> FALSE,
   definitionBackground |-> FALSE, hasSession |-> FALSE, outcome |-> None]

ASSUME IdsAssumption == IsFiniteSet(Ids)
ASSUME LimitAssumption == MaxConcurrent \in Nat
ASSUME WaitersAssumption == MaxWaiters \in Nat
ASSUME FlagsAssumption ==
  {FailAtLimit, SupportsWake, BufferCompletions} \subseteq BOOLEAN
ASSUME RequestsAssumption == Requests \subseteq Request
ASSUME NamesAssumption ==
  /\ Roots \intersect Ids = {}
  /\ Runs \intersect {"task", "swarm"} = {}
  /\ None \notin Roots \union Ids \union Prompts

TypeOK ==
  /\ phase \in {"select", "command", "deadlines"}
  /\ queued \subseteq Ids /\ pending \subseteq Ids
  /\ active \subseteq Ids /\ completed \subseteq Ids
  /\ ahead \in [Ids -> SUBSET Ids]
  /\ child \in [Ids -> ChildRecord]
  /\ token \in [Ids -> BOOLEAN]
  /\ waiters \in [Ids -> Nat]
  /\ drainWaiters \subseteq Sessions \X Prompts
  /\ workflowCancelWaiters \subseteq Runs
  /\ teardownDrains \subseteq Sessions
  /\ spawnBlocked \subseteq Sessions
  /\ buffered \subseteq Ids

Init ==
  /\ phase = "select"
  /\ queued = {} /\ pending = {} /\ active = {} /\ completed = {}
  /\ ahead = [c \in Ids |-> {}]
  /\ child = [c \in Ids |-> NoChild]
  /\ token = [c \in Ids |-> FALSE]
  /\ waiters = [c \in Ids |-> 0]
  /\ drainWaiters = {}
  /\ workflowCancelWaiters = {}
  /\ teardownDrains = {}
  /\ spawnBlocked = {}
  /\ buffered = {}

(***************************************************************************)
(* Predicates of the code                                                  *)
(***************************************************************************)

Running == pending \union active
Live == queued \union Running

IsWorkflow(owner) == owner \in Runs
CancelOnReceiverDrop(owner) == owner = "swarm" \/ IsWorkflow(owner)
AwaitsInForeground(mode) == mode = "foreground"

\* Mutant of Limit: a configured zero is taken as it is.
LimitNotClamped == MaxConcurrent

\* Admission::new clamps a configured zero to one.
Limit == IF MaxConcurrent = 0 THEN 1 ELSE MaxConcurrent
HasCapacity(running) == running < Limit

\* session_running_count over the children in R: workflow agents draw from
\* their run's own pool.
SlotsHeld(session, R) ==
  {c \in R : child[c].parent = session /\ ~IsWorkflow(child[c].owner)}

RequestInScope(c, session, prompt) ==
  /\ child[c].parent = session
  /\ child[c].prompt = prompt
  /\ ~IsWorkflow(child[c].owner)

TurnBlocking(c) ==
  \/ c \in pending /\ ~child[c].handleOnly
  \/ c \in active /\ ~child[c].handleOnly /\ ~child[c].definitionBackground
  \/ c \in queued /\ child[c].reply # "none" /\ child[c].mode # "background"

ScopeHasLiveTurnBlocking(scope) ==
  \E c \in Live : RequestInScope(c, scope[1], scope[2]) /\ TurnBlocking(c)

SessionHasChildren(session) == \E c \in Live : child[c].parent = session

WorkflowOutstanding(run) == \E c \in Running : child[c].owner = run

\* caller_gone of the pending and active children.
CallerGone(c) ==
  c \in Running /\ ~child[c].handleOnly /\ child[c].reply = "closed"

\* The scopes of a cancel request: one session, or every session (None).
CancelScopes == {{s} : s \in Parents} \union {Parents}

(***************************************************************************)
(* Parts of the handlers                                                   *)
(***************************************************************************)

\* The end of a turn of the loop in run.
EndTurn ==
  /\ phase' = "select"
  /\ drainWaiters' = {scope \in drainWaiters : ScopeHasLiveTurnBlocking(scope)'}

MarkBackgrounded(rec) ==
  [rec EXCEPT !.reply = "none", !.handleOnly = TRUE, !.deadline = FALSE]

\* A queued caller turned QueuedCaller::Backgrounded.
BackgroundQueued(rec) == [rec EXCEPT !.reply = "none", !.deadline = FALSE]

\* Mutants of StartsFromQueue: the sweep does not count what it has just started;
\* the count of running children includes the one that would start; a cancelled
\* entry is started like any other; a spawn at its limit holds back all behind it.
StartsUncounted(Q, R, tk) ==
  {c \in Q : ~tk[c] /\ HasCapacity(Cardinality(SlotsHeld(child[c].parent, R)))}

StartsOneShort(Q, R, tk) ==
  {c \in Q : ~tk[c] /\ HasCapacity(Cardinality(SlotsHeld(child[c].parent, R)) + 1)}

StartsCancelled(Q, R, tk) ==
  {c \in Q : /\ \A d \in ahead[c] \intersect Q : child[d].parent # child[c].parent
             /\ HasCapacity(Cardinality(SlotsHeld(child[c].parent, R)))}

StartsBehindHead(Q, R, tk) ==
  {c \in Q :
     /\ ~tk[c]
     /\ \A d \in (ahead[c] \intersect Q) \union {c} :
          tk[d] \/ HasCapacity(Cardinality(SlotsHeld(child[d].parent, R))
                              + Cardinality({e \in ahead[d] \intersect Q :
                                               ~tk[e] /\ child[e].parent = child[d].parent}))}

\* start_queued_within_capacity: which of the spawns parked in Q start when the
\* children in R run. The loop visits the queue in order and counts the ones
\* it has started, so a spawn starts when the slots left over by R are not all
\* taken by live spawns of its session in front of it.
StartsFromQueue(Q, R, tk) ==
  {c \in Q :
     /\ ~tk[c]
     /\ HasCapacity(
          Cardinality(SlotsHeld(child[c].parent, R))
          + Cardinality({d \in ahead[c] \intersect Q :
                           ~tk[d] /\ child[d].parent = child[c].parent}))}

\* Mutant of StartQueued: the await budget is lost when the spawn starts.
StartQueuedLosingBudget(rec) ==
  [rec EXCEPT !.handleOnly = (rec.mode = "background" \/ rec.reply = "none"),
              !.deadline = FALSE]

\* start_child on a spawn that leaves the queue; its await budget goes on.
StartQueued(rec) ==
  [rec EXCEPT !.handleOnly = (rec.mode = "background" \/ rec.reply = "none")]

\* Mutant of OutcomeOf: a send counts as delivered though the receiver is gone.
OutcomeUnlessUnsent(rec, handleOnly, waited, cancelled) ==
  IF cancelled THEN "cancelled"
  ELSE IF /\ rec.surface /\ ~waited /\ ~rec.killed
          /\ handleOnly \/ rec.reply = "none"
       THEN "surfaced" ELSE "silent"

\* The delivery decision of finish_child for the record rec: a completion is
\* announced when nobody who asked for the result got it. A send to a receiver
\* that is gone delivers nothing.
OutcomeOf(rec, handleOnly, waited, cancelled) ==
  LET foregroundDelivered == ~handleOnly /\ rec.reply = "open"
      shouldSurface == rec.surface /\ ~foregroundDelivered /\ ~waited /\ ~rec.killed
  IN  IF cancelled THEN "cancelled"
      ELSE IF shouldSurface THEN "surfaced" ELSE "silent"

\* The record finish_child leaves in completed: the request and the outcome.
FinishedRecord(rec, outcome) ==
  [rec EXCEPT !.reply = "none", !.deadline = FALSE, !.handleOnly = FALSE,
              !.killed = FALSE, !.definitionBackground = FALSE,
              !.outcome = outcome]

\* Mutant of AnsweredWaiters: only children that ran answer their queries.
AnsweredIfRun(finished) ==
  [c \in Ids |-> IF c \in finished \intersect Running THEN 0 ELSE waiters[c]]

\* The blocking queries left once the finished children answered theirs.
AnsweredWaiters(finished) ==
  [c \in Ids |-> IF c \in finished THEN 0 ELSE waiters[c]]

\* finish_child for every child of F and the queue sweep it ends with: waiters
\* and the spawn caller are answered, the record moves to completed, spawns
\* cancelled in the queue are finished too, and freed slots go to the front of
\* the queue. ch, tk and bf are child, token and buffered as the handler left
\* them; the results of the children in C are cancelled.
FinishChildren(F, C, ch, tk, bf) ==
  LET kept     == queued \ F
      left     == Running \ F
      dropped  == {c \in kept : tk[c]}
      started  == StartsFromQueue(kept, left, tk)
      finished == F \union dropped
      out      == [c \in finished |->
                     OutcomeOf(ch[c],
                               IF c \in Running THEN ch[c].handleOnly
                                                ELSE ch[c].mode = "background",
                               waiters[c] > 0,
                               c \in C \union dropped)]
  IN  /\ queued' = kept \ (dropped \union started)
      /\ ahead' = [c \in Ids |-> IF c \in queued' THEN ahead[c] \intersect queued'
                                                  ELSE {}]
      /\ pending' = (pending \ F) \union started
      /\ active' = active \ F
      /\ completed' = completed \union finished
      /\ child' = [c \in Ids |->
                     IF c \in finished THEN FinishedRecord(ch[c], out[c])
                     ELSE IF c \in started THEN StartQueued(ch[c]) ELSE ch[c]]
      /\ token' = tk
      /\ waiters' = AnsweredWaiters(finished)
      /\ buffered' = bf \union
           {c \in finished : /\ BufferCompletions /\ ch[c].surface
                             /\ ~IsWorkflow(ch[c].owner)}
      /\ workflowCancelWaiters' =
           {run \in workflowCancelWaiters : WorkflowOutstanding(run)'}

\* resolve_teardown_drain_waiters after children finished, on the given drains
\* and blocks: a drain whose session has no child left is answered and its
\* session's admission reopens.
ResolveTeardownDrains(drains, blocked) ==
  LET drained == {s \in drains : ~SessionHasChildren(s)'}
  IN  /\ teardownDrains' = drains \ drained
      /\ spawnBlocked' = blocked \ drained

\* A handler that edits records and tokens and finishes nobody.
EditChildren(ch, tk, bf) ==
  /\ child' = ch /\ token' = tk /\ buffered' = bf
  /\ UNCHANGED <<queued, ahead, pending, active, completed, waiters,
                 workflowCancelWaiters>>

\* remove_queued for the spawns of S, with ch and tk as the handler left them.
RemoveQueued(S, ch, tk, bf) ==
  IF S = {} THEN EditChildren(ch, tk, bf)
  ELSE FinishChildren(S, S, ch, [c \in Ids |-> c \in S \/ tk[c]], bf)

CancelTokens(S) == [c \in Ids |-> c \in S \/ token[c]]

(***************************************************************************)
(* The environment: tokens are cancelled and receivers are dropped by other *)
(* threads at any time.                                                    *)
(***************************************************************************)

\* Whoever holds the request's token cancels it (the tool-cancellation
\* forwarder of TaskTool::run, the drop guard of ChannelBackend).
CancelToken(c) ==
  /\ c \in Live /\ ~token[c]
  /\ token' = [token EXCEPT ![c] = TRUE]
  /\ UNCHANGED <<phase, queued, ahead, pending, active, completed, child,
                 waiters, drainWaiters, workflowCancelWaiters, teardownDrains,
                 spawnBlocked, buffered>>

\* The caller of a spawn drops its result receiver.
DropCaller(c) ==
  /\ child[c].reply = "open"
  /\ child' = [child EXCEPT ![c].reply = "closed"]
  /\ UNCHANGED <<phase, queued, ahead, pending, active, completed, token,
                 waiters, drainWaiters, workflowCancelWaiters, teardownDrains,
                 spawnBlocked, buffered>>

\* A client abandons its blocking query.
AbandonQuery(c) ==
  /\ waiters[c] > 0
  /\ waiters' = [waiters EXCEPT ![c] = @ - 1]
  /\ UNCHANGED <<phase, queued, ahead, pending, active, completed, child,
                 token, drainWaiters, workflowCancelWaiters, teardownDrains,
                 spawnBlocked, buffered>>

\* Whoever waits for a prompt to drain gives up; the waiter is dropped.
AbandonDrainWait(scope) ==
  /\ scope \in drainWaiters
  /\ drainWaiters' = drainWaiters \ {scope}
  /\ UNCHANGED <<phase, queued, ahead, pending, active, completed, child, token,
                 waiters, workflowCancelWaiters, teardownDrains, spawnBlocked,
                 buffered>>

(***************************************************************************)
(* The sweep before commands and deadlines                                 *)
(***************************************************************************)

\* What background_if_caller_gone and the queued leg of the sweep leave of c.
Reaped(c) ==
  CASE CallerGone(c) /\ CancelOnReceiverDrop(child[c].owner) ->
         [child[c] EXCEPT !.reply = "none"]
    [] CallerGone(c) /\ ~CancelOnReceiverDrop(child[c].owner) ->
         MarkBackgrounded(child[c])
    [] c \in queued /\ child[c].reply = "closed" -> BackgroundQueued(child[c])
    [] OTHER -> child[c]

\* Mutants of TimerArmed: the queue, or a delete, arms no timer of its own.
TimerNotArmedByQueue ==
  \/ teardownDrains # {}
  \/ \E c \in Live : child[c].deadline \/ waiters[c] > 0

TimerNotArmedByDrain ==
  \/ queued # {}
  \/ \E c \in Live : child[c].deadline \/ waiters[c] > 0

\* next_deadline is there: a parked spawn (the sweep interval), a delete's
\* backstop, an await budget or a blocking query.
TimerArmed ==
  \/ queued # {} \/ teardownDrains # {}
  \/ \E c \in Live : child[c].deadline \/ waiters[c] > 0

\* reap_abandoned_callers, on the way to a command, to the deadlines, or alone
\* when poll_caller_abandoned reports a dropped receiver.
Reap(next) ==
  /\ phase = "select"
  /\ CASE next = "command"   -> TRUE
       [] next = "deadlines" -> TimerArmed
       [] next = "select"    -> \E c \in Ids : CallerGone(c)
  /\ LET orphans == {c \in Ids : CallerGone(c)
                                 /\ CancelOnReceiverDrop(child[c].owner)}
     IN  RemoveQueued({c \in queued : token[c]}, [c \in Ids |-> Reaped(c)],
                      CancelTokens(orphans), buffered)
  /\ ResolveTeardownDrains(teardownDrains, spawnBlocked)
  /\ IF next = "select" THEN EndTurn
     ELSE phase' = next /\ UNCHANGED drainWaiters

(***************************************************************************)
(* Commands                                                                *)
(***************************************************************************)

\* reparent_nested_spawn: a spawn sent by an active child is keyed to the
\* child's parent session.
IsNested(r) == r.parent \in active
SpawnParent(r) == IF IsNested(r) THEN child[r.parent].parent ELSE r.parent
SpawnOwner(r) ==
  IF IsNested(r) /\ ~IsWorkflow(r.owner) /\ IsWorkflow(child[r.parent].owner)
  THEN child[r.parent].owner
  ELSE r.owner

\* A session that can send spawns: a root, or a child whose session was created.
CanSpawn(session) == session \in Ids => child[session].hasSession

SpawnRefused(r, cancelled) ==
  \/ IsNested(r) /\ token[r.parent]
  \/ cancelled
  \/ ~IsWorkflow(SpawnOwner(r)) /\ SpawnParent(r) \in spawnBlocked
  \/ r.id \in Live \union completed

SpawnRecord(r, reply) ==
  [parent |-> SpawnParent(r),
   team |-> IF r.parent \in Roots THEN r.parent ELSE child[r.parent].team,
   prompt |-> r.prompt, owner |-> SpawnOwner(r), mode |-> r.mode,
   surface |-> r.surface /\ ~IsNested(r),
   reply |-> IF r.mode = "background" THEN "none" ELSE reply,
   deadline |-> AwaitsInForeground(r.mode),
   handleOnly |-> r.mode = "background", killed |-> FALSE,
   definitionBackground |-> FALSE, hasSession |-> FALSE, outcome |-> None]

\* Mutant of AdmitStarts: children that have not reported live are not counted.
AdmitCountingActive(owner, session) ==
  IsWorkflow(owner) \/ HasCapacity(Cardinality(SlotsHeld(session, active)))

\* Admission::admit.
AdmitStarts(owner, session) ==
  IsWorkflow(owner) \/ HasCapacity(Cardinality(SlotsHeld(session, Running)))

\* Mutant of PushBack: the new spawn goes to the front.
PushFront(c) ==
  /\ queued' = queued \union {c}
  /\ ahead' = [d \in Ids |-> IF d \in queued THEN ahead[d] \union {c} ELSE {}]

\* push_back.
PushBack(c) ==
  /\ queued' = queued \union {c}
  /\ ahead' = [ahead EXCEPT ![c] = queued]

\* handle_spawn of a refused request: only the caller hears of it.
SpawnRefusal(r, cancelled) ==
  /\ phase = "command" /\ CanSpawn(r.parent)
  /\ SpawnRefused(r, cancelled)
  /\ UNCHANGED <<queued, ahead, pending, active, completed, child, token,
                 waiters, workflowCancelWaiters, teardownDrains, spawnBlocked,
                 buffered>>
  /\ EndTurn

\* handle_spawn of an admitted request, whose caller waits or is already gone.
SpawnStart(r, reply) ==
  /\ phase = "command" /\ CanSpawn(r.parent)
  /\ ~SpawnRefused(r, FALSE)
  /\ AdmitStarts(SpawnOwner(r), SpawnParent(r))
  /\ pending' = pending \union {r.id}
  /\ child' = [child EXCEPT ![r.id] = SpawnRecord(r, reply)]
  /\ token' = [token EXCEPT ![r.id] = FALSE]
  /\ UNCHANGED <<queued, ahead, active, completed, waiters,
                 workflowCancelWaiters, teardownDrains, spawnBlocked, buffered>>
  /\ EndTurn

SpawnEnqueue(r, reply) ==
  /\ phase = "command" /\ CanSpawn(r.parent)
  /\ ~SpawnRefused(r, FALSE)
  /\ ~AdmitStarts(SpawnOwner(r), SpawnParent(r)) /\ ~FailAtLimit
  /\ PushBack(r.id)
  /\ child' = [child EXCEPT ![r.id] = SpawnRecord(r, reply)]
  /\ token' = [token EXCEPT ![r.id] = FALSE]
  /\ UNCHANGED <<pending, active, completed, waiters, workflowCancelWaiters,
                 teardownDrains, spawnBlocked, buffered>>
  /\ EndTurn

\* A spawn refused at the limit goes through finish_never_started and stays
\* queryable as a failed record.
SpawnFail(r, reply) ==
  /\ phase = "command" /\ CanSpawn(r.parent)
  /\ ~SpawnRefused(r, FALSE)
  /\ ~AdmitStarts(SpawnOwner(r), SpawnParent(r)) /\ FailAtLimit
  /\ FinishChildren({r.id}, {}, [child EXCEPT ![r.id] = SpawnRecord(r, reply)],
                    [token EXCEPT ![r.id] = FALSE], buffered)
  /\ ResolveTeardownDrains(teardownDrains, spawnBlocked)
  /\ EndTurn

\* cancel_one.
CancelSubagent(c, scope) ==
  /\ phase = "command"
  /\ c \in Live /\ child[c].parent \in scope
  /\ IF c \in Running
     THEN EditChildren([child EXCEPT ![c].killed = TRUE], CancelTokens({c}),
                       buffered)
     ELSE RemoveQueued({c}, child, token, buffered)
  /\ ResolveTeardownDrains(teardownDrains, spawnBlocked)
  /\ EndTurn

\* cancel_parent_prompt.
CancelParentPrompt(prompt, scope) ==
  LET matches(c) == child[c].prompt = prompt /\ child[c].parent \in scope
  IN  /\ phase = "command"
      /\ RemoveQueued({c \in queued : matches(c)}, child,
                      CancelTokens({c \in Running : matches(c)}), buffered)
      /\ ResolveTeardownDrains(teardownDrains, spawnBlocked)
      /\ EndTurn

\* Mutant of CancelParentSession: a child between its start and its report as
\* live is missed.
StopMissingPending(session) ==
  LET matches(c) == child[c].parent = session /\ ~IsWorkflow(child[c].owner)
  IN  /\ phase = "command"
      /\ RemoveQueued({c \in queued : matches(c)}, child,
                      CancelTokens({c \in active : matches(c)}), buffered)
      /\ ResolveTeardownDrains(teardownDrains, spawnBlocked \union {session})
      /\ EndTurn

\* cancel_parent_session: user Stop. Workflow children are spared.
CancelParentSession(session) ==
  LET matches(c) == child[c].parent = session /\ ~IsWorkflow(child[c].owner)
  IN  /\ phase = "command"
      /\ RemoveQueued({c \in queued : matches(c)}, child,
                      CancelTokens({c \in Running : matches(c)}), buffered)
      /\ ResolveTeardownDrains(teardownDrains, spawnBlocked \union {session})
      /\ EndTurn

\* Mutant of CancelWorkflowRun: the responder is parked though nothing is left.
WorkflowCancelAlwaysParked(run, scope) ==
  LET matches(c) == child[c].owner = run /\ child[c].parent \in scope
  IN  /\ phase = "command"
      /\ token' = CancelTokens({c \in Running : matches(c)})
      /\ workflowCancelWaiters' = workflowCancelWaiters \union {run}
      /\ UNCHANGED <<queued, ahead, pending, active, completed, child, waiters,
                     teardownDrains, spawnBlocked, buffered>>
      /\ EndTurn

\* Cancel of a workflow run: the children of the run in scope are cancelled and
\* the responder is parked until no child of the run is left in any session.
CancelWorkflowRun(run, scope) ==
  LET matches(c) == child[c].owner = run /\ child[c].parent \in scope
  IN  /\ phase = "command"
      /\ token' = CancelTokens({c \in Running : matches(c)})
      /\ workflowCancelWaiters' =
           IF WorkflowOutstanding(run) THEN workflowCancelWaiters \union {run}
                                       ELSE workflowCancelWaiters
      /\ UNCHANGED <<queued, ahead, pending, active, completed, child, waiters,
                     teardownDrains, spawnBlocked, buffered>>
      /\ EndTurn

\* Mutant of Silenced: the child still surfaces its completion.
NotSilenced(rec) == rec

\* The parent is gone: the completion is for nobody.
Silenced(rec) == [rec EXCEPT !.surface = FALSE]

\* TeardownSession, with (deleting) or without a responder: every child of the
\* session is cancelled and keeps its completion to itself; a deleting teardown
\* closes admission and parks the responder while children are left.
TeardownSession(session, deleting) ==
  LET mine(c) == child[c].parent = session
      opened  == IF deleting /\ SessionHasChildren(session)' THEN {session} ELSE {}
      drained == {s \in teardownDrains : ~SessionHasChildren(s)'}
  IN  /\ phase = "command"
      /\ RemoveQueued({c \in queued : mine(c)},
                      [c \in Ids |->
                         IF c \in Live /\ mine(c)
                         THEN Silenced(child[c]) ELSE child[c]],
                      CancelTokens({c \in Running : mine(c)}),
                      {c \in buffered : ~mine(c)})
      /\ teardownDrains' = (teardownDrains \ drained) \union opened
      /\ spawnBlocked' = (spawnBlocked \ drained) \union opened
      /\ EndTurn

\* Mutant of OpenSpawnAdmission: the next turn reopens a session being deleted.
OpenDuringDelete(session) ==
  /\ phase = "command"
  /\ spawnBlocked' = spawnBlocked \ {session}
  /\ UNCHANGED <<queued, ahead, pending, active, completed, child, token,
                 waiters, workflowCancelWaiters, teardownDrains, buffered>>
  /\ EndTurn

\* OpenSpawnAdmission: the next turn reopens what Stop closed, but not a
\* session that is being deleted.
OpenSpawnAdmission(session) ==
  /\ phase = "command"
  /\ spawnBlocked' = IF session \in teardownDrains THEN spawnBlocked
                                                   ELSE spawnBlocked \ {session}
  /\ UNCHANGED <<queued, ahead, pending, active, completed, child, token,
                 waiters, workflowCancelWaiters, teardownDrains, buffered>>
  /\ EndTurn

\* HandOffForeground: an interrupted turn gives up its foreground children.
HandOffForeground(session, prompt) ==
  LET handedOff(c) == child[c].mode # "background"
                      /\ RequestInScope(c, session, prompt)
  IN  /\ phase = "command"
      /\ child' = [c \in Ids |->
           CASE c \in Running /\ handedOff(c) /\ child[c].reply # "none" ->
                  MarkBackgrounded(child[c])
             [] c \in queued /\ handedOff(c) -> BackgroundQueued(child[c])
             [] OTHER -> child[c]]
      /\ UNCHANGED <<queued, ahead, pending, active, completed, token, waiters,
                     workflowCancelWaiters, teardownDrains, spawnBlocked,
                     buffered>>
      /\ EndTurn

\* WaitPromptDrained: answered at once, or parked while the scope has a child
\* that blocks the turn.
WaitPromptDrained(session, prompt) ==
  /\ phase = "command" /\ phase' = "select"
  /\ drainWaiters' = {scope \in drainWaiters \union {<<session, prompt>>} :
                        ScopeHasLiveTurnBlocking(scope)}
  /\ UNCHANGED <<queued, ahead, pending, active, completed, child, token,
                 waiters, workflowCancelWaiters, teardownDrains, spawnBlocked,
                 buffered>>

\* handle_query with block: parked on a live child that no workflow owns.
BlockingQuery(c) ==
  /\ phase = "command"
  /\ c \in Live /\ ~IsWorkflow(child[c].owner) /\ waiters[c] < MaxWaiters
  /\ waiters' = [waiters EXCEPT ![c] = @ + 1]
  /\ UNCHANGED <<queued, ahead, pending, active, completed, child, token,
                 workflowCancelWaiters, teardownDrains, spawnBlocked, buffered>>
  /\ EndTurn

\* Completions: the session takes its buffered completions.
TakeCompletions(session) ==
  /\ phase = "command"
  /\ buffered' = {c \in buffered : child[c].parent # session}
  /\ UNCHANGED <<queued, ahead, pending, active, completed, child, token,
                 waiters, workflowCancelWaiters, teardownDrains, spawnBlocked>>
  /\ EndTurn

\* A command that reads, or that finds nothing to change.
ReadOnlyCommand ==
  /\ phase = "command"
  /\ UNCHANGED <<queued, ahead, pending, active, completed, child, token,
                 waiters, workflowCancelWaiters, teardownDrains, spawnBlocked,
                 buffered>>
  /\ EndTurn

(***************************************************************************)
(* Wakes, the runner and the deadlines                                     *)
(***************************************************************************)

\* The request of a wake: the identity of the finished child, in the
\* background, with a fresh token and no prompt, caller or surfacing.
WakeRecord(rec) ==
  [rec EXCEPT !.prompt = None, !.mode = "background", !.surface = FALSE,
              !.handleOnly = TRUE, !.outcome = None]

CanWake(c) ==
  /\ SupportsWake
  /\ c \in completed /\ ~IsWorkflow(child[c].owner)
  /\ child[c].parent \notin spawnBlocked

\* displace_completed.
DisplaceCompleted(c) == completed' = completed \ {c}

\* wake_completed_child, reached from a command or from a message of its own.
\* At the limit a failing admission leaves the record where it is.
WakeCompleted(c) ==
  /\ phase \in {"select", "command"}
  /\ CanWake(c)
  /\ LET starts == AdmitStarts(child[c].owner, child[c].parent)
     IN  /\ starts \/ ~FailAtLimit
         /\ IF starts THEN /\ pending' = pending \union {c}
                           /\ UNCHANGED <<queued, ahead>>
                      ELSE PushBack(c) /\ UNCHANGED pending
  /\ DisplaceCompleted(c)
  /\ child' = [child EXCEPT ![c] = WakeRecord(@)]
  /\ token' = [token EXCEPT ![c] = FALSE]
  /\ UNCHANGED <<active, waiters, workflowCancelWaiters, teardownDrains,
                 spawnBlocked, buffered>>
  /\ EndTurn

\* The record of a child that reports live; the agent definition's background
\* flag matters while the child blocks the turn.
StartedRecord(rec, background) ==
  [rec EXCEPT !.definitionBackground = (background /\ ~rec.handleOnly),
              !.hasSession = TRUE]

\* InternalEvent::Started: promotion, unless cancellation came first (then the
\* runner is told so and nothing changes).
Started(c, background) ==
  /\ phase = "select"
  /\ c \in pending /\ ~token[c]
  /\ pending' = pending \ {c}
  /\ active' = active \union {c}
  /\ child' = [child EXCEPT ![c] = StartedRecord(@, background)]
  /\ UNCHANGED <<queued, ahead, completed, token, waiters,
                 workflowCancelWaiters, teardownDrains, spawnBlocked, buffered>>
  /\ EndTurn

\* A child run ended (or panicked): begin_terminalization and finish_child. The
\* runner decides whether the result counts as cancelled.
RunEnded(c, cancelled) ==
  /\ phase = "select"
  /\ c \in Running
  /\ FinishChildren({c}, IF cancelled THEN {c} ELSE {}, child, token, buffered)
  /\ ResolveTeardownDrains(teardownDrains, spawnBlocked)
  /\ EndTurn

\* The blocking queries left when one on each child of the set is due.
ExpiredQueries(queries) ==
  [c \in Ids |-> IF c \in queries THEN waiters[c] - 1 ELSE waiters[c]]

\* process_deadlines, after its reap: the drains, await budgets and queries of
\* the given sets are due.
ProcessDeadlines(drains, callers, queries) ==
  /\ phase = "deadlines"
  /\ drains \subseteq teardownDrains
  /\ callers \subseteq {c \in Live : child[c].deadline}
  /\ queries \subseteq {c \in Live : waiters[c] > 0}
  /\ teardownDrains' = teardownDrains \ drains
  /\ spawnBlocked' = spawnBlocked \ drains
  /\ child' = [c \in Ids |->
       CASE c \in callers /\ c \in Running -> MarkBackgrounded(child[c])
         [] c \in callers /\ c \in queued -> BackgroundQueued(child[c])
         [] OTHER -> child[c]]
  /\ waiters' = ExpiredQueries(queries)
  /\ UNCHANGED <<queued, ahead, pending, active, completed, token,
                 workflowCancelWaiters, buffered>>
  /\ EndTurn

(***************************************************************************)
(* The specification                                                       *)
(***************************************************************************)

Environment ==
  \/ \E c \in Ids : CancelToken(c) \/ DropCaller(c) \/ AbandonQuery(c)
  \/ \E scope \in drainWaiters : AbandonDrainWait(scope)

SpawnCommand ==
  \E r \in Requests :
    \/ \E cancelled \in BOOLEAN : SpawnRefusal(r, cancelled)
    \/ \E reply \in {"open", "closed"} :
         SpawnStart(r, reply) \/ SpawnEnqueue(r, reply) \/ SpawnFail(r, reply)

CancelCommand ==
  \/ \E scope \in CancelScopes :
       \/ \E c \in Ids : CancelSubagent(c, scope)
       \/ \E prompt \in Prompts : CancelParentPrompt(prompt, scope)
       \/ \E run \in Runs : CancelWorkflowRun(run, scope)
  \/ \E session \in Parents :
       \/ CancelParentSession(session)
       \/ \E deleting \in BOOLEAN : TeardownSession(session, deleting)
       \/ OpenSpawnAdmission(session)

TurnCommand ==
  \/ \E session \in Parents, prompt \in Prompts :
       HandOffForeground(session, prompt) \/ WaitPromptDrained(session, prompt)
  \/ \E c \in Ids : BlockingQuery(c)
  \/ \E session \in Parents : TakeCompletions(session)
  \/ ReadOnlyCommand

Runner ==
  \E c \in Ids, flag \in BOOLEAN : Started(c, flag) \/ RunEnded(c, flag)

Deadlines ==
  \E drains \in SUBSET Parents, callers, queries \in SUBSET Ids :
    ProcessDeadlines(drains, callers, queries)

Next ==
  \/ Environment
  \/ \E next \in {"select", "command", "deadlines"} : Reap(next)
  \/ SpawnCommand
  \/ CancelCommand
  \/ TurnCommand
  \/ \E c \in Ids : WakeCompleted(c)
  \/ Runner
  \/ Deadlines

Spec == Init /\ [][Next]_vars

(***************************************************************************)
(* Fairness. A turn that began ends. The timer branch of the loop is last   *)
(* in its biased select: it runs because commands do not arrive faster than *)
(* the actor handles them for ever, and a timer that is due stays due until *)
(* a pass serves it. Nothing is assumed of the child runs in TimerSpec;     *)
(* RunsEnd, that every run ends, is a hypothesis where it is needed.        *)
(***************************************************************************)

CommandStep == SpawnCommand \/ CancelCommand \/ TurnCommand

DrainDue(s) ==
  \E drains \in SUBSET Parents, callers, queries \in SUBSET Ids :
    s \in drains /\ ProcessDeadlines(drains, callers, queries)

CallerDue(c) ==
  \E drains \in SUBSET Parents, callers, queries \in SUBSET Ids :
    c \in callers /\ ProcessDeadlines(drains, callers, queries)

TimerSpec ==
  /\ Spec
  /\ WF_vars(CommandStep) /\ WF_vars(Deadlines)
  /\ SF_vars(Reap("deadlines"))
  /\ \A s \in Parents : SF_vars(DrainDue(s))
  /\ \A c \in Ids : SF_vars(CallerDue(c))

RunsEnd ==
  \A c \in Ids : SF_vars(\E cancelled \in BOOLEAN : RunEnded(c, cancelled))

(***************************************************************************)
(* What must always hold                                                   *)
(***************************************************************************)

\* No id stands in two collections at once: handle_spawn checks all four,
\* promotion, dequeue and wake move a record and never copy it.
OneRecordPerId ==
  /\ queued \intersect Running = {} /\ pending \intersect active = {}
  /\ completed \intersect Live = {}

\* Never more than the limit of children that hold slots of one session, however
\* spawns, wakes and dequeues interleave.
CapacityBound ==
  \A s \in Sessions : Cardinality(SlotsHeld(s, Running)) <= Limit

\* A spawn waits only while its own session is at the limit: every freed slot is
\* handed on in the turn that frees it and another session's queue is never in
\* the way. run relies on it to leave its loop without looking at the queue.
QueuedAtCapacity ==
  \A c \in queued :
    Cardinality(SlotsHeld(child[c].parent, Running)) >= Limit

\* Workflow spawns bypass admission and never queue (the debug_assert of
\* handle_spawn), not even those a nested spawn inherits from its spawner.
QueuedNotWorkflow == \A c \in queued : ~IsWorkflow(child[c].owner)

\* While a session's admission is closed by Stop or delete, none of its spawns
\* waits in the queue and every child of it that no workflow owns has been told
\* to stop: no spawn, wake or dequeue slipped in.
StopIsComplete ==
  \A c \in Live :
    /\ child[c].parent \in spawnBlocked
    /\ ~IsWorkflow(child[c].owner)
    => c \in Running /\ token[c]

\* A parked delete is waiting for a child that is really there, with admission
\* closed all the while.
DrainHasChildren ==
  \A s \in teardownDrains : s \in spawnBlocked /\ SessionHasChildren(s)

\* A parked workflow cancel is waiting for a child of that run.
WorkflowCancelJustified ==
  \A run \in workflowCancelWaiters : WorkflowOutstanding(run)

\* A blocking query is parked on a child that can still finish.
WaitersOnLive == \A c \in Ids : waiters[c] > 0 => c \in Live

\* The queue is a queue: spawns in front are parked too, of two parked spawns one
\* is in front, and any group of them has a first.
QueueOrdered ==
  /\ \A c \in Ids : ahead[c] \subseteq queued
  /\ \A c, d \in queued : c # d => c \in ahead[d] \/ d \in ahead[c]
  /\ \A group \in SUBSET queued :
       group # {} => \E c \in group : ahead[c] \intersect group = {}

\* Every spawn the actor knows is keyed to a session.
KeyedToSession == \A c \in Live \union completed : child[c].parent \in Sessions

\* The conjunction that every step preserves, whatever handler, sweep or other
\* thread takes it.
Safety ==
  /\ TypeOK /\ OneRecordPerId /\ KeyedToSession /\ QueuedNotWorkflow /\ QueueOrdered
  /\ CapacityBound /\ QueuedAtCapacity
  /\ StopIsComplete /\ DrainHasChildren
  /\ WorkflowCancelJustified /\ WaitersOnLive

(***************************************************************************)
(* What no step may do                                                     *)
(***************************************************************************)

\* Dequeue is first in, first out within a session: a spawn that leaves the
\* queue to start leaves no spawn of its session behind that stood in front, and
\* nothing is ever put in front of a spawn that waits.
StartsInOrder ==
  /\ \A c \in queued \intersect pending' :
       \A d \in ahead[c] : child[d].parent = child[c].parent => d \notin queued'
  /\ \A c \in queued \intersect queued' : ahead'[c] \subseteq ahead[c]

\* NoOvertaking: no step starts a queued spawn ahead of an older one of its session.
NoOvertaking == [][StartsInOrder]_vars

\* A spawn cancelled while queued never starts, whichever of its canceller, the
\* freed slot and the sweep comes first.
StartsLive == \A c \in queued : token[c] => c \notin pending'

\* CancelledNeverStarts: no step starts a queued spawn whose token is cancelled.
CancelledNeverStarts == [][StartsLive]_vars

\* The step that ends a child answers the spawn caller and every blocking query that
\* still wait for it, both when both do; and unless the child was cancelled, it
\* announces the completion to the parent exactly when neither gets the result, the
\* spawn asked for an announcement and nobody killed the child. A spawn that asked for
\* none may end unheard. All this whatever the caller, its await budget, a hand-off
\* and the queries did before.
AnnouncedIfUnheard ==
  [][\A c \in Live \intersect completed' :
       LET heard == \/ child[c].reply = "open" /\ child[c].mode # "background"
                    \/ waiters[c] > 0
       IN  /\ child'[c].reply = "none" /\ waiters'[c] = 0
           /\ child'[c].outcome # "cancelled" =>
                (child'[c].outcome = "surfaced"
                   <=> ~heard /\ child[c].surface /\ ~child[c].killed)]_vars

\* A child that a delete is waiting for leaves no completion behind for a later
\* resume of the same session id.
TeardownSilences ==
  [][\A c \in buffered' \ buffered : child[c].parent \notin teardownDrains]_vars

\* Once Stop or delete has closed a root session, no spawn from its tree is
\* admitted unless a workflow owns it: what the comment on spawn_blocked_sessions
\* promises of a detached late spawn.
LateSpawnCannotOutrunStop ==
  [][\A c \in Live' \ (Live \union completed) :
       child'[c].team \in spawnBlocked => IsWorkflow(child'[c].owner)]_vars

(***************************************************************************)
(* What must happen                                                        *)
(***************************************************************************)

\* A spawn whose token is cancelled while it is queued is resolved, though
\* cancelling a token wakes nobody: the sweep timer is armed by the queue alone.
CancelledQueuedResolved ==
  \A c \in Ids : (c \in queued /\ token[c]) ~> c \notin queued

\* A delete is answered even when a cancelled child never finishes.
TeardownAnswered == \A s \in Sessions : (s \in teardownDrains) ~> (s \notin teardownDrains)

\* A caller with an await budget hears back, though its child may be queued,
\* start late and never finish.
BudgetHonoured ==
  \A c \in Ids :
    (c \in Live /\ AwaitsInForeground(child[c].mode) /\ child[c].reply = "open")
      ~> (child[c].reply # "open")

\* With runs that end, no spawn is parked for ever.
QueueDrains == RunsEnd => \A c \in Ids : (c \in queued) ~> (c \notin queued)
=============================================================================
