---------------------------- MODULE CodeModeCell ----------------------------
(***************************************************************************)
(* One cell of a code mode session (crate xai-grok-code-mode): a script     *)
(* that runs on a V8 thread, the actor that owns it, the callers that       *)
(* observe or terminate it and the session that starts it and shuts down.   *)
(*                                                                          *)
(* Four kinds of thread meet here. The runtime thread emits events and      *)
(* stops at every frontier until the actor lets it go on. The actor         *)
(* (run_cell) is a loop over a select whose handlers await callbacks.       *)
(* Callers put observations in the actor's channel, may drop the future     *)
(* they were given, and settle a termination themselves under the mutex of  *)
(* CellState, "the single linearization point for a cell's terminal         *)
(* outcome". Shutdown cancels the token that the cell's token is a child of.*)
(*                                                                          *)
(* The select of the actor is biased, which orders the branches that are    *)
(* ready at one poll; another thread may make an earlier branch ready       *)
(* between two polls, so no branch here waits for an earlier one.           *)
(***************************************************************************)
EXTENDS Naturals, Sequences

CONSTANTS
  Calls,     \* observation calls, the one that comes with execute included
  Initial,   \* the call that comes with execute
  Killers,   \* terminate calls
  MaxEmits   \* bound: output items, yields and callbacks of the script

ASSUME CallsAssumption == Initial \in Calls
ASSUME EmitsAssumption == MaxEmits \in Nat

VARIABLES
  session,   \* the session: shutdown token, registry entry, shutdown call
  cell,      \* CellState: phase, buffered event, parked terminator, token; stored values
  actor,     \* the locals of run_cell and where it stands
  inbox,     \* CellCommand::Observe messages on their way to the actor
  events,    \* RuntimeEvent messages on their way to the actor
  runtime,   \* the runtime thread, its two channels and the V8 kill switch
  running,   \* callbacks that run: notifications and nested tool calls
  calls,     \* the observation calls and what they were told
  kills,     \* the terminate calls and what they were told
  told       \* the output that went out in yields and frontiers, in order

vars == <<session, cell, actor, inbox, events, runtime, running, calls, kills, told>>

None == "none"

Modes == {"yield_after", "frontier"}
Items == Seq(1..MaxEmits)

\* CellEvent and CellError, as the callers see them.
Kinds == {"none", "yielded", "pending", "completed", "terminated",
          "busy", "closed", "missing", "already"}
Terminal == {"completed", "terminated"}
Answers == [kind : Kinds, items : Items]

Say(kind) == [kind |-> kind, items |-> <<>>]
Event(kind, items) == [kind |-> kind, items |-> items]

CallStates == {"idle", "checked", "waiting", "dropped", "done"}
Phases == {"running", "terminating", "completed", "claimed", "tombstone"}
Emissions == {"item", "yield", "notify", "tool"}
RuntimeEvents ==
  [kind : Emissions \union {"started", "pending", "result", "panicked"}, item : 0..MaxEmits]

\* The session, CellState, the locals of run_cell and the runtime thread.
Sessions ==
  [down : BOOLEAN, entry : {"absent", "checked", "refused", "open", "removed"},
   call : {"idle", "begun", "returned"}]
Cells ==
  [phase : Phases, event : Answers, killer : Killers \union {None},
   cancelled : BOOLEAN, stored : BOOLEAN]
Locals ==
  [at : {"off", "loop", "notes", "tools", "commit", "deliver", "left", "done"},
   next : {"terminate", "complete", "close"}, termination : BOOLEAN, closed : BOOLEAN,
   paused : BOOLEAN, ready : BOOLEAN, observer : Calls \union {None}, timer : BOOLEAN,
   open : BOOLEAN, content : Items, rejected : Answers, quiet : BOOLEAN]
Threads ==
  [at : {"off", "start", "script", "poll", "control", "command", "ended"},
   commands : Seq({"response", "poke", "terminate"}),
   control : Seq({"continue", "resume", "terminate"}),
   killed : BOOLEAN, emitted : 0..MaxEmits, items : 0..MaxEmits]

TypeOK ==
  /\ session \in Sessions /\ cell \in Cells /\ actor \in Locals /\ runtime \in Threads
  /\ inbox \in Seq(Calls)
  /\ events \in Seq(RuntimeEvents)
  /\ running \in [notes : Nat, tools : Nat]
  /\ calls \in [Calls -> [st : CallStates, mode : Modes, got : Answers]]
  /\ kills \in [Killers -> [st : {"idle", "waiting", "done"}, got : Answers]]
  /\ told \in Items

Init ==
  /\ session = [down |-> FALSE, entry |-> "absent", call |-> "idle"]
  /\ cell = [phase |-> "running", event |-> Say("none"), killer |-> None,
             cancelled |-> FALSE, stored |-> FALSE]
  /\ actor = [at |-> "off", next |-> "close", termination |-> FALSE, closed |-> FALSE,
              paused |-> FALSE, ready |-> FALSE, observer |-> None, timer |-> FALSE,
              open |-> FALSE, content |-> <<>>, rejected |-> Say("none"), quiet |-> FALSE]
  /\ inbox = <<>> /\ events = <<>>
  /\ runtime = [at |-> "off", commands |-> <<>>, control |-> <<>>, killed |-> FALSE,
                emitted |-> 0, items |-> 0]
  /\ running = [notes |-> 0, tools |-> 0]
  /\ calls = [c \in Calls |-> [st |-> "idle", mode |-> "yield_after", got |-> Say("none")]]
  /\ kills = [k \in Killers |-> [st |-> "idle", got |-> Say("none")]]
  /\ told = <<>>

(***************************************************************************)
(* Answers and channels                                                    *)
(***************************************************************************)

\* The cell's token is a child of the session's.
Cancelled == cell.cancelled \/ session.down

\* A oneshot send reaches a caller whose future lives; otherwise the sender gets
\* its value back.
Listening(c) == c # None /\ calls[c].st = "waiting"

Told(cs, c, answer) ==
  IF c # None /\ cs[c].st = "waiting"
  THEN [cs EXCEPT ![c].st = "done", ![c].got = answer]
  ELSE cs

\* Dropping the inbox drops the senders in it.
Hangup(cs) ==
  [c \in Calls |->
     IF cs[c].st = "waiting" /\ \E i \in DOMAIN inbox : inbox[i] = c
     THEN [cs[c] EXCEPT !.st = "done", !.got = Say("closed")]
     ELSE cs[c]]

\* Mutant of BeginTermination: the control channel is forgotten.
TerminateCommandOnly(rt) ==
  IF rt.at = "ended" THEN rt
  ELSE [rt EXCEPT !.commands = Append(@, "terminate"), !.killed = TRUE]

\* The kill switch: both channels and terminate_execution.
BeginTermination(rt) ==
  IF rt.at = "ended" THEN rt
  ELSE [rt EXCEPT !.commands = Append(@, "terminate"),
                  !.control = Append(@, "terminate"), !.killed = TRUE]

\* What the runtime sends; nobody receives it once the actor is gone.
Emit(kind, item) ==
  events' = IF actor.at = "done" THEN events
            ELSE Append(events, [kind |-> kind, item |-> item])

(***************************************************************************)
(* The session: execute, observe, terminate, shutdown                      *)
(***************************************************************************)

\* execute looks at the shutdown token before it allocates an id.
Execute ==
  /\ session.entry = "absent"
  /\ session' = [session EXCEPT !.entry = IF session.down THEN "refused" ELSE "checked"]
  /\ UNCHANGED <<cell, actor, inbox, events, runtime, running, calls, kills, told>>

\* The insertion and the spawn; alone, without the second look at the token, it is the
\* mutant of StartCell.
StartCellUnchecked(mode) ==
  /\ session.entry = "checked"
  /\ session' = [session EXCEPT !.entry = "open"]
  /\ actor' = [actor EXCEPT !.at = "loop", !.observer = Initial, !.open = TRUE]
  /\ runtime' = [runtime EXCEPT !.at = "start"]
  /\ calls' = [calls EXCEPT ![Initial] = [st |-> "waiting", mode |-> mode, got |-> Say("none")]]
  /\ UNCHANGED <<cell, inbox, events, running, kills, told>>

\* start_cell holds the registry lock over the second look at the token, the
\* insertion and the spawn.
StartCell(mode) ==
  \/ ~session.down /\ StartCellUnchecked(mode)
  \/ /\ session.entry = "checked" /\ session.down
     /\ session' = [session EXCEPT !.entry = "refused"]
     /\ UNCHANGED <<cell, actor, inbox, events, runtime, running, calls, kills, told>>

\* begin_observe finds the handle and CellHandle::observe looks at the phase ...
BeginObserve(c, mode) ==
  LET accepting == cell.phase \in {"running", "completed"} /\ ~Cancelled
  IN  /\ calls[c].st = "idle" /\ c # Initial /\ session.entry \in {"open", "removed"}
      /\ calls' = [calls EXCEPT ![c] =
           IF session.entry = "removed" THEN [st |-> "done", mode |-> mode, got |-> Say("missing")]
           ELSE IF ~accepting THEN [st |-> "done", mode |-> mode, got |-> Say("closed")]
           ELSE [st |-> "checked", mode |-> mode, got |-> Say("none")]]
      /\ UNCHANGED <<session, cell, actor, inbox, events, runtime, running, kills, told>>

\* ... and sends, which fails when the actor has dropped its end meanwhile.
SendObserve(c) ==
  /\ calls[c].st = "checked"
  /\ IF actor.open
     THEN /\ inbox' = Append(inbox, c)
          /\ calls' = [calls EXCEPT ![c].st = "waiting"]
     ELSE /\ calls' = [calls EXCEPT ![c].st = "done", ![c].got = Say("closed")]
          /\ inbox' = inbox
  /\ UNCHANGED <<session, cell, actor, events, runtime, running, kills, told>>

\* The caller drops the future of an observation.
DropCall(c) ==
  /\ calls[c].st = "waiting"
  /\ calls' = [calls EXCEPT ![c].st = "dropped"]
  /\ UNCHANGED <<session, cell, actor, inbox, events, runtime, running, kills, told>>

KillAnswered(k, answer) ==
  kills' = [kills EXCEPT ![k] = [st |-> "done", got |-> answer]]

\* request_termination, in the caller's thread under the phase mutex: it parks
\* on a running cell, takes a buffered completion, and is refused otherwise.
Terminate(k) ==
  /\ kills[k].st = "idle" /\ session.entry \in {"open", "removed"}
  /\ \/ /\ session.entry = "removed" /\ KillAnswered(k, Say("missing"))
        /\ UNCHANGED cell
     \/ /\ session.entry = "open" /\ cell.phase = "running"
        /\ cell' = [cell EXCEPT !.phase = "terminating", !.killer = k, !.cancelled = TRUE]
        /\ kills' = [kills EXCEPT ![k].st = "waiting"]
     \/ /\ session.entry = "open" /\ cell.phase = "completed"
        /\ cell' = [cell EXCEPT !.phase = "claimed", !.cancelled = TRUE]
        /\ KillAnswered(k, cell.event)
     \/ /\ session.entry = "open" /\ cell.phase \in {"terminating", "claimed"}
        /\ KillAnswered(k, Say("already")) /\ UNCHANGED cell
     \/ /\ session.entry = "open" /\ cell.phase = "tombstone"
        /\ KillAnswered(k, Say("closed")) /\ UNCHANGED cell
  /\ UNCHANGED <<session, actor, inbox, events, runtime, running, calls, told>>

\* begin_shutdown, which is all that dropping the session does, ...
BeginShutdown ==
  /\ session.call = "idle"
  /\ session' = [session EXCEPT !.down = TRUE, !.call = "begun"]
  /\ UNCHANGED <<cell, actor, inbox, events, runtime, running, calls, kills, told>>

\* ... and shutdown waits until no tracked actor is left. The registry lock that it
\* passes through first is free between two steps here: start_cell holds it for one.
ShutdownReturns ==
  /\ session.call = "begun" /\ actor.at \in {"off", "done"}
  /\ session' = [session EXCEPT !.call = "returned"]
  /\ UNCHANGED <<cell, actor, inbox, events, runtime, running, calls, kills, told>>

(***************************************************************************)
(* The runtime thread                                                      *)
(***************************************************************************)

Goto(at) == runtime' = [runtime EXCEPT !.at = at]
RuntimeOnly == UNCHANGED <<session, cell, actor, inbox, running, calls, kills, told>>

\* run_runtime up to the evaluation of the main module.
RuntimeStart ==
  /\ runtime.at = "start"
  /\ \/ Emit("started", 0) /\ Goto("script")
     \/ Emit("result", 0) /\ Goto("ended")
  /\ RuntimeOnly

\* The script prints, yields, notifies or calls a tool.
ScriptEmits(kind) ==
  /\ runtime.at = "script" /\ runtime.emitted < MaxEmits
  /\ LET item == IF kind = "item" THEN runtime.items + 1 ELSE 0
     IN  /\ Emit(kind, item)
         /\ runtime' = [runtime EXCEPT !.emitted = @ + 1,
                                       !.items = IF kind = "item" THEN item ELSE @]
  /\ RuntimeOnly

\* The script's turn ends: its promise is still pending, or it is settled (with an
\* error too, as after terminate_execution), or the thread panics.
ScriptTurnEnds ==
  /\ runtime.at = "script"
  /\ \/ Goto("poll") /\ UNCHANGED events
     \/ Emit("result", 0) /\ Goto("ended")
     \/ Emit("panicked", 0) /\ Goto("ended")
  /\ RuntimeOnly

\* One command off the channel: a tool's answer goes to the script, a poke only
\* brings the thread back to the frontier.
TakeCommand ==
  runtime' = [runtime EXCEPT
    !.commands = Tail(@),
    !.at = CASE Head(runtime.commands) = "response" -> "script"
             [] Head(runtime.commands) = "poke" -> "poll"
             [] Head(runtime.commands) = "terminate" -> "ended"]

\* next_runtime_command: without a command at hand the thread announces a frontier
\* and waits to be let go on.
PollCommand ==
  /\ runtime.at = "poll"
  /\ \/ /\ runtime.commands # <<>> /\ TakeCommand /\ UNCHANGED events
     \/ /\ runtime.commands = <<>> /\ Emit("pending", 0) /\ Goto("control")
  /\ RuntimeOnly

AwaitControl ==
  /\ runtime.at = "control" /\ runtime.control # <<>>
  /\ runtime' = [runtime EXCEPT
       !.control = Tail(@),
       !.at = CASE Head(runtime.control) = "continue" -> "command"
                [] Head(runtime.control) = "resume" -> "poll"
                [] Head(runtime.control) = "terminate" -> "ended"]
  /\ UNCHANGED events /\ RuntimeOnly

AwaitCommand ==
  /\ runtime.at = "command" /\ runtime.commands # <<>>
  /\ TakeCommand
  /\ UNCHANGED events /\ RuntimeOnly

(***************************************************************************)
(* Callbacks                                                               *)
(***************************************************************************)

\* Callback tokens are children of the cell's token.
CallbacksCancelled == actor.quiet \/ Cancelled

NotificationEnds ==
  /\ running.notes > 0
  /\ running' = [running EXCEPT !.notes = @ - 1]
  /\ UNCHANGED <<session, cell, actor, inbox, events, runtime, calls, kills, told>>

\* A nested tool call ends, by itself or because its token is cancelled, and its
\* task answers the script.
ToolEnds ==
  /\ running.tools > 0
  /\ running' = [running EXCEPT !.tools = @ - 1]
  /\ runtime' = IF runtime.at = "ended" THEN runtime
                ELSE [runtime EXCEPT !.commands = Append(@, "response")]
  /\ UNCHANGED <<session, cell, actor, inbox, events, calls, kills, told>>

(***************************************************************************)
(* The actor: the branches of the select                                   *)
(***************************************************************************)

\* finish_callbacks: the notifications end, the tools are cancelled and end. Cancel
\* silences both at once.
FinishCallbacks(a, completion, next) ==
  [a EXCEPT !.at = "notes", !.next = next, !.quiet = @ \/ completion = "cancel"]

\* Mutant of OnCancelled: a runtime that has ended already is waited for.
OnCancelledWaiting ==
  /\ actor.at = "loop" /\ Cancelled /\ ~actor.termination
  /\ actor' = [actor EXCEPT !.termination = TRUE, !.timer = FALSE, !.open = FALSE]
  /\ calls' = Hangup(calls) /\ inbox' = <<>>
  /\ cell' = [cell EXCEPT !.cancelled = TRUE]
  /\ runtime' = BeginTermination(runtime)
  /\ UNCHANGED <<session, events, running, kills, told>>

\* The token is cancelled: no more commands, the runtime is told to end, and a cell
\* whose runtime has ended already is wound up here.
OnCancelled ==
  /\ actor.at = "loop" /\ Cancelled /\ ~actor.termination
  /\ LET stopped == [actor EXCEPT !.termination = TRUE, !.timer = FALSE, !.open = FALSE]
     IN  actor' = IF actor.closed THEN FinishCallbacks(stopped, "cancel", "terminate")
                  ELSE stopped
  /\ calls' = Hangup(calls) /\ inbox' = <<>>
  /\ cell' = [cell EXCEPT !.cancelled = TRUE]
  /\ runtime' = BeginTermination(runtime)
  /\ UNCHANGED <<session, events, running, kills, told>>

\* Mutant of Resumed: a runtime that waits for a command is not poked.
ResumedWithoutPoke(rt, mode) ==
  IF rt.at = "ended" \/ ~actor.paused THEN rt
  ELSE [rt EXCEPT !.control = Append(@, IF mode = "yield_after" THEN "continue" ELSE "resume")]

\* resume_for_observation: a paused runtime is let go on, to the next frontier or
\* past it; a frontier observer pokes a runtime that runs or waits for a command.
Resumed(rt, mode) ==
  IF rt.at = "ended" THEN rt
  ELSE IF actor.paused
  THEN [rt EXCEPT !.control = Append(@, IF mode = "yield_after" THEN "continue" ELSE "resume")]
  ELSE IF mode = "frontier" THEN [rt EXCEPT !.commands = Append(@, "poke")]
  ELSE rt

\* An observer whose caller is gone makes room for the next one.
StillObserved == Listening(actor.observer)

Vacated ==
  IF actor.observer = None THEN actor
  ELSE [actor EXCEPT !.observer = None, !.timer = FALSE]

AttachObserver(c) ==
  LET mode == calls[c].mode
  IN  /\ actor' = [actor EXCEPT !.observer = c, !.timer = (mode = "yield_after"),
                                !.ready = @ /\ ~(actor.paused /\ mode = "yield_after"),
                                !.paused = FALSE]
      /\ runtime' = Resumed(runtime, mode)
      /\ UNCHANGED <<cell, calls, told>>

\* A frontier that nobody has heard of is handed out at once; the runtime stays
\* where it is.
HandOutFrontier(c) ==
  /\ actor' = [Vacated EXCEPT !.ready = FALSE, !.content = <<>>]
  /\ calls' = Told(calls, c, Event("pending", actor.content))
  /\ told' = told \o actor.content
  /\ UNCHANGED <<cell, runtime>>

Refuse(c, kind) ==
  /\ calls' = Told(calls, c, Say(kind))
  /\ UNCHANGED <<cell, actor, runtime, told>>

\* An observation arrives: route_observation decides by the phase, and a running
\* cell takes one observer at a time.
OnObserve ==
  /\ actor.at = "loop" /\ actor.open /\ inbox # <<>>
  /\ inbox' = Tail(inbox)
  /\ LET c == Head(inbox)
     IN  \/ /\ ~Listening(c)
            /\ UNCHANGED <<cell, actor, runtime, calls, told>>
         \/ /\ Listening(c) /\ cell.phase \in {"terminating", "claimed", "tombstone"}
            /\ Refuse(c, "closed")
         \/ /\ Listening(c) /\ cell.phase = "completed"
            /\ calls' = Told(calls, c, cell.event)
            /\ cell' = [cell EXCEPT !.phase = "tombstone", !.cancelled = TRUE]
            /\ actor' = [actor EXCEPT !.at = "left"]
            /\ UNCHANGED <<runtime, told>>
         \/ /\ Listening(c) /\ cell.phase = "running" /\ StillObserved
            /\ Refuse(c, "busy")
         \/ /\ Listening(c) /\ cell.phase = "running" /\ ~StillObserved
            /\ IF calls[c].mode = "frontier" /\ actor.ready
               THEN HandOutFrontier(c) ELSE AttachObserver(c)
  /\ UNCHANGED <<session, events, running, kills>>

\* Mutant of TellObserver: output that nobody heard is not put back.
TellLosingOutput(a, kind) ==
  /\ calls' = Told(calls, actor.observer, Event(kind, actor.content))
  /\ told' = IF StillObserved THEN told \o actor.content ELSE told
  /\ actor' = [a EXCEPT !.observer = None, !.timer = FALSE, !.content = <<>>]

\* The observer is told; what it does not hear is kept for the next one.
TellObserver(a, kind) ==
  /\ calls' = Told(calls, actor.observer, Event(kind, actor.content))
  /\ told' = IF StillObserved THEN told \o actor.content ELSE told
  /\ actor' = [a EXCEPT !.observer = None, !.timer = FALSE,
                         !.content = IF StillObserved THEN <<>> ELSE @]

\* The yield timer of an observer that waits a limited time.
OnYieldTimer ==
  /\ actor.at = "loop" /\ actor.timer
  /\ TellObserver(actor, "yielded")
  /\ UNCHANGED <<session, cell, inbox, events, runtime, running, kills>>

ObserverMode(mode) == actor.observer # None /\ calls[actor.observer].mode = mode

\* Mutant of OnPending: a frontier that is passed over is recorded as a pause.
PendingStaysPaused ==
  \/ /\ ObserverMode("frontier")
     /\ TellObserver([actor EXCEPT !.paused = TRUE, !.ready = ~StillObserved], "pending")
     /\ UNCHANGED runtime
  \/ /\ ~ObserverMode("frontier")
     /\ actor' = [actor EXCEPT !.paused = TRUE]
     /\ runtime' = IF runtime.at = "ended" THEN runtime
                   ELSE [runtime EXCEPT !.control = Append(@, "continue")]
     /\ UNCHANGED <<calls, told>>

\* A frontier: told to an observer that waits for it, passed over otherwise.
OnPending ==
  \/ /\ ObserverMode("frontier")
     /\ TellObserver([actor EXCEPT !.paused = TRUE, !.ready = ~StillObserved], "pending")
     /\ UNCHANGED runtime
  \/ /\ ~ObserverMode("frontier")
     /\ actor' = [actor EXCEPT !.paused = FALSE]
     /\ runtime' = IF runtime.at = "ended" THEN runtime
                   ELSE [runtime EXCEPT !.control = Append(@, "continue")]
     /\ UNCHANGED <<calls, told>>

\* The end of the runtime: with a cancelled token the cell is wound up as
\* terminated, otherwise it completes once its callbacks have ended.
OnRuntimeEnd(a) ==
  actor' = IF actor.termination \/ Cancelled
           THEN FinishCallbacks([a EXCEPT !.closed = TRUE], "cancel", "terminate")
           ELSE FinishCallbacks([a EXCEPT !.closed = TRUE], "drain", "complete")

\* One runtime event.
OnRuntimeEvent ==
  /\ actor.at = "loop" /\ ~actor.closed /\ events # <<>>
  /\ events' = Tail(events)
  /\ LET e == Head(events)
     IN  \/ /\ e.kind = "started"
            /\ actor' = [actor EXCEPT !.timer = ObserverMode("yield_after")]
            /\ UNCHANGED <<runtime, running, calls, told>>
         \/ /\ e.kind = "item"
            /\ actor' = [actor EXCEPT !.content = Append(@, e.item)]
            /\ UNCHANGED <<runtime, running, calls, told>>
         \/ /\ e.kind = "yield"
            /\ IF ObserverMode("yield_after") THEN TellObserver(actor, "yielded")
               ELSE UNCHANGED <<actor, calls, told>>
            /\ UNCHANGED <<runtime, running>>
         \/ /\ e.kind = "notify"
            /\ running' = [running EXCEPT !.notes = @ + 1]
            /\ UNCHANGED <<actor, runtime, calls, told>>
         \/ /\ e.kind = "tool"
            /\ running' = [running EXCEPT !.tools = @ + 1]
            /\ UNCHANGED <<actor, runtime, calls, told>>
         \/ /\ e.kind = "pending"
            /\ OnPending /\ UNCHANGED running
         \/ /\ e.kind = "result"
            /\ OnRuntimeEnd([actor EXCEPT !.timer = FALSE])
            /\ UNCHANGED <<runtime, running, calls, told>>
         \/ /\ e.kind = "panicked"
            /\ UNCHANGED <<actor, runtime, running, calls, told>>
  /\ UNCHANGED <<session, cell, inbox, kills>>

\* The event channel is closed: the thread ended without a result.
OnRuntimeGone ==
  /\ actor.at = "loop" /\ ~actor.closed /\ events = <<>> /\ runtime.at = "ended"
  /\ OnRuntimeEnd(actor)
  /\ UNCHANGED <<session, cell, inbox, events, runtime, running, calls, kills, told>>

(***************************************************************************)
(* The actor: what follows an await in a handler                           *)
(***************************************************************************)

NotesDrained ==
  /\ actor.at = "notes" /\ running.notes = 0
  /\ actor' = [actor EXCEPT !.at = "tools", !.quiet = TRUE]
  /\ UNCHANGED <<session, cell, inbox, events, runtime, running, calls, kills, told>>

\* Mutant of FinishTermination: the observer is told of a termination after a completion.
FinishAsTerminated(event) ==
  /\ calls' = IF cell.phase = "tombstone" THEN calls ELSE Told(calls, actor.observer, event)
  /\ kills' = IF cell.phase = "terminating"
              THEN [kills EXCEPT ![cell.killer] = [st |-> "done", got |-> event]]
              ELSE kills
  /\ cell' = [cell EXCEPT !.phase = "tombstone", !.cancelled = TRUE]

\* finish_termination: the parked terminator and the observer hear of the outcome,
\* which is the completion when there was one.
FinishTermination(event) ==
  LET outcome == IF cell.phase \in {"completed", "claimed"} THEN cell.event ELSE event
  IN  /\ calls' = IF cell.phase = "tombstone" THEN calls
                  ELSE Told(calls, actor.observer, outcome)
      /\ kills' = IF cell.phase = "terminating"
                  THEN [kills EXCEPT ![cell.killer] = [st |-> "done", got |-> event]]
                  ELSE kills
      /\ cell' = [cell EXCEPT !.phase = "tombstone", !.cancelled = TRUE]

\* Mutant of WindUp: the tools are not awaited.
WindUpEarly ==
  /\ actor.at = "tools" /\ actor.next = "terminate"
  /\ FinishTermination(Event("terminated", actor.content))
  /\ actor' = [actor EXCEPT !.at = "left", !.observer = None, !.content = <<>>]
  /\ UNCHANGED <<session, inbox, events, runtime, running, told>>

\* The handlers that wind the cell up.
WindUp ==
  /\ actor.at = "tools" /\ actor.next = "terminate" /\ running.tools = 0
  /\ FinishTermination(Event("terminated", actor.content))
  /\ actor' = [actor EXCEPT !.at = "left", !.observer = None, !.content = <<>>]
  /\ UNCHANGED <<session, inbox, events, runtime, running, told>>

\* The callbacks of a finished script have ended; its output becomes the event.
Complete ==
  /\ actor.at = "tools" /\ actor.next = "complete" /\ running.tools = 0
  /\ actor' = [actor EXCEPT !.at = "commit", !.content = <<>>,
                             !.rejected = Event("completed", actor.content)]
  /\ UNCHANGED <<session, cell, inbox, events, runtime, running, calls, kills, told>>

\* commit_completion, with the session's stored values locked: the writes and the
\* completed phase are published together, unless a terminator or the token was
\* faster.
CommitCompletion ==
  /\ actor.at = "commit"
  /\ IF cell.phase = "running" /\ ~Cancelled
     THEN /\ cell' = [cell EXCEPT !.phase = "completed", !.event = actor.rejected,
                                  !.stored = TRUE]
          /\ actor' = [actor EXCEPT !.at = "deliver", !.rejected = Say("none")]
     ELSE /\ actor' = [actor EXCEPT !.at = "deliver"] /\ UNCHANGED cell
  /\ UNCHANGED <<session, inbox, events, runtime, running, calls, kills, told>>

\* Mutant of DeliverCompletion: a rejected completion leaves without telling the terminator.
DeliverWithoutFinish ==
  /\ actor.at = "deliver"
  /\ IF cell.phase = "completed" /\ ~StillObserved
     THEN actor' = [actor EXCEPT !.at = "loop", !.observer = None]
     ELSE actor' = [actor EXCEPT !.at = "left", !.observer = None]
  /\ calls' = IF cell.phase = "completed" THEN Told(calls, actor.observer, cell.event) ELSE calls
  /\ UNCHANGED <<session, cell, inbox, events, runtime, running, kills, told>>

\* deliver_completion: to the observer, or kept for the next one; a completion that
\* was rejected or claimed ends as a termination does.
DeliverCompletion ==
  /\ actor.at = "deliver"
  /\ \/ /\ cell.phase = "completed" /\ StillObserved
        /\ calls' = Told(calls, actor.observer, cell.event)
        /\ cell' = [cell EXCEPT !.phase = "tombstone", !.cancelled = TRUE]
        /\ actor' = [actor EXCEPT !.at = "left", !.observer = None]
        /\ UNCHANGED kills
     \/ /\ cell.phase = "completed" /\ ~StillObserved
        /\ actor' = [actor EXCEPT !.at = "loop", !.observer = None]
        /\ UNCHANGED <<cell, calls, kills>>
     \/ /\ cell.phase # "completed"
        /\ FinishTermination(Event("terminated", actor.rejected.items))
        /\ actor' = [actor EXCEPT !.at = "left", !.observer = None, !.rejected = Say("none")]
  /\ UNCHANGED <<session, inbox, events, runtime, running, told>>

\* After the loop: requests are refused (a terminator still parked would lose its
\* sender here), the runtime is told to end, callbacks are cancelled and awaited.
LeaveLoop ==
  /\ actor.at = "left"
  /\ actor' = FinishCallbacks([actor EXCEPT !.open = FALSE], "cancel", "close")
  /\ calls' = Hangup(calls) /\ inbox' = <<>>
  /\ kills' = IF cell.phase = "terminating"
              THEN [kills EXCEPT ![cell.killer] = [st |-> "done", got |-> Say("closed")]]
              ELSE kills
  /\ cell' = [cell EXCEPT !.phase = "tombstone", !.cancelled = TRUE]
  /\ runtime' = BeginTermination(runtime)
  /\ UNCHANGED <<session, events, running, told>>

\* CellHost::closed takes the cell out of the registry and the actor ends.
Close ==
  /\ actor.at = "tools" /\ actor.next = "close" /\ running.tools = 0
  /\ session' = [session EXCEPT !.entry = "removed"]
  /\ actor' = [actor EXCEPT !.at = "done"]
  /\ events' = <<>>
  /\ UNCHANGED <<cell, inbox, runtime, running, calls, kills, told>>

(***************************************************************************)
(* The specification                                                       *)
(***************************************************************************)

Caller ==
  \/ Execute
  \/ \E mode \in Modes : StartCell(mode)
  \/ \E c \in Calls, mode \in Modes : BeginObserve(c, mode)
  \/ \E c \in Calls : SendObserve(c)
  \/ \E c \in Calls : DropCall(c)
  \/ \E k \in Killers : Terminate(k)
  \/ BeginShutdown \/ ShutdownReturns

RuntimeThread ==
  \/ RuntimeStart
  \/ \E kind \in Emissions : ScriptEmits(kind)
  \/ ScriptTurnEnds
  \/ PollCommand \/ AwaitControl \/ AwaitCommand

Callback == NotificationEnds \/ ToolEnds

Actor ==
  \/ OnCancelled \/ OnObserve \/ OnYieldTimer \/ OnRuntimeEvent \/ OnRuntimeGone
  \/ NotesDrained \/ WindUp \/ Complete \/ CommitCompletion \/ DeliverCompletion
  \/ LeaveLoop \/ Close

Next == Caller \/ RuntimeThread \/ Callback \/ Actor

Spec == Init /\ [][Next]_vars

(***************************************************************************)
(* Fairness. The actor is a task of the executor and the runtime a thread   *)
(* of its own: both go on whenever they can, and a timer that runs fires.   *)
(* A script may loop for ever unless terminate_execution stops it; a        *)
(* callback may run for ever unless its token is cancelled, which hosts are *)
(* asked to forward (CellHost).                                             *)
(***************************************************************************)

CellSpec ==
  /\ Spec
  /\ WF_vars(Actor) /\ WF_vars(OnYieldTimer)
  /\ WF_vars(RuntimeStart) /\ WF_vars(PollCommand \/ AwaitControl \/ AwaitCommand)
  /\ WF_vars(runtime.killed /\ ScriptTurnEnds)
  /\ WF_vars(CallbacksCancelled /\ NotificationEnds)
  /\ WF_vars(CallbacksCancelled /\ ToolEnds)

\* Hypotheses about the script and the host, named where a property needs them.
ScriptTurnsEnd == WF_vars(ScriptTurnEnds)
NotificationsEnd == WF_vars(NotificationEnds)

(***************************************************************************)
(* What must always hold                                                   *)
(***************************************************************************)

\* The terminal events that callers were told.
Outcomes ==
  {a \in {calls[c].got : c \in Calls} \union {kills[k].got : k \in Killers} :
     a.kind \in Terminal}

\* A cell ends once: whoever hears of its end, observer or terminator, hears the
\* same event, and the script's stored values were published if and only if that
\* event says that the cell completed.
OneOutcome ==
  \A a \in Outcomes :
    /\ \A b \in Outcomes : a = b
    /\ a.kind = "completed" <=> cell.stored

\* The cell's types, and one outcome for everybody.
CellSafety == TypeOK /\ OneOutcome

\* What the actor has not handed out yet.
Undelivered ==
  IF cell.phase \in {"completed", "claimed"} THEN cell.event.items
  ELSE actor.content \o actor.rejected.items

Upto(n) == [i \in 1..n |-> i]

\* What the script printed after the first n items is on its way to the actor, in order.
OnTheWay(n) ==
  LET items == {i \in DOMAIN events : events[i].kind = "item"}
  IN  /\ {events[i].item : i \in items} = (n + 1)..runtime.items
      /\ \A i, j \in items : i < j => events[i].item < events[j].item

\* No output is lost, doubled or reordered by yields, dropped observers, frontiers
\* and rejected completions: what went out and what is held is the beginning of what
\* was printed, and the rest is on its way, until a terminal event carries what it can.
OutputConserved ==
  /\ Outcomes = {} /\ cell.phase # "tombstone" =>
       LET out == told \o Undelivered IN out = Upto(Len(out)) /\ OnTheWay(Len(out))
  /\ \A a \in Outcomes :
       /\ \E n \in 0..runtime.items : told \o a.items = Upto(n)
       /\ a.kind = "completed" => told \o a.items = Upto(runtime.items)

\* The actor knows whether the runtime is stopped at a frontier: it is never left
\* there by an actor that believes it runs, and no stale permission to go on is in
\* the channel when it stops.
PauseAgreement ==
  runtime.at = "control" /\ ~runtime.killed =>
    IF \E i \in DOMAIN events : events[i].kind = "pending"
    THEN ~actor.paused /\ runtime.control = <<>>
    ELSE actor.paused <=> runtime.control = <<>>

\* Whoever is told that the cell is over can rely on it: none of its callbacks runs
\* any more.
OverMeansQuiet == Outcomes # {} => running = [notes |-> 0, tools |-> 0]

\* After shutdown has returned no actor of the session runs, although a cell may
\* have passed the first look at the token before.
ShutdownIsFinal == session.call = "returned" => actor.at \in {"off", "done"}

(***************************************************************************)
(* What no step may do, and what must happen                               *)
(***************************************************************************)

\* A terminator that was let in hears the outcome of the cell, never an error.
TerminatorHears ==
  [][\A k \in Killers :
       kills[k].st = "waiting" /\ kills'[k].st = "done" => kills'[k].got.kind \in Terminal]_vars

\* A termination is answered, though the script may loop and callbacks may hang
\* until they are cancelled.
TerminationAnswered ==
  \A k \in Killers : (kills[k].st = "waiting") ~> (kills[k].st = "done")

\* A session that is shut down or dropped closes its cell, whatever the cell is doing.
CellCloses == (session.down /\ session.entry = "open") ~> (session.entry = "removed")

Unanswered(c, mode) == calls[c].st = "waiting" /\ calls[c].mode = mode

\* A caller that waits a limited time is answered in spite of a script that loops; one
\* that waits for the frontier is answered when the script's turns end, even if no
\* tool ever answers. Both need notifications that end by themselves, which the
\* actor awaits before it completes a cell.
ObserverAnswered ==
  NotificationsEnd =>
    \A c \in Calls :
      /\ Unanswered(c, "yield_after") ~> ~Unanswered(c, "yield_after")
      /\ ScriptTurnsEnd => (Unanswered(c, "frontier") ~> ~Unanswered(c, "frontier"))
=============================================================================
