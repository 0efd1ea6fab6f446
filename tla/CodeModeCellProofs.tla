------------------------- MODULE CodeModeCellProofs -------------------------
(***************************************************************************)
(* Proofs about a code mode cell for every set of callers and terminators   *)
(* and scripts of every length: the inductive invariant CellInv, and from   *)
(* it that the cell has one outcome, that the actor and the runtime agree   *)
(* on who waits, that the end of a cell is quiet, that shutdown is final    *)
(* and that terminators hear.                                               *)
(***************************************************************************)
EXTENDS CodeModeCell, TLAPS

-----------------------------------------------------------------------------
(* The inductive invariant                                                  *)

\* The script prints numbered items within its bound.
Printed ==
  /\ runtime.items <= runtime.emitted
  /\ \A i \in DOMAIN events : events[i].kind = "item" => events[i].item \in 1..MaxEmits

\* The registry has an entry for the cell from the moment its actor runs, and a session
\* that was shut down has no actor left.
Registered ==
  /\ actor.at = "off" <=> session.entry \in {"absent", "checked", "refused"}
  /\ actor.at = "off" => cell.phase = "running"
  /\ session.call # "idle" => session.down
  /\ ShutdownIsFinal

\* The result is the last thing that the runtime sends; when the actor has left its loop,
\* or knows of the end, everything that the runtime sent was handled.
Ended ==
  /\ \A i \in DOMAIN events :
       events[i].kind = "result" => i = Len(events) /\ runtime.at = "ended"
  /\ actor.closed => events = <<>> /\ runtime.at = "ended"
  /\ actor.at \notin {"off", "loop"} => actor.closed
  /\ actor.at = "off" => runtime.at = "off"

\* The actor is on its way out of run_cell.
Leaving ==
  actor.at \in {"left", "done"} \/ (actor.at \in {"notes", "tools"} /\ actor.next = "close")

\* The phase of CellState and the place of the actor fit together: the cell is a tombstone
\* when the actor is on its way out and not before, and a completion that is kept has no
\* observer beside it.
Stage ==
  /\ cell.phase = "tombstone" <=> Leaving
  /\ cell.phase \in {"completed", "claimed"} =>
       /\ actor.closed /\ actor.at # "commit"
       /\ actor.at = "loop" => actor.observer = None
       /\ actor.at \in {"notes", "tools"} => actor.next # "complete"
  /\ cell.phase = "terminating" => cell.killer \in Killers

\* No callback runs once the cell has completed or was wound up; notifications end first.
Silence ==
  /\ cell.phase \in {"completed", "claimed", "tombstone"} \/ actor.at \in {"commit", "deliver"} =>
       running = [notes |-> 0, tools |-> 0]
  /\ actor.at = "tools" => running.notes = 0

\* Nobody hears of an end before the cell has one; a completion that is kept is the only
\* end anybody can have heard of, and its values are published with it.
Verdict ==
  /\ cell.phase \in {"running", "terminating"} => Outcomes = {} /\ ~cell.stored
  /\ cell.phase \in {"completed", "claimed"} =>
       /\ cell.stored /\ cell.event.kind = "completed"
       /\ \A a \in Outcomes : a = cell.event
  /\ actor.at = "commit" => actor.rejected.kind = "completed"
  /\ OneOutcome

\* No frontier is on its way to the actor.
NoPending == \A i \in DOMAIN events : events[i].kind # "pending"

\* The runtime that was not killed and the actor take turns. A frontier that was announced
\* is the last event and nobody has answered it; one that was handled is either a pause or
\* has its one answer on the way; elsewhere there is neither.
TakingTurns ==
  /\ \A i \in DOMAIN runtime.commands : runtime.commands[i] # "terminate"
  /\ \A i \in DOMAIN runtime.control : runtime.control[i] # "terminate"
  /\ \A i \in DOMAIN events : events[i].kind = "pending" =>
       i = Len(events) /\ runtime.at = "control" /\ runtime.control = <<>> /\ ~actor.paused
  /\ runtime.at # "control" => runtime.control = <<>> /\ ~actor.paused
  /\ runtime.at = "control" /\ NoPending => (actor.paused <=> runtime.control = <<>>)
  /\ Len(runtime.control) <= 1

Turns == ~runtime.killed => TakingTurns

CellInv ==
  /\ TypeOK /\ Printed /\ Registered /\ Ended /\ Stage /\ Silence
  /\ Verdict /\ Turns

-----------------------------------------------------------------------------
(* Types                                                                    *)

\* Output can be joined and extended.
LEMMA ItemsFacts ==
  /\ <<>> \in Items
  /\ \A s, t \in Items : s \o t \in Items
  /\ \A s \in Items, x \in 1..MaxEmits : Append(s, x) \in Items
BY DEF Items

\* What Say and Event build are answers.
LEMMA AnswerFacts ==
  /\ \A kind \in Kinds : Say(kind) \in Answers
  /\ \A kind \in Kinds, s \in Items : Event(kind, s) \in Answers
  /\ \A a \in Answers : a.kind \in Kinds /\ a.items \in Items
BY ItemsFacts DEF Answers, Say, Event

\* Answering a call keeps the types of the calls.
LEMMA ToldType ==
  ASSUME NEW cs \in [Calls -> [st : CallStates, mode : Modes, got : Answers]],
         NEW c \in Calls \union {None}, NEW answer \in Answers
  PROVE  Told(cs, c, answer) \in [Calls -> [st : CallStates, mode : Modes, got : Answers]]
<1>1. CASE c \in Calls
  <2>1. cs[c] \in [st : CallStates, mode : Modes, got : Answers]
    BY <1>1
  <2>2. [cs[c] EXCEPT !.st = "done", !.got = answer] \in [st : CallStates, mode : Modes, got : Answers]
    BY <2>1 DEF CallStates
  <2>3. [cs EXCEPT ![c] = [cs[c] EXCEPT !.st = "done", !.got = answer]] \in [Calls -> [st : CallStates, mode : Modes, got : Answers]]
    BY <2>2
  <2> QED
    BY <2>3 DEF Told
<1>2. CASE c \notin Calls
  BY <1>2 DEF Told
<1> QED
  BY <1>1, <1>2

\* So does dropping the inbox.
LEMMA HangupType ==
  ASSUME NEW cs \in [Calls -> [st : CallStates, mode : Modes, got : Answers]]
  PROVE  Hangup(cs) \in [Calls -> [st : CallStates, mode : Modes, got : Answers]]
<1>1. Say("closed") \in Answers
  BY AnswerFacts DEF Kinds
<1>2. \A c \in Calls : [cs[c] EXCEPT !.st = "done", !.got = Say("closed")]
                         \in [st : CallStates, mode : Modes, got : Answers]
  BY <1>1 DEF CallStates
<1> QED
  BY <1>2 DEF Hangup

\* The kill switch keeps the types of the runtime thread.
LEMMA BeginTerminationType ==
  ASSUME NEW rt \in Threads PROVE BeginTermination(rt) \in Threads
<1> DEFINE toCommands == Append(rt.commands, "terminate")
           toControl == Append(rt.control, "terminate")
<1>1. /\ toCommands \in Seq({"response", "poke", "terminate"})
      /\ toControl \in Seq({"continue", "resume", "terminate"})
  BY DEF Threads
<1>2. BeginTermination(rt) =
        IF rt.at = "ended" THEN rt
        ELSE [rt EXCEPT !.commands = toCommands, !.control = toControl, !.killed = TRUE]
  BY DEF BeginTermination
<1> HIDE DEF toCommands, toControl
<1> QED
  BY <1>1, <1>2 DEF Threads

\* Sending to the runtime, and receiving, keep its types.
LEMMA ChannelTypes ==
  ASSUME NEW rt \in Threads
  PROVE  /\ \A x \in {"response", "poke", "terminate"} :
              [rt EXCEPT !.commands = Append(@, x)] \in Threads
         /\ \A x \in {"continue", "resume", "terminate"} :
              [rt EXCEPT !.control = Append(@, x)] \in Threads
         /\ \A at \in {"off", "start", "script", "poll", "control", "command", "ended"} :
              /\ [rt EXCEPT !.at = at] \in Threads
              /\ rt.commands # <<>> => [rt EXCEPT !.commands = Tail(@), !.at = at] \in Threads
              /\ rt.control # <<>> => [rt EXCEPT !.control = Tail(@), !.at = at] \in Threads
<1>1. /\ rt.commands \in Seq({"response", "poke", "terminate"})
      /\ rt.control \in Seq({"continue", "resume", "terminate"})
  BY DEF Threads
<1>2. \A s \in Seq({"response", "poke", "terminate"}) :
        /\ [rt EXCEPT !.commands = s] \in Threads
        /\ \A at \in {"off", "start", "script", "poll", "control", "command", "ended"} :
             [rt EXCEPT !.commands = s, !.at = at] \in Threads
  BY DEF Threads
<1>3. \A s \in Seq({"continue", "resume", "terminate"}) :
        /\ [rt EXCEPT !.control = s] \in Threads
        /\ \A at \in {"off", "start", "script", "poll", "control", "command", "ended"} :
             [rt EXCEPT !.control = s, !.at = at] \in Threads
  BY DEF Threads
<1>4. /\ \A x \in {"response", "poke", "terminate"} :
           Append(rt.commands, x) \in Seq({"response", "poke", "terminate"})
      /\ \A x \in {"continue", "resume", "terminate"} :
           Append(rt.control, x) \in Seq({"continue", "resume", "terminate"})
      /\ rt.commands # <<>> => Tail(rt.commands) \in Seq({"response", "poke", "terminate"})
      /\ rt.control # <<>> => Tail(rt.control) \in Seq({"continue", "resume", "terminate"})
  BY <1>1
<1>5. \A at \in {"off", "start", "script", "poll", "control", "command", "ended"} :
        [rt EXCEPT !.at = at] \in Threads
  BY DEF Threads
<1> HIDE DEF Threads
<1>6. /\ \A x \in {"response", "poke", "terminate"} :
           [rt EXCEPT !.commands = Append(@, x)] \in Threads
      /\ \A x \in {"continue", "resume", "terminate"} :
           [rt EXCEPT !.control = Append(@, x)] \in Threads
  BY <1>2, <1>3, <1>4, Zenon
<1>7. \A at \in {"off", "start", "script", "poll", "control", "command", "ended"} :
        /\ rt.commands # <<>> => [rt EXCEPT !.commands = Tail(@), !.at = at] \in Threads
        /\ rt.control # <<>> => [rt EXCEPT !.control = Tail(@), !.at = at] \in Threads
  BY <1>2, <1>3, <1>4, Zenon
<1> QED
  BY <1>5, <1>6, <1>7

\* finish_callbacks keeps the types of the locals.
LEMMA FinishCallbacksType ==
  ASSUME NEW a \in Locals, NEW completion, NEW next \in {"terminate", "complete", "close"}
  PROVE  FinishCallbacks(a, completion, next) \in Locals
BY DEF Locals, FinishCallbacks

\* What the runtime sends is an event.
LEMMA EmitType ==
  ASSUME NEW kind \in Emissions \union {"started", "pending", "result", "panicked"},
         NEW item \in 0..MaxEmits,
         events \in Seq(RuntimeEvents), Emit(kind, item)
  PROVE  events' \in Seq(RuntimeEvents)
<1>1. [kind |-> kind, item |-> item] \in RuntimeEvents
  BY DEF RuntimeEvents
<1> QED
  BY <1>1 DEF Emit

\* The runtime sends no item with the number zero.
LEMMA EmitPrinted ==
  ASSUME NEW kind \in Emissions \union {"started", "pending", "result", "panicked"},
         NEW item \in 0..MaxEmits,
         kind = "item" => item \in 1..MaxEmits,
         events \in Seq(RuntimeEvents), Emit(kind, item),
         \A i \in DOMAIN events : events[i].kind = "item" => events[i].item \in 1..MaxEmits
  PROVE  \A i \in DOMAIN events' : events'[i].kind = "item" => events'[i].item \in 1..MaxEmits
<1>1. CASE actor.at = "done"
  BY <1>1 DEF Emit
<1>2. CASE actor.at # "done"
  <2>1. events' = Append(events, [kind |-> kind, item |-> item])
    BY <1>2 DEF Emit
  <2>2. /\ DOMAIN events = 1..Len(events) /\ DOMAIN events' = 1..(Len(events) + 1)
        /\ \A i \in 1..Len(events) : events'[i] = events[i]
        /\ events'[Len(events) + 1] = [kind |-> kind, item |-> item] /\ Len(events) \in Nat
    BY <2>1
  <2> HIDE DEF RuntimeEvents
  <2>3. ASSUME NEW i \in DOMAIN events', events'[i].kind = "item"
        PROVE  events'[i].item \in 1..MaxEmits
    <3>1. CASE i = Len(events) + 1
      BY <2>2, <2>3, <3>1
    <3>2. CASE i # Len(events) + 1
      BY <2>2, <2>3, <3>2
    <3> QED
      BY <3>1, <3>2
  <2> QED
    BY <2>3
<1> QED
  BY <1>1, <1>2

\* Observation calls and terminate calls.
Call == [st : CallStates, mode : Modes, got : Answers]
Kill == [st : {"idle", "waiting", "done"}, got : Answers]

\* The steps of the session and its callers keep the types.
LEMMA CallerTypes == TypeOK /\ Printed /\ Caller => TypeOK' /\ Printed'
<1> SUFFICES ASSUME TypeOK, Printed, Caller PROVE TypeOK' /\ Printed'
  OBVIOUS
<1>0. /\ session \in Sessions /\ cell \in Cells /\ actor \in Locals /\ runtime \in Threads
      /\ inbox \in Seq(Calls) /\ events \in Seq(RuntimeEvents)
      /\ running \in [notes : Nat, tools : Nat]
      /\ calls \in [Calls -> Call] /\ kills \in [Killers -> Kill] /\ told \in Items
  BY DEF TypeOK, Call, Kill
<1>a. \A kind \in Kinds : Say(kind) \in Answers
  BY AnswerFacts
<1>b. SUFFICES /\ session' \in Sessions /\ cell' \in Cells /\ actor' \in Locals /\ runtime' \in Threads
               /\ inbox' \in Seq(Calls) /\ events' = events
               /\ running' \in [notes : Nat, tools : Nat]
               /\ calls' \in [Calls -> Call] /\ kills' \in [Killers -> Kill] /\ told' \in Items
               /\ runtime'.items = runtime.items /\ runtime'.emitted = runtime.emitted
  BY <1>0 DEF TypeOK, Call, Kill, Printed
<1>1. CASE Execute
  <2>1. session' \in Sessions
    BY <1>1, <1>0 DEF Execute, Sessions
  <2> QED
    BY <1>1, <1>0, <2>1 DEF Execute
<1>2. ASSUME NEW mode \in Modes, StartCell(mode) PROVE <1>b!1
  <2>1. CASE StartCellUnchecked(mode)
    <3>1. session' \in Sessions
      BY <2>1, <1>0 DEF StartCellUnchecked, Sessions
    <3>2. actor' \in Locals
      BY <2>1, <1>0, CallsAssumption DEF StartCellUnchecked, Locals
    <3>3. runtime' \in Threads /\ runtime'.items = runtime.items /\ runtime'.emitted = runtime.emitted
      BY <2>1, <1>0 DEF StartCellUnchecked, Threads
    <3>4. calls' \in [Calls -> Call]
      <4>1. [st |-> "waiting", mode |-> mode, got |-> Say("none")] \in Call
        BY <1>a DEF Call, CallStates, Kinds
      <4> QED
        BY <2>1, <1>0, <4>1, CallsAssumption DEF StartCellUnchecked
    <3> QED
      BY <2>1, <1>0, <3>1, <3>2, <3>3, <3>4 DEF StartCellUnchecked
  <2>2. CASE ~StartCellUnchecked(mode)
    <3>1. session' \in Sessions
      BY <2>2, <1>2, <1>0 DEF StartCell, Sessions
    <3> QED
      BY <2>2, <1>2, <1>0, <3>1 DEF StartCell
  <2> QED
    BY <2>1, <2>2
<1>3. ASSUME NEW c \in Calls, NEW mode \in Modes, BeginObserve(c, mode) PROVE <1>b!1
  <2>1. calls' \in [Calls -> Call]
    <3>1. /\ [st |-> "done", mode |-> mode, got |-> Say("missing")] \in Call
          /\ [st |-> "done", mode |-> mode, got |-> Say("closed")] \in Call
          /\ [st |-> "checked", mode |-> mode, got |-> Say("none")] \in Call
      BY <1>a DEF Call, CallStates, Kinds
    <3> QED
      BY <1>3, <1>0, <3>1 DEF BeginObserve
  <2> QED
    BY <1>3, <1>0, <2>1 DEF BeginObserve
<1>4. ASSUME NEW c \in Calls, SendObserve(c) PROVE <1>b!1
  <2>1. calls' \in [Calls -> Call]
    <3>1. Say("closed") \in Answers
      BY <1>a DEF Kinds
    <3>2. /\ [calls[c] EXCEPT !.st = "waiting"] \in Call
          /\ [calls[c] EXCEPT !.st = "done", !.got = Say("closed")] \in Call
      BY <1>0, <3>1 DEF Call, CallStates
    <3>3. \/ calls' = [calls EXCEPT ![c] = [calls[c] EXCEPT !.st = "waiting"]]
          \/ calls' = [calls EXCEPT ![c] = [calls[c] EXCEPT !.st = "done", !.got = Say("closed")]]
      BY <1>4, <1>0 DEF SendObserve
    <3> QED
      BY <1>0, <3>2, <3>3
  <2>2. inbox' \in Seq(Calls)
    <3>1. inbox' = Append(inbox, c) \/ inbox' = inbox
      BY <1>4 DEF SendObserve
    <3>2. inbox \in Seq(Calls)
      BY <1>0
    <3>3. Append(inbox, c) \in Seq(Calls)
      BY <3>2
    <3> QED
      BY <3>1, <3>2, <3>3
  <2> QED
    BY <1>4, <1>0, <2>1, <2>2 DEF SendObserve
<1>5. ASSUME NEW c \in Calls, DropCall(c) PROVE <1>b!1
  <2>1. calls' \in [Calls -> Call]
    <3>1. [calls[c] EXCEPT !.st = "dropped"] \in Call
      BY <1>0 DEF Call, CallStates
    <3>2. calls' = [calls EXCEPT ![c] = [calls[c] EXCEPT !.st = "dropped"]]
      BY <1>5, <1>0 DEF DropCall
    <3> QED
      BY <1>0, <3>1, <3>2
  <2> QED
    BY <1>5, <1>0, <2>1 DEF DropCall
<1>6. ASSUME NEW k \in Killers, Terminate(k) PROVE <1>b!1
  <2>1. cell' \in Cells
    <3>1. [cell EXCEPT !.phase = "terminating", !.killer = k, !.cancelled = TRUE] \in Cells
      BY <1>0 DEF Cells, Phases
    <3>2. [cell EXCEPT !.phase = "claimed", !.cancelled = TRUE] \in Cells
      BY <1>0 DEF Cells, Phases
    <3> QED
      BY <1>6, <1>0, <3>1, <3>2 DEF Terminate
  <2>2. kills' \in [Killers -> Kill]
    <3>1. cell.event \in Answers
      BY <1>0 DEF Cells
    <3>2. \A a \in Answers : [st |-> "done", got |-> a] \in Kill
      BY DEF Kill
    <3>3. [kills[k] EXCEPT !.st = "waiting"] \in Kill
      BY <1>0 DEF Kill
    <3>4. Say("missing") \in Answers /\ Say("already") \in Answers /\ Say("closed") \in Answers
      BY <1>a DEF Kinds
    <3>5. \/ \E a \in Answers : kills' = [kills EXCEPT ![k] = [st |-> "done", got |-> a]]
          \/ kills' = [kills EXCEPT ![k] = [kills[k] EXCEPT !.st = "waiting"]]
      BY <1>6, <1>0, <3>1, <3>4 DEF Terminate, KillAnswered
    <3> QED
      BY <1>0, <3>2, <3>3, <3>5
  <2> QED
    BY <1>6, <1>0, <2>1, <2>2 DEF Terminate
<1>7. CASE BeginShutdown \/ ShutdownReturns
  <2>1. session' \in Sessions
    BY <1>7, <1>0 DEF BeginShutdown, ShutdownReturns, Sessions
  <2> QED
    BY <1>7, <1>0, <2>1 DEF BeginShutdown, ShutdownReturns
<1> QED
  BY <1>1, <1>2, <1>3, <1>4, <1>5, <1>6, <1>7 DEF Caller

\* The steps of the runtime thread keep the types; the script prints no more than it may.
LEMMA RuntimeTypes == TypeOK /\ Printed /\ RuntimeThread => TypeOK' /\ Printed'
<1> SUFFICES ASSUME TypeOK, Printed, RuntimeThread PROVE TypeOK' /\ Printed'
  OBVIOUS
<1> DEFINE AllPrinted(es) ==
      \A i \in DOMAIN es : es[i].kind = "item" => es[i].item \in 1..MaxEmits
<1>0. /\ runtime \in Threads /\ events \in Seq(RuntimeEvents)
      /\ runtime.items <= runtime.emitted /\ AllPrinted(events)
  BY DEF TypeOK, Printed
<1>a. 0 \in 0..MaxEmits
  BY EmitsAssumption
<1>b. SUFFICES /\ runtime' \in Threads /\ events' \in Seq(RuntimeEvents)
               /\ runtime'.items <= runtime'.emitted /\ AllPrinted(events')
               /\ RuntimeOnly
  BY DEF TypeOK, Printed, RuntimeOnly
<1>c. RuntimeOnly
  BY DEF RuntimeThread, RuntimeStart, ScriptEmits, ScriptTurnEnds, PollCommand, AwaitControl, AwaitCommand
<1>d. ASSUME NEW kind \in {"started", "pending", "result", "panicked"}, Emit(kind, 0)
      PROVE  events' \in Seq(RuntimeEvents) /\ AllPrinted(events')
  <2>1. kind # "item"
    OBVIOUS
  <2> QED
    BY <1>d, <2>1, <1>0, <1>a, EmitType, EmitPrinted
<1>e. ASSUME NEW at \in {"off", "start", "script", "poll", "control", "command", "ended"}, Goto(at)
      PROVE  runtime' \in Threads /\ runtime'.items <= runtime'.emitted
  <2>1. runtime' = [runtime EXCEPT !.at = at]
    BY <1>e DEF Goto
  <2>2. runtime' \in Threads
    BY <2>1, <1>0, ChannelTypes, Zenon
  <2>3. runtime'.items = runtime.items /\ runtime'.emitted = runtime.emitted
    BY <2>1, <1>0 DEF Threads
  <2> QED
    BY <2>2, <2>3, <1>0
<1>f. ASSUME runtime.commands # <<>>, TakeCommand
      PROVE  runtime' \in Threads /\ runtime'.items <= runtime'.emitted
  <2>1. Head(runtime.commands) \in {"response", "poke", "terminate"}
    BY <1>f, <1>0 DEF Threads
  <2>2. PICK at \in {"off", "start", "script", "poll", "control", "command", "ended"} :
          runtime' = [runtime EXCEPT !.commands = Tail(@), !.at = at]
    <3> DEFINE at == CASE Head(runtime.commands) = "response" -> "script"
                       [] Head(runtime.commands) = "poke" -> "poll"
                       [] Head(runtime.commands) = "terminate" -> "ended"
    <3>1. at \in {"off", "start", "script", "poll", "control", "command", "ended"}
      BY <2>1
    <3>2. runtime' = [runtime EXCEPT !.commands = Tail(@), !.at = at]
      BY <1>f DEF TakeCommand
    <3> QED
      BY <3>1, <3>2
  <2>3. runtime' \in Threads
    BY <1>f, <2>2, <1>0, ChannelTypes, Zenon
  <2>4. runtime'.items = runtime.items /\ runtime'.emitted = runtime.emitted
    BY <2>2, <1>0 DEF Threads
  <2> QED
    BY <2>3, <2>4, <1>0
<1>1. CASE RuntimeStart
  BY <1>1, <1>c, <1>d, <1>e DEF RuntimeStart
<1>2. ASSUME NEW kind \in Emissions, ScriptEmits(kind)
      PROVE  <1>b!1
  <2> DEFINE item == IF kind = "item" THEN runtime.items + 1 ELSE 0
             items == IF kind = "item" THEN runtime.items + 1 ELSE runtime.items
             emitted == runtime.emitted + 1
  <2>1. /\ runtime.emitted \in 0..MaxEmits /\ runtime.items \in 0..MaxEmits
        /\ runtime.emitted < MaxEmits
    BY <1>0, <1>2 DEF Threads, ScriptEmits
  <2>2. /\ item \in 0..MaxEmits /\ items \in 0..MaxEmits /\ emitted \in 0..MaxEmits
        /\ items <= emitted /\ (kind = "item" => item \in 1..MaxEmits)
    BY <2>1, <1>0, EmitsAssumption
  <2>3. Emit(kind, item)
    BY <1>2 DEF ScriptEmits
  <2>4. runtime' = [runtime EXCEPT !.emitted = emitted, !.items = items]
    BY <1>2 DEF ScriptEmits
  <2> HIDE DEF item, items, emitted
  <2>5. runtime' \in Threads /\ runtime'.items = items /\ runtime'.emitted = emitted
    BY <2>4, <2>2, <1>0 DEF Threads
  <2>6. events' \in Seq(RuntimeEvents) /\ AllPrinted(events')
    BY <2>2, <2>3, <1>0, EmitType, EmitPrinted
  <2> QED
    BY <2>2, <2>5, <2>6, <1>c
<1>3. CASE ScriptTurnEnds
  <2>1. CASE Goto("poll") /\ UNCHANGED events
    BY <2>1, <1>0, <1>c, <1>e
  <2>2. CASE (Emit("result", 0) /\ Goto("ended")) \/ (Emit("panicked", 0) /\ Goto("ended"))
    BY <2>2, <1>c, <1>d, <1>e
  <2> QED
    BY <1>3, <2>1, <2>2 DEF ScriptTurnEnds
<1>4. CASE PollCommand
  <2>1. CASE runtime.commands # <<>> /\ TakeCommand /\ UNCHANGED events
    BY <2>1, <1>0, <1>c, <1>f
  <2>2. CASE Emit("pending", 0) /\ Goto("control")
    BY <2>2, <1>c, <1>d, <1>e
  <2> QED
    BY <1>4, <2>1, <2>2 DEF PollCommand
<1>5. CASE AwaitControl
  <2>1. Head(runtime.control) \in {"continue", "resume", "terminate"}
    BY <1>5, <1>0 DEF Threads, AwaitControl
  <2>2. PICK at \in {"off", "start", "script", "poll", "control", "command", "ended"} :
          runtime' = [runtime EXCEPT !.control = Tail(@), !.at = at]
    <3> DEFINE at == CASE Head(runtime.control) = "continue" -> "command"
                       [] Head(runtime.control) = "resume" -> "poll"
                       [] Head(runtime.control) = "terminate" -> "ended"
    <3>1. at \in {"off", "start", "script", "poll", "control", "command", "ended"}
      BY <2>1
    <3>2. runtime' = [runtime EXCEPT !.control = Tail(@), !.at = at]
      BY <1>5 DEF AwaitControl
    <3> QED
      BY <3>1, <3>2
  <2>3. runtime' \in Threads
    <3>1. runtime.control # <<>>
      BY <1>5 DEF AwaitControl
    <3> QED
      BY <3>1, <2>2, <1>0, ChannelTypes, Zenon
  <2>4. runtime'.items = runtime.items /\ runtime'.emitted = runtime.emitted
    BY <2>2, <1>0 DEF Threads
  <2>5. events' = events
    BY <1>5 DEF AwaitControl
  <2> QED
    BY <2>3, <2>4, <2>5, <1>0, <1>c
<1>6. CASE AwaitCommand
  BY <1>6, <1>0, <1>c, <1>f DEF AwaitCommand
<1> QED
  BY <1>1, <1>2, <1>3, <1>4, <1>5, <1>6 DEF RuntimeThread

\* Callbacks keep the types.
LEMMA CallbackTypes == TypeOK /\ Printed /\ Callback => TypeOK' /\ Printed'
<1> SUFFICES ASSUME TypeOK, Printed, Callback PROVE TypeOK' /\ Printed'
  OBVIOUS
<1>0. runtime \in Threads /\ running \in [notes : Nat, tools : Nat]
  BY DEF TypeOK
<1>1. running' \in [notes : Nat, tools : Nat]
  BY <1>0 DEF Callback, NotificationEnds, ToolEnds
<1>2. runtime' \in Threads
  <2>1. runtime' = runtime \/ runtime' = [runtime EXCEPT !.commands = Append(@, "response")]
    BY DEF Callback, NotificationEnds, ToolEnds
  <2> QED
    BY <2>1, <1>0, ChannelTypes, Zenon
<1>3. runtime'.items = runtime.items /\ runtime'.emitted = runtime.emitted
  <2>1. runtime' = runtime \/ runtime' = [runtime EXCEPT !.commands = Append(@, "response")]
    BY DEF Callback, NotificationEnds, ToolEnds
  <2> QED
    BY <2>1, <1>0 DEF Threads
<1>4. UNCHANGED <<session, cell, actor, inbox, events, calls, kills, told>>
  BY DEF Callback, NotificationEnds, ToolEnds
<1> QED
  BY <1>1, <1>2, <1>3, <1>4 DEF TypeOK, Printed

\* The updates of the locals of run_cell keep their types.
LEMMA LocalTypes ==
  ASSUME NEW a \in Locals
  PROVE  /\ \A at \in {"off", "loop", "notes", "tools", "commit", "deliver", "left", "done"} :
              /\ [a EXCEPT !.at = at] \in Locals
              /\ [a EXCEPT !.at = at, !.observer = None] \in Locals
              /\ [a EXCEPT !.at = at, !.observer = None, !.content = <<>>] \in Locals
         /\ \A s \in Items : [a EXCEPT !.content = s] \in Locals
         /\ \A b \in BOOLEAN : [a EXCEPT !.paused = b] \in Locals
         /\ \A b \in BOOLEAN : [a EXCEPT !.timer = b] \in Locals
         /\ \A b, d \in BOOLEAN : [a EXCEPT !.paused = b, !.ready = d] \in Locals
         /\ \A s \in Items : [a EXCEPT !.observer = None, !.timer = FALSE, !.content = s] \in Locals
         /\ \A c \in Calls, b, d \in BOOLEAN :
              [a EXCEPT !.observer = c, !.timer = b, !.ready = d, !.paused = FALSE] \in Locals
         /\ a.content \in Items /\ a.rejected \in Answers /\ a.observer \in Calls \union {None}
BY ItemsFacts DEF Locals

\* Telling the observer keeps the types.
LEMMA TellType ==
  ASSUME TypeOK, NEW a \in Locals, NEW kind \in Kinds, a.content = actor.content,
         TellObserver(a, kind)
  PROVE  /\ actor' \in Locals /\ calls' \in [Calls -> Call] /\ told' \in Items
<1>0. /\ actor \in Locals /\ calls \in [Calls -> Call] /\ told \in Items
  BY DEF TypeOK, Call
<1>1. /\ actor.content \in Items /\ actor.observer \in Calls \union {None}
  BY <1>0, LocalTypes
<1>2. calls' \in [Calls -> Call]
  <2>1. Event(kind, actor.content) \in Answers
    BY <1>1, AnswerFacts
  <2> QED
    BY <1>0, <1>1, <2>1, ToldType DEF TellObserver, Call
<1>3. told' \in Items
  <2>1. told' = told \/ told' = told \o actor.content
    BY DEF TellObserver
  <2> QED
    BY <1>0, <1>1, <2>1, ItemsFacts
<1>4. actor' \in Locals
  <2>1. \/ actor' = [a EXCEPT !.observer = None, !.timer = FALSE, !.content = <<>>]
        \/ actor' = [a EXCEPT !.observer = None, !.timer = FALSE, !.content = a.content]
    BY DEF TellObserver
  <2>2. \A s \in Items : [a EXCEPT !.observer = None, !.timer = FALSE, !.content = s] \in Locals
    BY LocalTypes
  <2>3. <<>> \in Items /\ a.content \in Items
    BY <1>1, ItemsFacts
  <2> QED
    BY <2>1, <2>2, <2>3, Zenon
<1> QED
  BY <1>2, <1>3, <1>4

\* finish_termination keeps the types.
LEMMA FinishTypes ==
  ASSUME TypeOK, NEW event \in Answers, FinishTermination(event)
  PROVE  cell' \in Cells /\ calls' \in [Calls -> Call] /\ kills' \in [Killers -> Kill]
<1>0. /\ cell \in Cells /\ actor.observer \in Calls \union {None}
      /\ calls \in [Calls -> Call] /\ kills \in [Killers -> Kill]
  BY LocalTypes DEF TypeOK, Call, Kill
<1>1. cell' \in Cells
  BY <1>0 DEF FinishTermination, Cells, Phases
<1>2. calls' \in [Calls -> Call]
  <2>1. calls' = calls \/ \E a \in Answers : calls' = Told(calls, actor.observer, a)
    <3>1. cell.event \in Answers
      BY <1>0 DEF Cells
    <3> QED
      BY <3>1 DEF FinishTermination
  <2>2. \A a \in Answers : Told(calls, actor.observer, a) \in [Calls -> Call]
    BY <1>0, ToldType DEF Call
  <2> QED
    BY <1>0, <2>1, <2>2
<1>3. kills' \in [Killers -> Kill]
  <2>1. [st |-> "done", got |-> event] \in Kill
    BY DEF Kill
  <2> QED
    BY <1>0, <2>1 DEF FinishTermination
<1> QED
  BY <1>1, <1>2, <1>3

\* What the head and the tail of a sequence are.
LEMMA EventTail ==
  ASSUME NEW S, NEW es \in Seq(S), es # <<>>
  PROVE  /\ Tail(es) \in Seq(S) /\ Head(es) \in S /\ Head(es) = es[1]
         /\ Len(Tail(es)) = Len(es) - 1 /\ Len(es) \in Nat \ {0}
         /\ DOMAIN es = 1..Len(es) /\ DOMAIN Tail(es) = 1..(Len(es) - 1)
         /\ \A i \in DOMAIN Tail(es) : i + 1 \in DOMAIN es /\ Tail(es)[i] = es[i + 1]
OBVIOUS

\* A sequence of one element has no tail.
LEMMA OnlyOne ==
  ASSUME NEW S, NEW es \in Seq(S), es # <<>>, Len(es) <= 1
  PROVE  Tail(es) = <<>> /\ Len(es) = 1 /\ 1 \in DOMAIN es /\ Head(es) = es[1] /\ Head(es) \in S
<1>1. Len(es) = 1
  <2>1. Len(es) \in Nat \ {0}
    BY EventTail
  <2> QED
    BY <2>1
<1>2. Tail(es) \in Seq(S) /\ Len(Tail(es)) = 0
  BY <1>1, EventTail
<1> QED
  BY <1>1, <1>2, EventTail

\* Handling a runtime event keeps the types.
LEMMA EventTypes ==
  ASSUME TypeOK, Printed, OnRuntimeEvent
  PROVE  /\ actor' \in Locals /\ runtime' \in Threads /\ events' \in Seq(RuntimeEvents)
         /\ running' \in [notes : Nat, tools : Nat]
         /\ calls' \in [Calls -> Call] /\ told' \in Items
         /\ \A i \in DOMAIN events' : events'[i].kind = "item" => events'[i].item \in 1..MaxEmits
         /\ runtime'.items = runtime.items /\ runtime'.emitted = runtime.emitted
<1>0. /\ actor \in Locals /\ runtime \in Threads /\ events \in Seq(RuntimeEvents)
      /\ running \in [notes : Nat, tools : Nat]
      /\ calls \in [Calls -> Call] /\ told \in Items
  BY DEF TypeOK, Call
<1>1. /\ events # <<>> /\ events' = Tail(events)
  BY DEF OnRuntimeEvent
<1> DEFINE e == Head(events)
<1>2. events' \in Seq(RuntimeEvents) /\ e \in RuntimeEvents /\ e = events[1] /\ 1 \in DOMAIN events
  BY <1>0, <1>1, EventTail
<1>3. \A i \in DOMAIN events' : events'[i].kind = "item" => events'[i].item \in 1..MaxEmits
  BY <1>0, <1>1, EventTail DEF Printed
<1>4. e.kind = "item" => e.item \in 1..MaxEmits
  BY <1>2 DEF Printed
<1> HIDE DEF e
<1> SUFFICES /\ actor' \in Locals /\ runtime' \in Threads
             /\ running' \in [notes : Nat, tools : Nat]
             /\ calls' \in [Calls -> Call] /\ told' \in Items
             /\ runtime'.items = runtime.items /\ runtime'.emitted = runtime.emitted
  BY <1>2, <1>3
<1>5. CASE e.kind = "started"
  <2>1. actor' = [actor EXCEPT !.timer = ObserverMode("yield_after")]
        /\ UNCHANGED <<runtime, running, calls, told>>
    BY <1>5 DEF OnRuntimeEvent, e
  <2>2. ObserverMode("yield_after") \in BOOLEAN
    BY DEF ObserverMode
  <2>3. actor' \in Locals
    BY <1>0, <2>1, <2>2, LocalTypes
  <2> QED
    BY <1>0, <2>1, <2>3
<1>6. CASE e.kind = "item"
  <2>1. actor' = [actor EXCEPT !.content = Append(@, e.item)]
        /\ UNCHANGED <<runtime, running, calls, told>>
    BY <1>6 DEF OnRuntimeEvent, e
  <2>2. Append(actor.content, e.item) \in Items
    BY <1>0, <1>4, <1>6, ItemsFacts, LocalTypes
  <2>3. actor' \in Locals
    BY <1>0, <2>1, <2>2, LocalTypes
  <2> QED
    BY <1>0, <2>1, <2>3
<1>7. CASE e.kind = "yield"
  <2>1. /\ TellObserver(actor, "yielded") \/ UNCHANGED <<actor, calls, told>>
        /\ UNCHANGED <<runtime, running>>
    BY <1>7 DEF OnRuntimeEvent, e
  <2>2. CASE TellObserver(actor, "yielded")
    BY <1>0, <2>1, <2>2, TellType DEF Kinds
  <2> QED
    BY <1>0, <2>1, <2>2
<1>8. CASE e.kind \in {"notify", "tool", "panicked"}
  <2>1. UNCHANGED <<actor, runtime, calls, told>>
    BY <1>8 DEF OnRuntimeEvent, e
  <2>2. running' \in [notes : Nat, tools : Nat]
    BY <1>0, <1>8 DEF OnRuntimeEvent, e
  <2> QED
    BY <1>0, <2>1, <2>2
<1>9. CASE e.kind = "pending"
  <2>1. OnPending /\ UNCHANGED running
    BY <1>9 DEF OnRuntimeEvent, e
  <2>2. CASE ObserverMode("frontier")
    <3> DEFINE a == [actor EXCEPT !.paused = TRUE, !.ready = ~StillObserved]
    <3>1. TellObserver(a, "pending") /\ UNCHANGED runtime
      BY <2>1, <2>2 DEF OnPending
    <3>2. a \in Locals
      <4>1. (~StillObserved) \in BOOLEAN
        BY DEF StillObserved, Listening
      <4> QED
        BY <4>1, <1>0, LocalTypes
    <3>3. a.content = actor.content
      BY <1>0 DEF Locals
    <3> HIDE DEF a
    <3> QED
      BY <1>0, <2>1, <3>1, <3>2, <3>3, TellType DEF Kinds
  <2>3. CASE ~ObserverMode("frontier")
    <3>1. /\ actor' = [actor EXCEPT !.paused = FALSE]
          /\ \/ runtime' = runtime \/ runtime' = [runtime EXCEPT !.control = Append(@, "continue")]
          /\ UNCHANGED <<calls, told>>
      BY <2>1, <2>3 DEF OnPending
    <3>2. actor' \in Locals
      BY <3>1, <1>0, LocalTypes
    <3>3. runtime' \in Threads
      BY <3>1, <1>0, ChannelTypes, Zenon
    <3>4. runtime'.items = runtime.items /\ runtime'.emitted = runtime.emitted
      BY <3>1, <1>0 DEF Threads
    <3> QED
      BY <1>0, <2>1, <3>1, <3>2, <3>3, <3>4
  <2> QED
    BY <2>2, <2>3
<1>10. CASE e.kind = "result"
  <2>1. OnRuntimeEnd([actor EXCEPT !.timer = FALSE]) /\ UNCHANGED <<runtime, running, calls, told>>
    BY <1>10 DEF OnRuntimeEvent, e
  <2>2. [[actor EXCEPT !.timer = FALSE] EXCEPT !.closed = TRUE] \in Locals
    BY <1>0 DEF Locals
  <2>3. actor' \in Locals
    BY <2>1, <2>2, FinishCallbacksType DEF OnRuntimeEnd
  <2> QED
    BY <1>0, <2>1, <2>3
<1> QED
  BY <1>2, <1>5, <1>6, <1>7, <1>8, <1>9, <1>10 DEF RuntimeEvents, Emissions

\* Handling an observation keeps the types.
LEMMA ObserveTypes ==
  ASSUME TypeOK, OnObserve
  PROVE  /\ cell' \in Cells /\ actor' \in Locals /\ runtime' \in Threads /\ inbox' \in Seq(Calls)
         /\ calls' \in [Calls -> Call] /\ told' \in Items
         /\ runtime'.items = runtime.items /\ runtime'.emitted = runtime.emitted
<1>0. /\ cell \in Cells /\ actor \in Locals /\ runtime \in Threads /\ inbox \in Seq(Calls)
      /\ calls \in [Calls -> Call] /\ told \in Items
  BY DEF TypeOK, Call
<1> DEFINE c == Head(inbox)
<1>1. inbox' = Tail(inbox) /\ inbox # <<>>
  BY DEF OnObserve
<1>2. inbox' \in Seq(Calls) /\ c \in Calls
  BY <1>0, <1>1
<1>3. \A a \in Answers : Told(calls, c, a) \in [Calls -> Call]
  BY <1>0, <1>2, ToldType DEF Call
<1>4. actor.content \in Items /\ cell.event \in Answers
  BY <1>0 DEF Locals, Cells
<1> HIDE DEF c
<1>5. CASE UNCHANGED <<cell, actor, runtime, calls, told>>
  BY <1>0, <1>2, <1>5
<1>a. SUFFICES /\ cell' \in Cells /\ actor' \in Locals /\ runtime' \in Threads
               /\ calls' \in [Calls -> Call] /\ told' \in Items
               /\ runtime'.items = runtime.items /\ runtime'.emitted = runtime.emitted
  BY <1>2
<1>6. CASE Refuse(c, "busy") \/ Refuse(c, "closed")
  <2>1. Say("busy") \in Answers /\ Say("closed") \in Answers
    BY AnswerFacts DEF Kinds
  <2> QED
    BY <1>0, <1>3, <1>6, <2>1 DEF Refuse
<1>7. CASE /\ calls' = Told(calls, c, cell.event)
           /\ cell' = [cell EXCEPT !.phase = "tombstone", !.cancelled = TRUE]
           /\ actor' = [actor EXCEPT !.at = "left"]
           /\ UNCHANGED <<runtime, told>>
  <2>1. cell' \in Cells
    BY <1>0, <1>7 DEF Cells, Phases
  <2>2. actor' \in Locals
    BY <1>0, <1>7, LocalTypes
  <2> QED
    BY <1>0, <1>3, <1>4, <1>7, <2>1, <2>2
<1>8. CASE HandOutFrontier(c)
  <2>1. Event("pending", actor.content) \in Answers
    BY <1>4, AnswerFacts DEF Kinds
  <2>2. Vacated \in Locals
    BY <1>0 DEF Vacated, Locals
  <2>3. actor' \in Locals
    <3> DEFINE v == Vacated
    <3>1. actor' = [v EXCEPT !.ready = FALSE, !.content = <<>>] /\ v \in Locals
      BY <1>8, <2>2 DEF HandOutFrontier
    <3> HIDE DEF v
    <3> QED
      BY <3>1, ItemsFacts DEF Locals
  <2>4. told' \in Items
    BY <1>0, <1>4, <1>8, ItemsFacts DEF HandOutFrontier
  <2> QED
    BY <1>0, <1>3, <1>8, <2>1, <2>3, <2>4 DEF HandOutFrontier
<1>9. CASE AttachObserver(c)
  <2> DEFINE b == calls[c].mode = "yield_after"
             d == actor.ready /\ ~(actor.paused /\ calls[c].mode = "yield_after")
  <2>1. b \in BOOLEAN /\ d \in BOOLEAN
    OBVIOUS
  <2>2. actor' = [actor EXCEPT !.observer = c, !.timer = b, !.ready = d, !.paused = FALSE]
    BY <1>9 DEF AttachObserver
  <2> HIDE DEF b, d
  <2>3. actor' \in Locals
    BY <1>0, <1>2, <2>1, <2>2, LocalTypes
  <2>4. \/ runtime' = runtime
        \/ \E x \in {"continue", "resume", "terminate"} :
             runtime' = [runtime EXCEPT !.control = Append(@, x)]
        \/ runtime' = [runtime EXCEPT !.commands = Append(@, "poke")]
    BY <1>9 DEF AttachObserver, Resumed
  <2>5. runtime' \in Threads
    BY <1>0, <2>4, ChannelTypes, Zenon
  <2>6. runtime'.items = runtime.items /\ runtime'.emitted = runtime.emitted
    BY <1>0, <2>4 DEF Threads
  <2> QED
    BY <1>0, <1>9, <2>3, <2>5, <2>6 DEF AttachObserver
<1> QED
  BY <1>5, <1>6, <1>7, <1>8, <1>9 DEF OnObserve, c

\* The kill switch does not change what the script has printed.
LEMMA TerminationFrame ==
  ASSUME NEW rt \in Threads
  PROVE  BeginTermination(rt).items = rt.items /\ BeginTermination(rt).emitted = rt.emitted
BY DEF BeginTermination, Threads

\* The steps of the actor keep the types.
LEMMA ActorTypes == TypeOK /\ Printed /\ Actor => TypeOK' /\ Printed'
<1> SUFFICES ASSUME TypeOK, Printed, Actor PROVE TypeOK' /\ Printed'
  OBVIOUS
<1>0. /\ session \in Sessions /\ cell \in Cells /\ actor \in Locals /\ runtime \in Threads
      /\ inbox \in Seq(Calls) /\ events \in Seq(RuntimeEvents)
      /\ running \in [notes : Nat, tools : Nat]
      /\ calls \in [Calls -> Call] /\ kills \in [Killers -> Kill] /\ told \in Items
  BY DEF TypeOK, Call, Kill
<1>a. /\ actor.content \in Items /\ actor.rejected \in Answers /\ cell.event \in Answers
      /\ actor.observer \in Calls \union {None} /\ actor.rejected.items \in Items
  BY <1>0, AnswerFacts DEF Locals, Cells
<1>b. SUFFICES /\ session' \in Sessions /\ cell' \in Cells /\ actor' \in Locals /\ runtime' \in Threads
               /\ inbox' \in Seq(Calls) /\ events' \in Seq(RuntimeEvents)
               /\ running' \in [notes : Nat, tools : Nat]
               /\ calls' \in [Calls -> Call] /\ kills' \in [Killers -> Kill] /\ told' \in Items
               /\ runtime'.items = runtime.items /\ runtime'.emitted = runtime.emitted
               /\ \A i \in DOMAIN events' : events'[i].kind = "item" => events'[i].item \in 1..MaxEmits
  BY <1>0 DEF TypeOK, Call, Kill, Printed
<1>c. \A i \in DOMAIN events : events[i].kind = "item" => events[i].item \in 1..MaxEmits
  BY DEF Printed
<1>d. [cell EXCEPT !.phase = "tombstone", !.cancelled = TRUE] \in Cells
  BY <1>0 DEF Cells, Phases
<1>1. CASE OnCancelled
  <2> DEFINE stopped == [actor EXCEPT !.termination = TRUE, !.timer = FALSE, !.open = FALSE]
  <2>1. actor' \in Locals
    <3>1. stopped \in Locals
      BY <1>0 DEF Locals
    <3>2. actor' = stopped \/ actor' = FinishCallbacks(stopped, "cancel", "terminate")
      BY <1>1 DEF OnCancelled
    <3> HIDE DEF stopped
    <3> QED
      BY <3>1, <3>2, FinishCallbacksType
  <2>2. calls' \in [Calls -> Call] /\ inbox' \in Seq(Calls)
    BY <1>0, <1>1, HangupType DEF OnCancelled, Call
  <2>3. cell' \in Cells
    BY <1>0, <1>1 DEF OnCancelled, Cells
  <2>4. runtime' \in Threads /\ runtime'.items = runtime.items /\ runtime'.emitted = runtime.emitted
    BY <1>0, <1>1, BeginTerminationType, TerminationFrame DEF OnCancelled
  <2> QED
    BY <1>0, <1>1, <1>c, <2>1, <2>2, <2>3, <2>4 DEF OnCancelled
<1>2. CASE OnObserve
  <2>1. UNCHANGED <<session, events, running, kills>>
    BY <1>2 DEF OnObserve
  <2> QED
    BY <1>0, <1>2, <1>c, <2>1, ObserveTypes
<1>3. CASE OnYieldTimer
  <2>1. TellObserver(actor, "yielded")
        /\ UNCHANGED <<session, cell, inbox, events, runtime, running, kills>>
    BY <1>3 DEF OnYieldTimer
  <2> QED
    BY <1>0, <1>c, <2>1, TellType DEF Kinds
<1>4. CASE OnRuntimeEvent
  <2>1. UNCHANGED <<session, cell, inbox, kills>>
    BY <1>4 DEF OnRuntimeEvent
  <2> QED
    BY <1>0, <1>4, <2>1, EventTypes
<1>5. CASE OnRuntimeGone
  <2>1. [actor EXCEPT !.closed = TRUE] \in Locals
    BY <1>0 DEF Locals
  <2>2. actor' \in Locals
    BY <1>5, <2>1, FinishCallbacksType DEF OnRuntimeGone, OnRuntimeEnd
  <2> QED
    BY <1>0, <1>5, <1>c, <2>2 DEF OnRuntimeGone
<1>6. CASE NotesDrained
  <2>1. actor' \in Locals
    BY <1>0, <1>6 DEF NotesDrained, Locals
  <2> QED
    BY <1>0, <1>6, <1>c, <2>1 DEF NotesDrained
<1>7. CASE WindUp
  <2>1. actor' \in Locals
    BY <1>0, <1>7, LocalTypes DEF WindUp
  <2>2. Event("terminated", actor.content) \in Answers
    BY <1>a, AnswerFacts DEF Kinds
  <2>3. cell' \in Cells /\ calls' \in [Calls -> Call] /\ kills' \in [Killers -> Kill]
    BY <1>7, <2>2, FinishTypes DEF WindUp
  <2> QED
    BY <1>0, <1>7, <1>c, <2>1, <2>3 DEF WindUp
<1>8. CASE Complete
  <2>1. Event("completed", actor.content) \in Answers
    BY <1>a, AnswerFacts DEF Kinds
  <2>2. actor' \in Locals
    <3> DEFINE r == Event("completed", actor.content)
    <3>1. actor' = [actor EXCEPT !.at = "commit", !.content = <<>>, !.rejected = r] /\ r \in Answers
      BY <1>8, <2>1 DEF Complete
    <3> HIDE DEF r
    <3> QED
      BY <1>0, <3>1, ItemsFacts DEF Locals
  <2> QED
    BY <1>0, <1>8, <1>c, <2>2 DEF Complete
<1>9. CASE CommitCompletion
  <2>1. cell' \in Cells
    <3>1. [cell EXCEPT !.phase = "completed", !.event = actor.rejected, !.stored = TRUE] \in Cells
      BY <1>0, <1>a DEF Cells, Phases
    <3> QED
      BY <1>0, <1>9, <3>1 DEF CommitCompletion
  <2>2. actor' \in Locals
    <3>1. Say("none") \in Answers
      BY AnswerFacts DEF Kinds
    <3>2. \/ actor' = [actor EXCEPT !.at = "deliver", !.rejected = Say("none")]
          \/ actor' = [actor EXCEPT !.at = "deliver"]
      BY <1>9 DEF CommitCompletion
    <3> QED
      BY <1>0, <3>1, <3>2 DEF Locals
  <2> QED
    BY <1>0, <1>9, <1>c, <2>1, <2>2 DEF CommitCompletion
<1>10. CASE DeliverCompletion
  <2>0. UNCHANGED <<session, inbox, events, runtime, running, told>>
    BY <1>10 DEF DeliverCompletion
  <2>1. CASE cell.phase = "completed"
    <3>1. cell' \in Cells
      BY <1>0, <1>10, <1>d, <2>1 DEF DeliverCompletion
    <3>2. actor' \in Locals
      BY <1>0, <1>10, <2>1, LocalTypes DEF DeliverCompletion
    <3>3. calls' \in [Calls -> Call]
      <4>1. calls' = calls \/ calls' = Told(calls, actor.observer, cell.event)
        BY <1>10, <2>1 DEF DeliverCompletion
      <4>2. Told(calls, actor.observer, cell.event) \in [Calls -> Call]
        BY <1>0, <1>a, ToldType DEF Call
      <4> QED
        BY <1>0, <4>1, <4>2
    <3>4. kills' = kills
      BY <1>10, <2>1 DEF DeliverCompletion
    <3> QED
      BY <1>0, <1>c, <2>0, <3>1, <3>2, <3>3, <3>4
  <2>2. CASE cell.phase # "completed"
    <3>1. /\ FinishTermination(Event("terminated", actor.rejected.items))
          /\ actor' = [actor EXCEPT !.at = "left", !.observer = None, !.rejected = Say("none")]
      BY <1>10, <2>2 DEF DeliverCompletion
    <3>2. Event("terminated", actor.rejected.items) \in Answers
      BY <1>a, AnswerFacts DEF Kinds
    <3>3. cell' \in Cells /\ calls' \in [Calls -> Call] /\ kills' \in [Killers -> Kill]
      BY <3>1, <3>2, FinishTypes
    <3>4. actor' \in Locals
      <4>1. Say("none") \in Answers
        BY AnswerFacts DEF Kinds
      <4> QED
        BY <1>0, <3>1, <4>1 DEF Locals
    <3> QED
      BY <1>0, <1>c, <2>0, <3>3, <3>4
  <2> QED
    BY <2>1, <2>2
<1>11. CASE LeaveLoop
  <2>1. actor' \in Locals
    <3>1. [actor EXCEPT !.open = FALSE] \in Locals
      BY <1>0 DEF Locals
    <3> QED
      BY <1>11, <3>1, FinishCallbacksType DEF LeaveLoop
  <2>2. calls' \in [Calls -> Call] /\ inbox' \in Seq(Calls)
    BY <1>0, <1>11, HangupType DEF LeaveLoop, Call
  <2>3. cell' \in Cells
    BY <1>11, <1>d DEF LeaveLoop
  <2>4. runtime' \in Threads /\ runtime'.items = runtime.items /\ runtime'.emitted = runtime.emitted
    BY <1>0, <1>11, BeginTerminationType, TerminationFrame DEF LeaveLoop
  <2>5. kills' \in [Killers -> Kill]
    <3>1. Say("closed") \in Answers
      BY AnswerFacts DEF Kinds
    <3>2. [st |-> "done", got |-> Say("closed")] \in Kill
      BY <3>1 DEF Kill
    <3> QED
      BY <1>0, <1>11, <3>2 DEF LeaveLoop
  <2> QED
    BY <1>0, <1>11, <1>c, <2>1, <2>2, <2>3, <2>4, <2>5 DEF LeaveLoop
<1>12. CASE Close
  <2>1. session' \in Sessions
    BY <1>0, <1>12 DEF Close, Sessions
  <2>2. actor' \in Locals
    BY <1>0, <1>12, LocalTypes DEF Close
  <2>3. events' = <<>>
    BY <1>12 DEF Close
  <2> QED
    BY <1>0, <1>12, <2>1, <2>2, <2>3 DEF Close
<1> QED
  BY <1>1, <1>2, <1>3, <1>4, <1>5, <1>6, <1>7, <1>8, <1>9, <1>10, <1>11, <1>12 DEF Actor

-----------------------------------------------------------------------------
(* Where the steps differ                                                   *)

\* A step that leaves the cell, its actor, its runtime and its terminators alone.
Aside == UNCHANGED <<cell, actor, events, runtime, running, kills, told>>

\* Every step is one of six sorts.
LEMMA StepCases ==
  ASSUME [Next]_vars
  PROVE  \/ Aside
         \/ \E mode \in Modes : ~session.down /\ StartCellUnchecked(mode)
         \/ \E k \in Killers : Terminate(k)
         \/ RuntimeThread
         \/ Callback
         \/ Actor
<1>1. CASE UNCHANGED vars
  BY <1>1 DEF vars, Aside
<1>2. CASE Caller
  <2>1. CASE Execute \/ BeginShutdown \/ ShutdownReturns
    BY <2>1 DEF Execute, BeginShutdown, ShutdownReturns, Aside
  <2>2. CASE \E mode \in Modes : StartCell(mode)
    BY <2>2 DEF StartCell, Aside
  <2>3. CASE \E c \in Calls, mode \in Modes : BeginObserve(c, mode)
    BY <2>3 DEF BeginObserve, Aside
  <2>4. CASE \E c \in Calls : SendObserve(c)
    BY <2>4 DEF SendObserve, Aside
  <2>5. CASE \E c \in Calls : DropCall(c)
    BY <2>5 DEF DropCall, Aside
  <2> QED
    BY <1>2, <2>1, <2>2, <2>3, <2>4, <2>5 DEF Caller
<1> QED
  BY <1>1, <1>2 DEF Next

\* The runtime thread changes only itself and its events.
LEMMA RuntimeFrame == RuntimeThread => RuntimeOnly
BY DEF RuntimeThread, RuntimeStart, ScriptEmits, ScriptTurnEnds, PollCommand, AwaitControl, AwaitCommand

\* A callback that ends changes nothing but the count and the runtime's commands.
LEMMA CallbackFrame ==
  TypeOK /\ Callback =>
    /\ UNCHANGED <<session, cell, actor, inbox, events, calls, kills, told>>
    /\ \/ runtime' = runtime
       \/ runtime.at # "ended" /\ runtime' = [runtime EXCEPT !.commands = Append(@, "response")]
BY DEF Callback, NotificationEnds, ToolEnds

\* What the steps of the actor do to the locals that the invariant speaks of.
Keeps(a, b) ==
  /\ a.closed = b.closed /\ a.next = b.next /\ a.content = b.content
  /\ a.rejected = b.rejected /\ a.paused = b.paused

\* The cancelled token winds a closed cell up and keeps what it holds.
LEMMA CancelledEffect ==
  ASSUME TypeOK, OnCancelled
  PROVE  /\ actor.at = "loop" /\ actor'.observer = actor.observer
         /\ actor.closed => actor'.at = "notes" /\ actor'.next = "terminate"
         /\ ~actor.closed => actor'.at = "loop" /\ actor'.next = actor.next
         /\ actor'.closed = actor.closed /\ actor'.content = actor.content
         /\ actor'.rejected = actor.rejected /\ actor'.paused = actor.paused
BY DEF TypeOK, OnCancelled, FinishCallbacks, Locals

\* A new observer ends the pause.
LEMMA AttachEffect ==
  ASSUME TypeOK, NEW c, AttachObserver(c)
  PROVE  /\ actor'.at = actor.at /\ actor'.observer = c /\ ~actor'.paused
         /\ actor'.closed = actor.closed /\ actor'.next = actor.next
         /\ actor'.content = actor.content /\ actor'.rejected = actor.rejected
BY DEF TypeOK, AttachObserver, Locals

\* A frontier that is handed out leaves the pause as it is.
LEMMA HandOutEffect ==
  ASSUME TypeOK, NEW c, HandOutFrontier(c)
  PROVE  /\ actor'.at = actor.at /\ actor'.observer = None /\ actor'.content = <<>>
         /\ actor'.paused = actor.paused /\ actor'.closed = actor.closed
         /\ actor'.next = actor.next /\ actor'.rejected = actor.rejected
BY DEF TypeOK, HandOutFrontier, Vacated, Locals

\* Telling the observer empties the output when it hears, and only then.
LEMMA TellEffect ==
  ASSUME NEW a \in Locals, NEW kind, TellObserver(a, kind)
  PROVE  /\ actor'.at = a.at /\ actor'.observer = None /\ actor'.paused = a.paused
         /\ actor'.closed = a.closed /\ actor'.next = a.next /\ actor'.rejected = a.rejected
         /\ actor'.content = IF StillObserved THEN <<>> ELSE a.content
BY DEF TellObserver, Locals

\* The end of the runtime closes the cell.
LEMMA EndEffect ==
  ASSUME NEW a \in Locals, OnRuntimeEnd(a)
  PROVE  /\ actor'.at = "notes" /\ actor'.next \in {"terminate", "complete"} /\ actor'.closed
         /\ actor'.paused = a.paused /\ actor'.observer = a.observer
         /\ actor'.content = a.content /\ actor'.rejected = a.rejected
BY DEF OnRuntimeEnd, FinishCallbacks, Locals

\* What the steps after an await do to the locals.
LEMMA WindEffects ==
  ASSUME TypeOK
  PROVE  /\ NotesDrained => /\ actor.at = "notes" /\ actor'.at = "tools" /\ Keeps(actor', actor)
                            /\ actor'.observer = actor.observer
         /\ WindUp => /\ actor.at = "tools" /\ actor.next = "terminate" /\ actor'.at = "left"
                      /\ actor'.closed = actor.closed /\ actor'.rejected = actor.rejected
                      /\ actor'.paused = actor.paused
         /\ Complete => /\ actor.at = "tools" /\ actor.next = "complete" /\ actor'.at = "commit"
                        /\ actor'.content = <<>> /\ actor'.rejected = Event("completed", actor.content)
                        /\ actor'.closed = actor.closed /\ actor'.paused = actor.paused
         /\ CommitCompletion =>
              /\ actor.at = "commit" /\ actor'.at = "deliver" /\ actor'.closed = actor.closed
              /\ actor'.content = actor.content /\ actor'.paused = actor.paused
              /\ \/ cell.phase = "running" /\ actor'.rejected = Say("none")
                 \/ ~(cell.phase = "running" /\ ~Cancelled) /\ actor'.rejected = actor.rejected
         /\ DeliverCompletion =>
              /\ actor.at = "deliver" /\ actor'.closed = actor.closed
              /\ actor'.content = actor.content /\ actor'.paused = actor.paused
              /\ actor'.observer = None
              /\ actor'.at = IF cell.phase = "completed" /\ ~StillObserved THEN "loop" ELSE "left"
         /\ LeaveLoop => /\ actor.at = "left" /\ actor'.at = "notes" /\ actor'.next = "close"
                         /\ actor'.closed = actor.closed /\ actor'.paused = actor.paused
         /\ Close => /\ actor.at = "tools" /\ actor.next = "close" /\ actor'.at = "done"
                     /\ actor'.closed = actor.closed /\ actor'.paused = actor.paused
<1>0. actor \in Locals
  BY DEF TypeOK
<1>1. ASSUME NotesDrained PROVE /\ actor.at = "notes" /\ actor'.at = "tools" /\ Keeps(actor', actor)
                                /\ actor'.observer = actor.observer
  BY <1>0, <1>1 DEF NotesDrained, Keeps, Locals
<1>2. ASSUME WindUp PROVE /\ actor.at = "tools" /\ actor.next = "terminate" /\ actor'.at = "left"
                          /\ actor'.closed = actor.closed /\ actor'.rejected = actor.rejected
                          /\ actor'.paused = actor.paused
  BY <1>0, <1>2 DEF WindUp, Locals
<1>3. ASSUME Complete
      PROVE  /\ actor.at = "tools" /\ actor.next = "complete" /\ actor'.at = "commit"
             /\ actor'.content = <<>> /\ actor'.rejected = Event("completed", actor.content)
             /\ actor'.closed = actor.closed /\ actor'.paused = actor.paused
  BY <1>0, <1>3 DEF Complete, Locals
<1>4. ASSUME CommitCompletion
      PROVE  /\ actor.at = "commit" /\ actor'.at = "deliver" /\ actor'.closed = actor.closed
             /\ actor'.content = actor.content /\ actor'.paused = actor.paused
             /\ \/ cell.phase = "running" /\ actor'.rejected = Say("none")
                \/ ~(cell.phase = "running" /\ ~Cancelled) /\ actor'.rejected = actor.rejected
  BY <1>0, <1>4 DEF CommitCompletion, Locals
<1>5. ASSUME DeliverCompletion
      PROVE  /\ actor.at = "deliver" /\ actor'.closed = actor.closed
             /\ actor'.content = actor.content /\ actor'.paused = actor.paused
             /\ actor'.observer = None
             /\ actor'.at = IF cell.phase = "completed" /\ ~StillObserved THEN "loop" ELSE "left"
  BY <1>0, <1>5 DEF DeliverCompletion, Locals
<1>6. ASSUME LeaveLoop PROVE /\ actor.at = "left" /\ actor'.at = "notes" /\ actor'.next = "close"
                             /\ actor'.closed = actor.closed /\ actor'.paused = actor.paused
  BY <1>0, <1>6 DEF LeaveLoop, FinishCallbacks, Locals
<1>7. ASSUME Close PROVE /\ actor.at = "tools" /\ actor.next = "close" /\ actor'.at = "done"
                         /\ actor'.closed = actor.closed /\ actor'.paused = actor.paused
  BY <1>0, <1>7 DEF Close, Locals
<1> QED
  BY <1>1, <1>2, <1>3, <1>4, <1>5, <1>6, <1>7

\* The five ways in which an observation is handled.
LEMMA ObserveCases ==
  ASSUME OnObserve
  PROVE  /\ actor.at = "loop" /\ inbox # <<>> /\ inbox' = Tail(inbox)
         /\ UNCHANGED <<session, events, running, kills>>
         /\ \/ UNCHANGED <<cell, actor, runtime, calls, told>>
            \/ \E kind \in {"closed", "busy"} : Refuse(Head(inbox), kind)
            \/ /\ cell.phase = "completed"
               /\ calls' = Told(calls, Head(inbox), cell.event)
               /\ cell' = [cell EXCEPT !.phase = "tombstone", !.cancelled = TRUE]
               /\ actor' = [actor EXCEPT !.at = "left"]
               /\ UNCHANGED <<runtime, told>>
            \/ cell.phase = "running" /\ Listening(Head(inbox)) /\ HandOutFrontier(Head(inbox))
            \/ cell.phase = "running" /\ AttachObserver(Head(inbox))
BY DEF OnObserve

\* The kinds of runtime events and what they do to the rest.
LEMMA EventCases ==
  ASSUME TypeOK, OnRuntimeEvent
  PROVE  /\ actor.at = "loop" /\ ~actor.closed /\ events # <<>> /\ events' = Tail(events)
         /\ UNCHANGED <<session, cell, inbox, kills>>
         /\ \/ /\ Head(events).kind = "started"
               /\ actor' = [actor EXCEPT !.timer = ObserverMode("yield_after")]
               /\ UNCHANGED <<runtime, running, calls, told>>
            \/ /\ Head(events).kind = "item"
               /\ actor' = [actor EXCEPT !.content = Append(@, Head(events).item)]
               /\ UNCHANGED <<runtime, running, calls, told>>
            \/ /\ Head(events).kind = "yield" /\ TellObserver(actor, "yielded")
               /\ UNCHANGED <<runtime, running>>
            \/ /\ Head(events).kind \in {"yield", "notify", "tool", "panicked"}
               /\ UNCHANGED <<actor, runtime, calls, told>>
            \/ /\ Head(events).kind = "pending" /\ OnPending /\ UNCHANGED running
            \/ /\ Head(events).kind = "result" /\ OnRuntimeEnd([actor EXCEPT !.timer = FALSE])
               /\ UNCHANGED <<runtime, running, calls, told>>
BY DEF OnRuntimeEvent

\* What a runtime event that is not the last one leaves alone in the actor.
LEMMA EventEffect ==
  ASSUME TypeOK, OnRuntimeEvent, Head(events).kind # "result"
  PROVE  /\ actor'.at = "loop" /\ actor'.closed = actor.closed /\ actor'.next = actor.next
         /\ actor'.rejected = actor.rejected /\ actor'.observer \in {actor.observer, None}
<1>0. actor \in Locals /\ actor.at = "loop"
  BY EventCases DEF TypeOK
<1>1. CASE UNCHANGED actor
  BY <1>0, <1>1
<1>2. CASE actor' = [actor EXCEPT !.timer = ObserverMode("yield_after")]
  BY <1>0, <1>2 DEF Locals
<1>3. CASE actor' = [actor EXCEPT !.content = Append(@, Head(events).item)]
  BY <1>0, <1>3 DEF Locals
<1>4. CASE TellObserver(actor, "yielded")
  BY <1>0, <1>4, TellEffect
<1>5. CASE OnPending
  <2> DEFINE a == [actor EXCEPT !.paused = TRUE, !.ready = ~StillObserved]
  <2>1. (~StillObserved) \in BOOLEAN
    BY DEF StillObserved, Listening
  <2>2. /\ a \in Locals /\ a.closed = actor.closed /\ a.at = actor.at /\ a.next = actor.next
        /\ a.rejected = actor.rejected
    BY <1>0, <2>1 DEF Locals
  <2>3. TellObserver(a, "pending") \/ actor' = [actor EXCEPT !.paused = FALSE]
    BY <1>5 DEF OnPending
  <2> HIDE DEF a
  <2> QED
    BY <1>0, <2>2, <2>3, TellEffect DEF Locals
<1> QED
  BY <1>1, <1>2, <1>3, <1>4, <1>5, EventCases

\* What the result leaves alone.
LEMMA ResultEffect ==
  ASSUME TypeOK, OnRuntimeEvent, Head(events).kind = "result"
  PROVE  /\ actor'.at = "notes" /\ actor'.next \in {"terminate", "complete"} /\ actor'.closed
         /\ actor'.paused = actor.paused /\ actor'.observer = actor.observer
         /\ actor'.content = actor.content /\ actor'.rejected = actor.rejected
         /\ UNCHANGED <<runtime, running, calls, told>>
<1> DEFINE a == [actor EXCEPT !.timer = FALSE]
<1>1. OnRuntimeEnd(a) /\ UNCHANGED <<runtime, running, calls, told>>
  BY EventCases
<1>2. /\ a \in Locals /\ a.paused = actor.paused /\ a.observer = actor.observer
      /\ a.content = actor.content /\ a.rejected = actor.rejected
  BY DEF TypeOK, Locals
<1> HIDE DEF a
<1> QED
  BY <1>1, <1>2, EndEffect

-----------------------------------------------------------------------------
(* The end of the runtime                                                   *)

\* A result is sent last.
LEMMA EmitEnded ==
  ASSUME TypeOK, Ended, NEW kind, NEW item, Emit(kind, item), runtime.at # "ended",
         kind = "result" => runtime'.at = "ended"
  PROVE  \A i \in DOMAIN events' :
           events'[i].kind = "result" => i = Len(events') /\ runtime'.at = "ended"
<1>0. events \in Seq(RuntimeEvents)
  BY DEF TypeOK
<1>1. \A i \in DOMAIN events : events[i].kind # "result"
  BY DEF Ended
<1>2. CASE actor.at = "done"
  BY <1>1, <1>2 DEF Emit
<1>3. CASE actor.at # "done"
  <2> DEFINE e == [kind |-> kind, item |-> item]
  <2>1. events' = Append(events, e)
    BY <1>3 DEF Emit
  <2>2. e.kind = kind
    OBVIOUS
  <2> HIDE DEF e
  <2>3. /\ Len(events') = Len(events) + 1 /\ DOMAIN events' = 1..(Len(events) + 1)
        /\ DOMAIN events = 1..Len(events) /\ Len(events) \in Nat
        /\ \A i \in 1..Len(events) : events'[i] = events[i]
        /\ events'[Len(events) + 1] = e
    BY <1>0, <2>1
  <2>4. \A i \in DOMAIN events' : i \in 1..Len(events) \/ i = Len(events) + 1
    BY <2>3
  <2> QED
    BY <1>1, <2>2, <2>3, <2>4
<1> QED
  BY <1>2, <1>3

\* Every step keeps Ended.
LEMMA EndedPreserved == TypeOK /\ Registered /\ Ended /\ Stage /\ [Next]_vars => Ended'
<1> SUFFICES ASSUME TypeOK, Registered, Ended, Stage, [Next]_vars PROVE Ended'
  OBVIOUS
<1>0. actor \in Locals /\ runtime \in Threads /\ events \in Seq(RuntimeEvents)
  BY DEF TypeOK
<1>1. CASE Aside \/ \E k \in Killers : Terminate(k)
  BY <1>1 DEF Aside, Terminate, Ended
<1>2. ASSUME NEW mode \in Modes, StartCellUnchecked(mode) PROVE Ended'
  <2>1. actor'.closed = actor.closed /\ actor'.at = "loop" /\ events' = events
    BY <1>0, <1>2 DEF StartCellUnchecked, Locals
  <2>2. actor.at = "off" /\ runtime.at = "off"
    BY <1>2 DEF StartCellUnchecked, Registered, Ended
  <2> QED
    BY <2>1, <2>2 DEF Ended
<1>3. CASE RuntimeThread
  <2>1. actor' = actor
    BY <1>3, RuntimeFrame DEF RuntimeOnly
  <2>2. runtime.at \notin {"off", "ended"} /\ ~actor.closed
    BY <1>3 DEF Ended, RuntimeThread, RuntimeStart, ScriptEmits, ScriptTurnEnds, PollCommand, AwaitControl, AwaitCommand
  <2>3. \/ UNCHANGED events
        \/ \E kind, item : Emit(kind, item) /\ (kind = "result" => runtime'.at = "ended")
    <3>1. CASE RuntimeStart \/ ScriptTurnEnds
      BY <1>0, <3>1 DEF RuntimeStart, ScriptTurnEnds, Goto, Threads
    <3>2. CASE \E kind \in Emissions : ScriptEmits(kind)
      BY <3>2 DEF ScriptEmits, Emissions
    <3>3. CASE PollCommand \/ AwaitControl \/ AwaitCommand
      BY <3>3 DEF PollCommand, AwaitControl, AwaitCommand
    <3> QED
      BY <1>3, <3>1, <3>2, <3>3 DEF RuntimeThread
  <2>4. \A i \in DOMAIN events' :
           events'[i].kind = "result" => i = Len(events') /\ runtime'.at = "ended"
    <3>1. CASE UNCHANGED events
      BY <2>2, <3>1 DEF Ended
    <3>2. CASE \E kind, item : Emit(kind, item) /\ (kind = "result" => runtime'.at = "ended")
      BY <2>2, <3>2, EmitEnded
    <3> QED
      BY <2>3, <3>1, <3>2
  <2> QED
    BY <2>1, <2>2, <2>4 DEF Ended
<1>4. CASE Callback
  <2>1. actor' = actor /\ events' = events /\ runtime'.at = runtime.at
    BY <1>0, <1>4, CallbackFrame DEF Threads
  <2> QED
    BY <2>1 DEF Ended
<1>5. ASSUME \/ events' = events
             \/ events' = <<>>
             \/ events # <<>> /\ events' = Tail(events) /\ Head(events).kind # "result",
             runtime'.at = runtime.at, actor'.closed = actor.closed,
             actor.at # "off", actor'.at # "off", actor'.at # "loop" => actor'.closed
      PROVE  Ended'
  <2>1. actor'.closed => events' = <<>> /\ runtime'.at = "ended"
    BY <1>5 DEF Ended
  <2>2. CASE events' = events \/ events' = <<>>
    BY <1>5, <2>1, <2>2 DEF Ended
  <2>3. CASE events # <<>> /\ events' = Tail(events)
    <3>1. ASSUME NEW i \in DOMAIN events', events'[i].kind = "result"
          PROVE  i = Len(events') /\ runtime'.at = "ended"
      <4>1. /\ i + 1 \in DOMAIN events /\ events'[i] = events[i + 1]
            /\ Len(events') = Len(events) - 1 /\ i \in Nat /\ Len(events) \in Nat
        BY <1>0, <2>3, EventTail
      <4>2. i + 1 = Len(events) /\ runtime.at = "ended"
        BY <3>1, <4>1 DEF Ended
      <4> QED
        BY <1>5, <4>1, <4>2
    <3> QED
      BY <1>5, <2>1, <3>1 DEF Ended
  <2> QED
    BY <1>5, <2>2, <2>3
<1>6. CASE OnCancelled
  <2>1. events' = events /\ runtime'.at = runtime.at
    BY <1>0, <1>6 DEF OnCancelled, BeginTermination, Threads
  <2> QED
    BY <1>5, <1>6, <2>1, CancelledEffect
<1>7. CASE OnObserve
  <2>1. events' = events /\ actor.at = "loop"
    BY <1>7, ObserveCases
  <2>2. runtime'.at = runtime.at
    BY <1>0, <1>7, ObserveCases DEF Refuse, HandOutFrontier, AttachObserver, Resumed, Threads
  <2>3. actor'.closed = actor.closed /\ (actor'.at = "loop" \/ (actor'.at = "left" /\ cell.phase = "completed"))
    BY <1>0, <1>7, <2>1, ObserveCases, HandOutEffect, AttachEffect DEF Refuse, Locals
  <2>4. cell.phase = "completed" => actor.closed
    BY DEF Stage
  <2> QED
    BY <1>5, <2>1, <2>2, <2>3, <2>4
<1>8. CASE OnYieldTimer
  <2>1. /\ actor.at = "loop" /\ TellObserver(actor, "yielded") /\ UNCHANGED <<events, runtime>>
    BY <1>8 DEF OnYieldTimer
  <2> QED
    BY <1>0, <1>5, <2>1, TellEffect
<1>9. CASE OnRuntimeEvent
  <2>0. /\ actor.at = "loop" /\ ~actor.closed /\ events # <<>> /\ events' = Tail(events)
    BY <1>9, EventCases
  <2>1. CASE Head(events).kind = "result"
    <3>1. Len(events) = 1 /\ runtime.at = "ended"
      <4>1. 1 \in DOMAIN events /\ events[1].kind = "result"
        BY <1>0, <2>0, <2>1, EventTail
      <4> QED
        BY <4>1 DEF Ended
    <3>2. events' = <<>>
      BY <1>0, <2>0, <3>1, OnlyOne
    <3>3. OnRuntimeEnd([actor EXCEPT !.timer = FALSE]) /\ runtime' = runtime
      BY <1>9, <2>1, EventCases
    <3>4. [actor EXCEPT !.timer = FALSE] \in Locals
      BY <1>0, LocalTypes
    <3>5. actor'.at = "notes" /\ actor'.closed
      BY <3>3, <3>4, EndEffect
    <3> QED
      BY <3>1, <3>2, <3>3, <3>5 DEF Ended
  <2>2. CASE Head(events).kind # "result"
    <3>1. runtime'.at = runtime.at
      BY <1>0, <1>9, <2>2, EventCases DEF OnPending, Threads
    <3>2. actor'.closed = actor.closed /\ actor'.at = "loop"
      BY <1>9, <2>2, EventEffect
    <3> QED
      BY <1>5, <2>0, <2>2, <3>1, <3>2
  <2> QED
    BY <2>1, <2>2
<1>10. CASE OnRuntimeGone
  <2>1. /\ OnRuntimeEnd(actor) /\ events = <<>> /\ runtime.at = "ended"
        /\ UNCHANGED <<events, runtime>>
    BY <1>10 DEF OnRuntimeGone
  <2>2. actor'.at = "notes" /\ actor'.closed
    BY <1>0, <2>1, EndEffect
  <2> QED
    BY <2>1, <2>2 DEF Ended
<1>11. CASE NotesDrained \/ WindUp \/ Complete \/ CommitCompletion \/ DeliverCompletion
  <2>1. events' = events /\ runtime' = runtime
    BY <1>11 DEF NotesDrained, WindUp, Complete, CommitCompletion, DeliverCompletion
  <2>2. actor'.closed = actor.closed /\ actor'.at # "off" /\ actor.at \notin {"off", "loop"}
    BY <1>11, WindEffects DEF Keeps
  <2> QED
    BY <1>5, <2>1, <2>2 DEF Ended
<1>12. CASE LeaveLoop
  <2>1. events' = events /\ runtime'.at = runtime.at
    BY <1>0, <1>12 DEF LeaveLoop, BeginTermination, Threads
  <2>2. actor'.closed = actor.closed /\ actor'.at = "notes" /\ actor.at = "left"
    BY <1>12, WindEffects
  <2> QED
    BY <1>5, <2>1, <2>2 DEF Ended
<1>13. CASE Close
  <2>1. events' = <<>> /\ runtime' = runtime
    BY <1>13 DEF Close
  <2>2. actor'.closed = actor.closed /\ actor'.at = "done" /\ actor.at = "tools"
    BY <1>13, WindEffects
  <2> QED
    BY <1>5, <2>1, <2>2 DEF Ended
<1>14. CASE Actor
  BY <1>6, <1>7, <1>8, <1>9, <1>10, <1>11, <1>12, <1>13, <1>14 DEF Actor
<1> QED
  BY <1>1, <1>2, <1>3, <1>4, <1>14, StepCases

-----------------------------------------------------------------------------
(* The registry, the phase and the place of the actor                       *)

\* Every step keeps Registered: start_cell looks at the token under the lock.
LEMMA RegisteredPreserved ==
  TypeOK /\ Registered /\ [Next]_vars => Registered'
<1> SUFFICES ASSUME TypeOK, Registered, [Next]_vars PROVE Registered'
  OBVIOUS
<1>0. actor \in Locals /\ session \in Sessions /\ cell \in Cells
  BY DEF TypeOK
<1>1. CASE UNCHANGED <<session, actor, cell>>
  BY <1>1 DEF Registered, ShutdownIsFinal
<1>2. CASE Execute \/ BeginShutdown \/ ShutdownReturns
  BY <1>0, <1>2 DEF Execute, BeginShutdown, ShutdownReturns, Registered, ShutdownIsFinal, Sessions
<1>3. ASSUME NEW mode \in Modes, StartCell(mode) PROVE Registered'
  BY <1>0, <1>3 DEF StartCell, StartCellUnchecked, Registered, ShutdownIsFinal, Sessions, Locals
<1>4. ASSUME NEW k \in Killers, Terminate(k) PROVE Registered'
  <2>1. session.entry \in {"open", "removed"} /\ UNCHANGED <<session, actor>>
    BY <1>4 DEF Terminate
  <2> QED
    BY <2>1 DEF Registered, ShutdownIsFinal
<1>5. ASSUME actor.at \notin {"off", "done"}, actor'.at # "off",
             session' = session \/ (actor'.at = "done" /\ session' = [session EXCEPT !.entry = "removed"])
      PROVE  Registered'
  BY <1>0, <1>5 DEF Registered, ShutdownIsFinal, Sessions
<1>6. CASE Actor
  <2>1. CASE OnCancelled
    BY <1>5, <2>1, CancelledEffect DEF OnCancelled
  <2>2. CASE OnObserve
    <3>1. actor.at = "loop" /\ session' = session
      BY <2>2, ObserveCases
    <3>2. actor'.at \in {"loop", "left"}
      BY <1>0, <2>2, <3>1, ObserveCases, HandOutEffect, AttachEffect DEF Refuse, Locals
    <3> QED
      BY <1>5, <3>1, <3>2
  <2>3. CASE OnYieldTimer
    <3>1. actor.at = "loop" /\ TellObserver(actor, "yielded") /\ session' = session
      BY <2>3 DEF OnYieldTimer
    <3> QED
      BY <1>0, <1>5, <3>1, TellEffect
  <2>4. CASE OnRuntimeEvent
    BY <1>5, <2>4, EventCases, EventEffect, ResultEffect
  <2>5. CASE OnRuntimeGone
    <3>1. actor.at = "loop" /\ OnRuntimeEnd(actor) /\ session' = session
      BY <2>5 DEF OnRuntimeGone
    <3> QED
      BY <1>0, <1>5, <3>1, EndEffect
  <2>6. CASE NotesDrained \/ WindUp \/ Complete \/ CommitCompletion \/ DeliverCompletion \/ LeaveLoop
    <3>1. session' = session
      BY <2>6 DEF NotesDrained, WindUp, Complete, CommitCompletion, DeliverCompletion, LeaveLoop
    <3>2. actor.at \notin {"off", "done"} /\ actor'.at # "off"
      BY <2>6, WindEffects
    <3> QED
      BY <1>5, <3>1, <3>2
  <2>7. CASE Close
    BY <1>5, <2>7, WindEffects DEF Close
  <2> QED
    BY <1>6, <2>1, <2>2, <2>3, <2>4, <2>5, <2>6, <2>7 DEF Actor
<1>7. CASE RuntimeThread \/ Callback
  BY <1>1, <1>7, RuntimeFrame, CallbackFrame DEF RuntimeOnly
<1>8. CASE Caller
  <2>1. CASE \E c \in Calls, mode \in Modes : BeginObserve(c, mode)
    BY <1>1, <2>1 DEF BeginObserve
  <2>2. CASE \E c \in Calls : SendObserve(c) \/ DropCall(c)
    BY <1>1, <2>2 DEF SendObserve, DropCall
  <2> QED
    BY <1>2, <1>3, <1>4, <1>8, <2>1, <2>2 DEF Caller
<1> QED
  BY <1>1, <1>6, <1>7, <1>8 DEF Next, vars

\* finish_termination leaves a tombstone and the event as it was.
LEMMA FinishEffect ==
  ASSUME TypeOK, NEW event, FinishTermination(event)
  PROVE  /\ cell'.phase = "tombstone" /\ cell'.killer = cell.killer
         /\ cell'.event = cell.event /\ cell'.stored = cell.stored
BY DEF TypeOK, FinishTermination, Cells

\* Every step keeps Stage.
LEMMA StagePreserved ==
  TypeOK /\ Registered /\ Ended /\ Stage /\ [Next]_vars => Stage'
<1> SUFFICES ASSUME TypeOK, Registered, Ended, Stage, [Next]_vars PROVE Stage'
  OBVIOUS
<1>0. actor \in Locals /\ cell \in Cells
  BY DEF TypeOK
<1>1. CASE UNCHANGED <<actor, cell>>
  BY <1>1 DEF Stage, Leaving
<1>2. ASSUME NEW mode \in Modes, StartCellUnchecked(mode) PROVE Stage'
  <2>1. cell.phase = "running" /\ cell' = cell
    BY <1>2 DEF StartCellUnchecked, Registered
  <2>2. actor'.at = "loop"
    BY <1>0, <1>2 DEF StartCellUnchecked, Locals
  <2> QED
    BY <2>1, <2>2 DEF Stage, Leaving
<1>3. ASSUME NEW k \in Killers, Terminate(k) PROVE Stage'
  <2>1. actor' = actor
    BY <1>3 DEF Terminate
  <2>2. \/ cell' = cell
        \/ cell.phase = "running" /\ cell'.phase = "terminating" /\ cell'.killer = k
        \/ cell.phase = "completed" /\ cell'.phase = "claimed"
    BY <1>0, <1>3 DEF Terminate, Cells
  <2> QED
    BY <2>1, <2>2 DEF Stage, Leaving
<1>4. CASE OnCancelled
  <2>1. cell'.phase = cell.phase /\ cell'.killer = cell.killer
    BY <1>0, <1>4 DEF OnCancelled, Cells
  <2> QED
    BY <1>4, <2>1, CancelledEffect DEF Stage, Leaving
<1>5. CASE OnObserve
  <2>1. CASE UNCHANGED <<cell, actor>>
    BY <1>1, <2>1
  <2>2. CASE /\ cell.phase = "completed"
             /\ cell' = [cell EXCEPT !.phase = "tombstone", !.cancelled = TRUE]
             /\ actor' = [actor EXCEPT !.at = "left"]
    BY <1>0, <2>2 DEF Stage, Leaving, Cells, Locals
  <2>3. CASE cell.phase = "running" /\ (HandOutFrontier(Head(inbox)) \/ AttachObserver(Head(inbox)))
    <3>1. cell' = cell /\ actor'.at = actor.at /\ actor'.next = actor.next
      BY <2>3, HandOutEffect, AttachEffect DEF HandOutFrontier, AttachObserver
    <3> QED
      BY <2>3, <3>1 DEF Stage, Leaving
  <2> QED
    BY <1>5, <2>1, <2>2, <2>3, ObserveCases DEF Refuse
<1>6. CASE OnYieldTimer
  <2>1. TellObserver(actor, "yielded") /\ cell' = cell
    BY <1>6 DEF OnYieldTimer
  <2> QED
    BY <1>0, <2>1, TellEffect DEF Stage, Leaving
<1>7. CASE OnRuntimeEvent
  <2>1. cell' = cell /\ ~actor.closed /\ actor.at = "loop"
    BY <1>7, EventCases
  <2>2. CASE Head(events).kind # "result"
    BY <1>7, <2>1, <2>2, EventEffect DEF Stage, Leaving
  <2>3. CASE Head(events).kind = "result"
    BY <1>7, <2>1, <2>3, ResultEffect DEF Stage, Leaving
  <2> QED
    BY <2>2, <2>3
<1>8. CASE OnRuntimeGone
  <2>1. cell' = cell /\ ~actor.closed /\ actor.at = "loop" /\ OnRuntimeEnd(actor)
    BY <1>8 DEF OnRuntimeGone
  <2> QED
    BY <1>0, <2>1, EndEffect DEF Stage, Leaving
<1>9. CASE NotesDrained
  <2>1. cell' = cell
    BY <1>9 DEF NotesDrained
  <2> QED
    BY <1>9, <2>1, WindEffects DEF Stage, Leaving, Keeps
<1>10. CASE WindUp
  <2>1. cell'.phase = "tombstone"
    BY <1>10, FinishEffect DEF WindUp
  <2> QED
    BY <1>10, <2>1, WindEffects DEF Stage, Leaving
<1>11. CASE Complete
  <2>1. cell' = cell
    BY <1>11 DEF Complete
  <2>2. cell.phase \notin {"completed", "claimed"}
    BY <1>11, WindEffects DEF Stage
  <2> QED
    BY <1>11, <2>1, <2>2, WindEffects DEF Stage, Leaving
<1>12. CASE CommitCompletion
  <2>1. \/ cell' = cell
        \/ cell.phase = "running" /\ cell'.phase = "completed"
    BY <1>0, <1>12 DEF CommitCompletion, Cells
  <2> QED
    BY <1>12, <2>1, WindEffects DEF Stage, Leaving, Ended
<1>13. CASE DeliverCompletion
  <2>1. CASE cell.phase = "completed" /\ ~StillObserved
    <3>1. cell' = cell
      BY <1>13, <2>1 DEF DeliverCompletion
    <3> QED
      BY <1>13, <2>1, <3>1, WindEffects DEF Stage, Leaving
  <2>2. CASE ~(cell.phase = "completed" /\ ~StillObserved)
    <3>1. cell'.phase = "tombstone"
      BY <1>0, <1>13, <2>2, FinishEffect DEF DeliverCompletion, Cells
    <3>2. actor'.at = "left"
      BY <1>13, <2>2, WindEffects
    <3> QED
      BY <3>1, <3>2 DEF Stage, Leaving
  <2> QED
    BY <2>1, <2>2
<1>14. CASE LeaveLoop
  <2>1. cell'.phase = "tombstone"
    BY <1>0, <1>14 DEF LeaveLoop, Cells
  <2> QED
    BY <1>14, <2>1, WindEffects DEF Stage, Leaving
<1>15. CASE Close
  <2>1. cell' = cell
    BY <1>15 DEF Close
  <2> QED
    BY <1>15, <2>1, WindEffects DEF Stage, Leaving
<1>16. CASE Actor
  BY <1>4, <1>5, <1>6, <1>7, <1>8, <1>9, <1>10, <1>11, <1>12, <1>13, <1>14, <1>15, <1>16 DEF Actor
<1>17. CASE Aside \/ RuntimeThread \/ Callback
  BY <1>1, <1>17, RuntimeFrame, CallbackFrame DEF RuntimeOnly, Aside
<1> QED
  BY <1>2, <1>3, <1>16, <1>17, StepCases

-----------------------------------------------------------------------------
(* Callbacks                                                                *)

\* Every step keeps Silence: callbacks start only in the loop of a cell that is not closed.
LEMMA SilencePreserved ==
  TypeOK /\ Registered /\ Ended /\ Stage /\ Silence /\ [Next]_vars => Silence'
<1> SUFFICES ASSUME TypeOK, Registered, Ended, Stage, Silence, [Next]_vars PROVE Silence'
  OBVIOUS
<1> DEFINE Quiet == running = [notes |-> 0, tools |-> 0]
<1>0. actor \in Locals /\ cell \in Cells /\ running \in [notes : Nat, tools : Nat]
  BY DEF TypeOK
<1>1. CASE UNCHANGED <<actor, cell, running>>
  BY <1>1 DEF Silence
<1>2. ASSUME NEW mode \in Modes, StartCellUnchecked(mode) PROVE Silence'
  <2>1. cell' = cell /\ actor'.at = "loop" /\ running' = running
    BY <1>0, <1>2 DEF StartCellUnchecked, Locals
  <2> QED
    BY <2>1 DEF Silence
<1>3. ASSUME NEW k \in Killers, Terminate(k) PROVE Silence'
  <2>1. \/ cell' = cell
        \/ cell'.phase = "terminating"
        \/ cell.phase = "completed" /\ cell'.phase = "claimed"
    BY <1>0, <1>3 DEF Terminate, Cells
  <2>2. actor' = actor /\ running' = running
    BY <1>3 DEF Terminate
  <2> QED
    BY <2>1, <2>2 DEF Silence
<1>4. CASE Callback
  <2>1. cell' = cell /\ actor' = actor
    BY <1>4, CallbackFrame
  <2>2. ~Quiet
    BY <1>4 DEF Callback, NotificationEnds, ToolEnds
  <2>3. running.notes = 0 => running'.notes = 0
    BY <1>0, <1>4 DEF Callback, NotificationEnds, ToolEnds
  <2> QED
    BY <2>1, <2>2, <2>3 DEF Silence
<1>5. ASSUME running' = running, actor'.at \notin {"tools", "commit", "deliver"},
             cell'.phase \in {"completed", "claimed", "tombstone"} => Quiet
      PROVE  Silence'
  BY <1>5 DEF Silence
<1>6. CASE OnCancelled
  <2>1. cell'.phase = cell.phase /\ running' = running
    BY <1>0, <1>6 DEF OnCancelled, Cells
  <2> QED
    BY <1>5, <1>6, <2>1, CancelledEffect DEF Silence
<1>7. CASE OnObserve
  <2>1. running' = running /\ actor.at = "loop"
    BY <1>7, ObserveCases
  <2>2. actor'.at \in {"loop", "left"}
    BY <1>0, <1>7, <2>1, ObserveCases, HandOutEffect, AttachEffect DEF Refuse, Locals
  <2>3. cell' = cell \/ cell.phase = "completed"
    BY <1>7, ObserveCases DEF Refuse, HandOutFrontier, AttachObserver
  <2> QED
    BY <1>5, <2>1, <2>2, <2>3 DEF Silence
<1>8. CASE OnYieldTimer
  <2>1. TellObserver(actor, "yielded") /\ cell' = cell /\ running' = running /\ actor.at = "loop"
    BY <1>8 DEF OnYieldTimer
  <2> QED
    BY <1>0, <1>5, <2>1, TellEffect DEF Silence
<1>9. CASE OnRuntimeEvent \/ OnRuntimeGone
  <2>1. cell' = cell /\ ~actor.closed /\ actor.at = "loop"
    BY <1>9, EventCases DEF OnRuntimeGone
  <2>2. cell.phase \notin {"completed", "claimed", "tombstone"}
    BY <2>1 DEF Stage, Leaving
  <2>3. actor'.at \in {"loop", "notes"}
    <3>1. CASE OnRuntimeEvent
      BY <3>1, EventEffect, ResultEffect
    <3>2. CASE OnRuntimeGone
      BY <1>0, <3>2, EndEffect DEF OnRuntimeGone
    <3> QED
      BY <1>9, <3>1, <3>2
  <2> QED
    BY <2>1, <2>2, <2>3 DEF Silence
<1>10. CASE NotesDrained
  <2>1. cell' = cell /\ running' = running /\ running.notes = 0
    BY <1>10 DEF NotesDrained
  <2> QED
    BY <1>10, <2>1, WindEffects DEF Silence
<1>11. CASE WindUp \/ Complete
  <2>1. running' = running /\ running.tools = 0 /\ actor.at = "tools"
    BY <1>11 DEF WindUp, Complete
  <2>2. Quiet
    <3>1. running.notes = 0
      BY <2>1 DEF Silence
    <3> QED
      BY <1>0, <2>1, <3>1
  <2>3. actor'.at # "tools"
    BY <1>11, WindEffects
  <2> HIDE DEF Quiet
  <2> QED
    BY <2>1, <2>2, <2>3 DEF Silence, Quiet
<1>12. CASE CommitCompletion \/ DeliverCompletion
  <2>1. running' = running /\ actor.at \in {"commit", "deliver"}
    BY <1>12 DEF CommitCompletion, DeliverCompletion
  <2>2. actor'.at # "tools"
    BY <1>12, WindEffects
  <2> QED
    BY <2>1, <2>2 DEF Silence
<1>13. CASE LeaveLoop
  <2>1. running' = running /\ cell.phase = "tombstone" /\ actor'.at = "notes"
    BY <1>13, WindEffects DEF LeaveLoop, Stage, Leaving
  <2> QED
    BY <1>5, <2>1 DEF Silence
<1>14. CASE Close
  <2>1. running' = running /\ cell' = cell /\ actor'.at = "done"
    BY <1>14, WindEffects DEF Close
  <2> QED
    BY <1>5, <2>1 DEF Silence
<1>15. CASE Actor
  BY <1>6, <1>7, <1>8, <1>9, <1>10, <1>11, <1>12, <1>13, <1>14, <1>15 DEF Actor
<1>16. CASE Aside \/ RuntimeThread
  BY <1>1, <1>16, RuntimeFrame DEF RuntimeOnly, Aside
<1> QED
  BY <1>2, <1>3, <1>4, <1>15, <1>16, StepCases

-----------------------------------------------------------------------------
(* The outcome                                                              *)

\* Nobody hears a terminal event but x in this step.
Hears(x) ==
  /\ \A c \in Calls : calls'[c].got \in {calls[c].got, x} \/ calls'[c].got.kind \notin Terminal
  /\ \A k \in Killers : kills'[k].got \in {kills[k].got, x} \/ kills'[k].got.kind \notin Terminal

HearsNothing ==
  /\ \A c \in Calls : calls'[c].got = calls[c].got \/ calls'[c].got.kind \notin Terminal
  /\ \A k \in Killers : kills'[k].got = kills[k].got \/ kills'[k].got.kind \notin Terminal

\* The outcomes grow by what is heard.
LEMMA HearsMore == ASSUME NEW x, Hears(x) PROVE Outcomes' \subseteq Outcomes \union {x}
BY DEF Hears, Outcomes

\* Without a terminal event there is no new outcome.
LEMMA HearsNoMore == HearsNothing => Outcomes' \subseteq Outcomes
BY DEF HearsNothing, Outcomes

\* An answer reaches one call at most and changes nobody else's.
LEMMA ToldHears ==
  ASSUME NEW cs \in [Calls -> Call], NEW c, NEW x
  PROVE  \A d \in Calls : Told(cs, c, x)[d].got \in {cs[d].got, x}
BY DEF Told, Call

\* Calls that are dropped with the inbox hear of no end.
LEMMA HangupHears ==
  ASSUME NEW cs \in [Calls -> Call]
  PROVE  \A d \in Calls : \/ Hangup(cs)[d].got = cs[d].got
                           \/ Hangup(cs)[d].got.kind = "closed"
BY DEF Hangup, Call, Say

\* The refusals are no ends.
LEMMA SayIsNoEnd ==
  \A kind \in {"none", "busy", "closed", "missing", "already"} : Say(kind).kind \notin Terminal
BY DEF Say, Terminal

\* What a terminator or an observer is told at the end.
Verdicts(event) == IF cell.phase \in {"completed", "claimed"} THEN cell.event ELSE event

\* finish_termination tells everybody the same.
LEMMA FinishHears ==
  ASSUME TypeOK, NEW event, FinishTermination(event)
  PROVE  Hears(Verdicts(event))
<1>0. calls \in [Calls -> Call] /\ kills \in [Killers -> Kill]
  BY DEF TypeOK, Call, Kill
<1>1. \A c \in Calls : calls'[c].got \in {calls[c].got, Verdicts(event)}
  <2>1. calls' = calls \/ calls' = Told(calls, actor.observer, Verdicts(event))
    BY DEF FinishTermination, Verdicts
  <2> QED
    BY <1>0, <2>1, ToldHears
<1>2. \A k \in Killers : kills'[k].got \in {kills[k].got, Verdicts(event)}
  <2>1. \/ kills' = kills
        \/ /\ Verdicts(event) = event
           /\ kills' = [kills EXCEPT ![cell.killer] = [st |-> "done", got |-> event]]
    BY DEF FinishTermination, Verdicts
  <2> QED
    BY <1>0, <2>1 DEF Kill
<1> QED
  BY <1>1, <1>2 DEF Hears

\* The steps in which somebody may hear of the end of the cell.
Ending ==
  \/ cell.phase = "completed" /\ session.entry = "open" /\ \E k \in Killers : Terminate(k)
  \/ cell.phase = "completed" /\ OnObserve
  \/ WindUp
  \/ DeliverCompletion

\* A yield and a frontier are no ends.
LEMMA TellHearsNothing ==
  ASSUME TypeOK, NEW a, NEW kind \in {"yielded", "pending"}, TellObserver(a, kind), kills' = kills
  PROVE  HearsNothing
<1>0. calls \in [Calls -> Call]
  BY DEF TypeOK, Call
<1>1. calls' = Told(calls, actor.observer, Event(kind, actor.content))
  BY DEF TellObserver
<1>2. Event(kind, actor.content).kind \notin Terminal
  BY DEF Event, Terminal
<1>3. \A c \in Calls : calls'[c].got \in {calls[c].got, Event(kind, actor.content)}
  BY <1>0, <1>1, ToldHears
<1> QED
  BY <1>2, <1>3 DEF HearsNothing

\* Nobody hears of an end in any other step.
LEMMA OthersHearNothing ==
  ASSUME TypeOK, [Next]_vars, ~Ending
  PROVE  HearsNothing
<1>0. calls \in [Calls -> Call] /\ kills \in [Killers -> Kill]
  BY DEF TypeOK, Call, Kill
<1>1. CASE UNCHANGED <<calls, kills>>
  BY <1>1 DEF HearsNothing
<1>2. CASE Caller
  <2>1. CASE Execute \/ BeginShutdown \/ ShutdownReturns
    BY <1>1, <2>1 DEF Execute, BeginShutdown, ShutdownReturns
  <2>2. ASSUME NEW mode \in Modes, StartCell(mode) PROVE HearsNothing
    <3>1. CASE UNCHANGED <<calls, kills>>
      BY <1>1, <3>1
    <3>2. CASE /\ calls' = [calls EXCEPT ![Initial] =
                              [st |-> "waiting", mode |-> mode, got |-> Say("none")]]
               /\ kills' = kills
      BY <1>0, <3>2, SayIsNoEnd DEF HearsNothing, Call
    <3> QED
      BY <2>2, <3>1, <3>2 DEF StartCell, StartCellUnchecked
  <2>3. ASSUME NEW c \in Calls, NEW mode \in Modes, BeginObserve(c, mode) PROVE HearsNothing
    <3>1. /\ kills' = kills
          /\ \E st, kind : /\ kind \in {"none", "missing", "closed"}
                           /\ calls' = [calls EXCEPT ![c] = [st |-> st, mode |-> mode, got |-> Say(kind)]]
      BY <2>3 DEF BeginObserve
    <3> QED
      BY <1>0, <3>1, SayIsNoEnd DEF HearsNothing, Call
  <2>4. ASSUME NEW c \in Calls, SendObserve(c) PROVE HearsNothing
    <3>1. kills' = kills
      BY <2>4 DEF SendObserve
    <3>2. \/ calls' = [calls EXCEPT ![c].st = "waiting"]
          \/ calls' = [calls EXCEPT ![c].st = "done", ![c].got = Say("closed")]
      BY <2>4 DEF SendObserve
    <3>3. CASE calls' = [calls EXCEPT ![c].st = "waiting"]
      BY <1>0, <3>1, <3>3 DEF HearsNothing, Call
    <3>4. CASE calls' = [calls EXCEPT ![c].st = "done", ![c].got = Say("closed")]
      BY <1>0, <3>1, <3>4, SayIsNoEnd DEF HearsNothing, Call
    <3> QED
      BY <3>2, <3>3, <3>4
  <2>5. ASSUME NEW c \in Calls, DropCall(c) PROVE HearsNothing
    BY <1>0, <2>5 DEF DropCall, HearsNothing, Call
  <2>6. ASSUME NEW k \in Killers, Terminate(k) PROVE HearsNothing
    <3>1. calls' = calls
      BY <2>6 DEF Terminate
    <3>2. \/ kills' = [kills EXCEPT ![k].st = "waiting"]
          \/ \E kind \in {"missing", "already", "closed"} :
               kills' = [kills EXCEPT ![k] = [st |-> "done", got |-> Say(kind)]]
      BY <2>6 DEF Terminate, KillAnswered, Ending
    <3>3. CASE kills' = [kills EXCEPT ![k].st = "waiting"]
      BY <1>0, <3>1, <3>3 DEF HearsNothing, Kill
    <3>4. CASE \E kind \in {"missing", "already", "closed"} :
                 kills' = [kills EXCEPT ![k] = [st |-> "done", got |-> Say(kind)]]
      BY <1>0, <3>1, <3>4, SayIsNoEnd DEF HearsNothing, Kill
    <3> QED
      BY <3>2, <3>3, <3>4
  <2> QED
    BY <1>2, <2>1, <2>2, <2>3, <2>4, <2>5, <2>6 DEF Caller
<1>3. CASE RuntimeThread \/ Callback
  BY <1>1, <1>3, RuntimeFrame, CallbackFrame DEF RuntimeOnly
<1>4. CASE OnCancelled
  <2>1. calls' = Hangup(calls) /\ kills' = kills
    BY <1>4 DEF OnCancelled
  <2> QED
    BY <1>0, <2>1, HangupHears DEF HearsNothing, Terminal
<1>5. CASE OnObserve
  <2> DEFINE c == Head(inbox)
  <2>1. kills' = kills
    BY <1>5, ObserveCases
  <2>2. \/ calls' = calls
        \/ \E kind \in {"busy", "closed"} : calls' = Told(calls, c, Say(kind))
        \/ calls' = Told(calls, c, Event("pending", actor.content))
    BY <1>5, ObserveCases DEF Ending, Refuse, HandOutFrontier, AttachObserver
  <2> HIDE DEF c
  <2>3. CASE \E kind \in {"busy", "closed"} : calls' = Told(calls, c, Say(kind))
    <3>1. PICK kind \in {"busy", "closed"} : calls' = Told(calls, c, Say(kind))
      BY <2>3
    <3>2. \A d \in Calls : calls'[d].got \in {calls[d].got, Say(kind)}
      BY <1>0, <3>1, ToldHears
    <3> QED
      BY <2>1, <3>2, SayIsNoEnd DEF HearsNothing
  <2>4. CASE calls' = Told(calls, c, Event("pending", actor.content))
    <3>1. \A d \in Calls : calls'[d].got \in {calls[d].got, Event("pending", actor.content)}
      BY <1>0, <2>4, ToldHears
    <3>2. Event("pending", actor.content).kind \notin Terminal
      BY DEF Event, Terminal
    <3> QED
      BY <2>1, <3>1, <3>2 DEF HearsNothing
  <2> QED
    BY <1>1, <2>1, <2>2, <2>3, <2>4
<1>6. CASE OnYieldTimer
  BY <1>6, TellHearsNothing DEF OnYieldTimer
<1>7. CASE OnRuntimeEvent
  <2>1. kills' = kills
    BY <1>7, EventCases
  <2>2. \/ calls' = calls
        \/ \E a : TellObserver(a, "yielded") \/ TellObserver(a, "pending")
    BY <1>7, EventCases DEF OnPending
  <2> QED
    BY <1>1, <2>1, <2>2, TellHearsNothing
<1>8. CASE OnRuntimeGone \/ NotesDrained \/ Complete \/ CommitCompletion \/ Close
  BY <1>1, <1>8 DEF OnRuntimeGone, NotesDrained, Complete, CommitCompletion, Close
<1>9. CASE LeaveLoop
  <2>1. calls' = Hangup(calls)
    BY <1>9 DEF LeaveLoop
  <2>2. \/ kills' = kills
        \/ kills' = [kills EXCEPT ![cell.killer] = [st |-> "done", got |-> Say("closed")]]
    BY <1>9 DEF LeaveLoop
  <2>3. \A k \in Killers : kills'[k].got = kills[k].got \/ kills'[k].got.kind \notin Terminal
    BY <1>0, <2>2, SayIsNoEnd DEF Kill
  <2>4. \A c \in Calls : calls'[c].got = calls[c].got \/ calls'[c].got.kind \notin Terminal
    BY <1>0, <2>1, HangupHears DEF Terminal
  <2> QED
    BY <2>3, <2>4 DEF HearsNothing
<1>10. CASE WindUp \/ DeliverCompletion
  BY <1>10 DEF Ending
<1> QED
  BY <1>1, <1>2, <1>3, <1>4, <1>5, <1>6, <1>7, <1>8, <1>9, <1>10 DEF Next, Actor, vars

\* How the phase changes when nobody hears of an end.
LEMMA QuietPhases ==
  ASSUME TypeOK, Stage, [Next]_vars, ~Ending
  PROVE  \/ cell' = cell
         \/ /\ cell'.event = cell.event /\ cell'.stored = cell.stored
            /\ \/ cell'.phase = cell.phase
               \/ cell.phase = "running" /\ cell'.phase = "terminating"
         \/ /\ actor.at = "commit" /\ cell.phase = "running" /\ cell'.phase = "completed"
            /\ cell'.event = actor.rejected /\ cell'.stored
            /\ UNCHANGED <<calls, kills>>
<1>0. cell \in Cells
  BY DEF TypeOK
<1>1. CASE \E k \in Killers : Terminate(k)
  <2>1. \/ cell' = cell
        \/ cell.phase = "running" /\ \E k \in Killers :
             cell' = [cell EXCEPT !.phase = "terminating", !.killer = k, !.cancelled = TRUE]
    BY <1>1 DEF Terminate, Ending
  <2> QED
    BY <1>0, <2>1 DEF Cells
<1>2. CASE OnCancelled
  <2>1. cell' = [cell EXCEPT !.cancelled = TRUE]
    BY <1>2 DEF OnCancelled
  <2> QED
    BY <1>0, <2>1 DEF Cells
<1>3. CASE OnObserve
  BY <1>3, ObserveCases DEF Refuse, HandOutFrontier, AttachObserver, Ending
<1>4. CASE OnYieldTimer \/ OnRuntimeEvent \/ OnRuntimeGone \/ NotesDrained \/ Complete \/ Close
  <2>1. CASE OnRuntimeEvent
    BY <2>1, EventCases
  <2>2. CASE ~OnRuntimeEvent
    BY <1>4, <2>2 DEF OnYieldTimer, OnRuntimeGone, NotesDrained, Complete, Close
  <2> QED
    BY <2>1, <2>2
<1>5. CASE CommitCompletion
  <2>1. \/ cell' = cell
        \/ /\ cell.phase = "running"
           /\ cell' = [cell EXCEPT !.phase = "completed", !.event = actor.rejected, !.stored = TRUE]
    BY <1>5 DEF CommitCompletion
  <2>2. actor.at = "commit" /\ UNCHANGED <<calls, kills>>
    BY <1>5 DEF CommitCompletion
  <2> QED
    BY <1>0, <2>1, <2>2 DEF Cells
<1>6. CASE LeaveLoop
  <2>1. cell.phase = "tombstone" /\ cell' = [cell EXCEPT !.phase = "tombstone", !.cancelled = TRUE]
    BY <1>6 DEF LeaveLoop, Stage, Leaving
  <2> QED
    BY <1>0, <2>1 DEF Cells
<1>7. CASE Actor
  BY <1>2, <1>3, <1>4, <1>5, <1>6, <1>7 DEF Actor, Ending
<1>8. CASE Aside \/ RuntimeThread \/ Callback
  BY <1>8, RuntimeFrame, CallbackFrame DEF RuntimeOnly, Aside
<1>9. CASE \E mode \in Modes : StartCellUnchecked(mode)
  BY <1>9 DEF StartCellUnchecked
<1> QED
  BY <1>1, <1>7, <1>8, <1>9, StepCases

\* The event that waits to be committed is a completion.
LEMMA CommitShape ==
  ASSUME TypeOK, [Next]_vars, actor'.at = "commit"
  PROVE  \/ actor.at = "commit" /\ actor'.rejected = actor.rejected
         \/ actor'.rejected = Event("completed", actor.content)
<1>0. actor \in Locals
  BY DEF TypeOK
<1>1. CASE Actor
  <2>1. CASE OnCancelled \/ OnRuntimeEvent
    BY <1>1, <2>1, CancelledEffect, EventEffect, ResultEffect
  <2>2. CASE OnObserve
    <3>1. actor.at = "loop"
      BY <2>2, ObserveCases
    <3>2. actor'.at \in {"loop", "left"}
      BY <1>0, <2>2, <3>1, ObserveCases, HandOutEffect, AttachEffect DEF Refuse, Locals
    <3> QED
      BY <3>2
  <2>3. CASE OnYieldTimer
    <3>1. TellObserver(actor, "yielded") /\ actor.at = "loop"
      BY <2>3 DEF OnYieldTimer
    <3> QED
      BY <1>0, <3>1, TellEffect
  <2>4. CASE OnRuntimeGone
    BY <1>0, <2>4, EndEffect DEF OnRuntimeGone
  <2>5. CASE NotesDrained \/ WindUp \/ Complete \/ CommitCompletion \/ DeliverCompletion \/ LeaveLoop \/ Close
    BY <2>5, WindEffects
  <2> QED
    BY <1>1, <2>1, <2>2, <2>3, <2>4, <2>5 DEF Actor
<1>2. CASE actor' = actor
  BY <1>2
<1>3. CASE \E mode \in Modes : StartCellUnchecked(mode)
  BY <1>0, <1>3 DEF StartCellUnchecked, Locals
<1> QED
  BY <1>1, <1>2, <1>3, StepCases, RuntimeFrame, CallbackFrame DEF RuntimeOnly, Aside, Terminate

\* Every step keeps Verdict.
LEMMA VerdictPreserved ==
  TypeOK /\ Ended /\ Stage /\ Verdict /\ [Next]_vars => Verdict'
<1> SUFFICES ASSUME TypeOK, Ended, Stage, Verdict, [Next]_vars PROVE Verdict'
  OBVIOUS
<1>0. cell \in Cells /\ actor \in Locals
  BY DEF TypeOK
<1>1. actor'.at = "commit" => actor'.rejected.kind = "completed"
  BY CommitShape DEF Verdict, Event
<1>2. CASE ~Ending
  <2>1. Outcomes' \subseteq Outcomes
    BY <1>2, OthersHearNothing, HearsNoMore
  <2>2. CASE cell' = cell
    BY <1>1, <2>1, <2>2 DEF Verdict, OneOutcome
  <2>3. CASE /\ cell'.event = cell.event /\ cell'.stored = cell.stored
             /\ \/ cell'.phase = cell.phase
                \/ cell.phase = "running" /\ cell'.phase = "terminating"
    BY <1>1, <2>1, <2>3 DEF Verdict, OneOutcome
  <2>4. CASE /\ actor.at = "commit" /\ cell.phase = "running" /\ cell'.phase = "completed"
             /\ cell'.event = actor.rejected /\ cell'.stored
             /\ UNCHANGED <<calls, kills>>
    <3>1. Outcomes' = {} /\ actor.rejected.kind = "completed"
      BY <2>1, <2>4 DEF Verdict
    <3> QED
      BY <1>1, <2>4, <3>1 DEF Verdict, OneOutcome
  <2> QED
    BY <1>2, <2>2, <2>3, <2>4, QuietPhases
<1>3. ASSUME NEW k \in Killers, cell.phase = "completed", session.entry = "open", Terminate(k)
      PROVE  Verdict'
  <2>1. /\ cell' = [cell EXCEPT !.phase = "claimed", !.cancelled = TRUE]
        /\ kills' = [kills EXCEPT ![k] = [st |-> "done", got |-> cell.event]]
        /\ UNCHANGED <<actor, calls>>
    BY <1>3 DEF Terminate, KillAnswered
  <2>2. Hears(cell.event)
    BY <2>1 DEF Hears, TypeOK
  <2>3. \A a \in Outcomes' : a = cell.event
    BY <1>3, <2>2, HearsMore DEF Verdict
  <2>4. cell'.phase = "claimed" /\ cell'.event = cell.event /\ cell'.stored = cell.stored
    BY <1>0, <2>1 DEF Cells
  <2> QED
    BY <1>1, <1>3, <2>3, <2>4 DEF Verdict, OneOutcome
<1>4. CASE cell.phase = "completed" /\ OnObserve
  <2>1. calls \in [Calls -> Call] /\ kills' = kills
    BY <1>4, ObserveCases DEF TypeOK, Call
  <2>2. CASE UNCHANGED <<cell, calls>>
    <3>1. Outcomes' = Outcomes
      BY <2>1, <2>2 DEF Outcomes
    <3> QED
      BY <1>1, <2>2, <3>1 DEF Verdict, OneOutcome
  <2>3. CASE \E kind \in {"closed", "busy"} : Refuse(Head(inbox), kind)
    <3>1. PICK kind \in {"closed", "busy"} : Refuse(Head(inbox), kind)
      BY <2>3
    <3>2. cell' = cell /\ \A d \in Calls : calls'[d].got \in {calls[d].got, Say(kind)}
      BY <2>1, <3>1, ToldHears DEF Refuse
    <3>3. HearsNothing
      BY <2>1, <3>2, SayIsNoEnd DEF HearsNothing
    <3>4. Outcomes' \subseteq Outcomes
      BY <3>3, HearsNoMore
    <3> QED
      BY <1>1, <3>2, <3>4 DEF Verdict, OneOutcome
  <2>4. CASE /\ calls' = Told(calls, Head(inbox), cell.event)
             /\ cell' = [cell EXCEPT !.phase = "tombstone", !.cancelled = TRUE]
    <3>1. Hears(cell.event)
      BY <2>1, <2>4, ToldHears DEF Hears
    <3>2. \A a \in Outcomes' : a = cell.event
      BY <1>4, <3>1, HearsMore DEF Verdict
    <3>3. cell'.phase = "tombstone" /\ cell'.stored = cell.stored
      BY <1>0, <2>4 DEF Cells
    <3> QED
      BY <1>1, <1>4, <3>2, <3>3 DEF Verdict, OneOutcome
  <2> QED
    BY <1>4, <2>2, <2>3, <2>4, ObserveCases
<1>5. ASSUME NEW event, event.kind = "terminated", FinishTermination(event), cell.phase # "tombstone"
      PROVE  Verdict'
  <2>1. Outcomes' \subseteq Outcomes \union {Verdicts(event)}
    BY <1>5, FinishHears, HearsMore
  <2>2. cell'.phase = "tombstone" /\ cell'.stored = cell.stored
    BY <1>5, FinishEffect
  <2>3. \A a \in Outcomes' : a = Verdicts(event)
    BY <1>0, <1>5, <2>1 DEF Verdict, Verdicts, Cells, Phases
  <2>4. Verdicts(event).kind = "completed" <=> cell.stored
    BY <1>0, <1>5 DEF Verdict, Verdicts, Cells, Phases
  <2> QED
    BY <1>1, <2>2, <2>3, <2>4 DEF Verdict, OneOutcome
<1>6. CASE WindUp
  <2>1. cell.phase # "tombstone"
    BY <1>6, WindEffects DEF Stage, Leaving
  <2>2. Event("terminated", actor.content).kind = "terminated"
    BY DEF Event
  <2> QED
    BY <1>5, <1>6, <2>1, <2>2 DEF WindUp
<1>7. CASE DeliverCompletion
  <2>1. cell.phase # "tombstone"
    BY <1>7, WindEffects DEF Stage, Leaving
  <2>2. CASE cell.phase # "completed"
    <3>1. Event("terminated", actor.rejected.items).kind = "terminated"
      BY DEF Event
    <3> QED
      BY <1>5, <1>7, <2>1, <2>2, <3>1 DEF DeliverCompletion
  <2>3. CASE cell.phase = "completed" /\ StillObserved
    <3>1. /\ calls' = Told(calls, actor.observer, cell.event) /\ kills' = kills
          /\ cell' = [cell EXCEPT !.phase = "tombstone", !.cancelled = TRUE]
      BY <1>7, <2>3 DEF DeliverCompletion
    <3>2. Hears(cell.event)
      BY <3>1, ToldHears DEF Hears, TypeOK, Call
    <3>3. \A a \in Outcomes' : a = cell.event
      BY <2>3, <3>2, HearsMore DEF Verdict
    <3>4. cell'.phase = "tombstone" /\ cell'.stored = cell.stored
      BY <1>0, <3>1 DEF Cells
    <3> QED
      BY <1>1, <2>3, <3>3, <3>4 DEF Verdict, OneOutcome
  <2>4. CASE cell.phase = "completed" /\ ~StillObserved
    <3>1. UNCHANGED <<cell, calls, kills>>
      BY <1>7, <2>4 DEF DeliverCompletion
    <3>2. Outcomes' = Outcomes
      BY <3>1 DEF Outcomes
    <3> QED
      BY <1>1, <3>1, <3>2 DEF Verdict, OneOutcome
  <2> QED
    BY <2>2, <2>3, <2>4
<1> QED
  BY <1>2, <1>3, <1>4, <1>6, <1>7 DEF Ending

-----------------------------------------------------------------------------
(* Frontiers                                                                *)

\* What the runtime sends comes last.
LEMMA EmitTail ==
  ASSUME TypeOK, NEW kind, NEW item, Emit(kind, item), actor.at # "done"
  PROVE  /\ Len(events') = Len(events) + 1 /\ DOMAIN events' = 1..(Len(events) + 1)
         /\ DOMAIN events = 1..Len(events) /\ Len(events) \in Nat
         /\ \A i \in DOMAIN events : events'[i] = events[i]
         /\ events'[Len(events) + 1].kind = kind /\ events'[Len(events) + 1].item = item
<1> DEFINE e == [kind |-> kind, item |-> item]
<1>1. events' = Append(events, e) /\ events \in Seq(RuntimeEvents)
  BY DEF Emit, TypeOK
<1>2. e.kind = kind /\ e.item = item
  OBVIOUS
<1> HIDE DEF e
<1>3. /\ Len(events') = Len(events) + 1 /\ DOMAIN events' = 1..(Len(events) + 1)
      /\ DOMAIN events = 1..Len(events) /\ Len(events) \in Nat
      /\ \A i \in DOMAIN events : events'[i] = events[i]
      /\ events'[Len(events) + 1] = e
  BY <1>1
<1> QED
  BY <1>2, <1>3

\* Other events bring no frontier.
LEMMA EmitNoPending ==
  ASSUME TypeOK, NoPending, NEW kind, kind # "pending", NEW item, Emit(kind, item)
  PROVE  NoPending'
<1>1. CASE actor.at = "done"
  BY <1>1 DEF Emit, NoPending
<1>2. CASE actor.at # "done"
  <2>1. \A i \in DOMAIN events' : i \in DOMAIN events \/ i = Len(events) + 1
    BY <1>2, EmitTail
  <2> QED
    BY <1>2, <2>1, EmitTail DEF NoPending
<1> QED
  BY <1>1, <1>2

\* The runtime thread keeps its side of the turns.
LEMMA RuntimeTurns ==
  ASSUME TypeOK, Ended, TakingTurns, RuntimeThread, ~runtime.killed
  PROVE  TakingTurns'
<1>0. /\ runtime \in Threads /\ runtime.commands \in Seq({"response", "poke", "terminate"})
      /\ runtime.control \in Seq({"continue", "resume", "terminate"})
  BY DEF TypeOK, Threads
<1>1. actor' = actor
  BY RuntimeFrame DEF RuntimeOnly
<1>2. runtime.at # "ended" /\ actor.at # "done"
  BY DEF Ended, RuntimeThread, RuntimeStart, ScriptEmits, ScriptTurnEnds, PollCommand, AwaitControl, AwaitCommand
<1>3. ASSUME runtime.at # "control", runtime'.at # "control", runtime'.control = runtime.control,
             \A i \in DOMAIN runtime'.commands : runtime'.commands[i] # "terminate",
             NoPending => NoPending'
      PROVE  TakingTurns'
  <2>1. NoPending /\ runtime.control = <<>> /\ ~actor.paused
    BY <1>3 DEF TakingTurns, NoPending
  <2> QED
    BY <1>1, <1>3, <2>1 DEF TakingTurns, NoPending
<1>4. CASE RuntimeStart \/ ScriptTurnEnds
  <2>1. /\ runtime.at # "control" /\ runtime'.at # "control"
        /\ runtime'.control = runtime.control /\ runtime'.commands = runtime.commands
    BY <1>0, <1>4 DEF RuntimeStart, ScriptTurnEnds, Goto, Threads
  <2>2. UNCHANGED events \/ \E kind, item : Emit(kind, item) /\ kind # "pending"
    BY <1>4 DEF RuntimeStart, ScriptTurnEnds
  <2>3. NoPending => NoPending'
    <3>1. CASE UNCHANGED events
      BY <3>1 DEF NoPending
    <3>2. CASE \E kind, item : Emit(kind, item) /\ kind # "pending"
      BY <3>2, EmitNoPending
    <3> QED
      BY <2>2, <3>1, <3>2
  <2> QED
    BY <1>3, <2>1, <2>3 DEF TakingTurns
<1>5. ASSUME NEW kind \in Emissions, ScriptEmits(kind) PROVE TakingTurns'
  <2>1. /\ runtime.at # "control" /\ runtime'.at # "control"
        /\ runtime'.control = runtime.control /\ runtime'.commands = runtime.commands
    BY <1>0, <1>5 DEF ScriptEmits, Threads
  <2>2. NoPending => NoPending'
    <3>1. \E item : Emit(kind, item)
      BY <1>5 DEF ScriptEmits
    <3>2. kind # "pending"
      BY DEF Emissions
    <3> QED
      BY <3>1, <3>2, EmitNoPending
  <2> QED
    BY <1>3, <2>1, <2>2 DEF TakingTurns
<1>6. ASSUME runtime.at \in {"poll", "command"}, runtime.commands # <<>>, TakeCommand, UNCHANGED events
      PROVE  TakingTurns'
  <2>1. Head(runtime.commands) \in {"response", "poke", "terminate"}
    BY <1>0, <1>6
  <2>2. /\ runtime'.commands = Tail(runtime.commands) /\ runtime'.control = runtime.control
        /\ runtime'.at # "control"
    BY <1>0, <1>6, <2>1 DEF TakeCommand, Threads
  <2>3. \A i \in DOMAIN runtime'.commands : runtime'.commands[i] # "terminate"
    BY <1>0, <1>6, <2>2, EventTail DEF TakingTurns
  <2> QED
    BY <1>3, <1>6, <2>2, <2>3 DEF NoPending
<1>7. CASE runtime.at = "poll" /\ Emit("pending", 0) /\ Goto("control")
  <2>1. /\ runtime'.at = "control" /\ runtime'.commands = runtime.commands
        /\ runtime'.control = runtime.control
    BY <1>0, <1>7 DEF Goto, Threads
  <2>2. runtime.control = <<>> /\ ~actor.paused /\ NoPending
    BY <1>7 DEF TakingTurns, NoPending
  <2>3. /\ Len(events') = Len(events) + 1 /\ DOMAIN events' = 1..(Len(events) + 1)
        /\ DOMAIN events = 1..Len(events) /\ Len(events) \in Nat
        /\ \A i \in DOMAIN events : events'[i] = events[i]
        /\ events'[Len(events) + 1].kind = "pending"
    BY <1>2, <1>7, EmitTail
  <2>4. ASSUME NEW i \in DOMAIN events', events'[i].kind = "pending" PROVE i = Len(events')
    BY <2>2, <2>3, <2>4 DEF NoPending
  <2>5. ~NoPending'
    BY <2>3 DEF NoPending
  <2> QED
    BY <1>1, <2>1, <2>2, <2>4, <2>5 DEF TakingTurns
<1>8. CASE AwaitControl
  <2>1. runtime.at = "control" /\ runtime.control # <<>> /\ events' = events
    BY <1>8 DEF AwaitControl
  <2>2. NoPending /\ ~actor.paused
    BY <2>1 DEF TakingTurns, NoPending
  <2>3. /\ Head(runtime.control) \in {"continue", "resume", "terminate"}
        /\ Head(runtime.control) = runtime.control[1] /\ 1 \in DOMAIN runtime.control
        /\ Tail(runtime.control) = <<>>
    <3>1. Len(runtime.control) <= 1
      BY DEF TakingTurns
    <3> QED
      BY <1>0, <2>1, <3>1, OnlyOne
  <2>4. Head(runtime.control) \in {"continue", "resume"}
    BY <2>3 DEF TakingTurns
  <2>6. /\ runtime'.control = <<>> /\ runtime'.commands = runtime.commands
        /\ runtime'.at # "control"
    BY <1>0, <1>8, <2>3, <2>4 DEF AwaitControl, Threads
  <2> QED
    BY <1>1, <2>1, <2>2, <2>6 DEF TakingTurns, NoPending
<1> QED
  BY <1>4, <1>5, <1>6, <1>7, <1>8 DEF RuntimeThread, PollCommand, AwaitCommand

\* The runtime thread does not touch the kill switch.
LEMMA RuntimeKill ==
  ASSUME TypeOK, RuntimeThread PROVE runtime'.killed = runtime.killed
<1>0. runtime \in Threads
  BY DEF TypeOK
<1>1. CASE RuntimeStart \/ ScriptTurnEnds
  BY <1>0, <1>1 DEF RuntimeStart, ScriptTurnEnds, Goto, Threads
<1>2. CASE \E kind \in Emissions : ScriptEmits(kind)
  BY <1>0, <1>2 DEF ScriptEmits, Threads
<1>3. CASE PollCommand \/ AwaitCommand
  BY <1>0, <1>3 DEF PollCommand, AwaitCommand, TakeCommand, Goto, Threads
<1>4. CASE AwaitControl
  BY <1>0, <1>4 DEF AwaitControl, Threads
<1> QED
  BY <1>1, <1>2, <1>3, <1>4 DEF RuntimeThread

\* Every step keeps Turns.
LEMMA TurnsPreserved ==
  TypeOK /\ Registered /\ Ended /\ Turns /\ [Next]_vars => Turns'
<1> SUFFICES ASSUME TypeOK, Registered, Ended, Turns, [Next]_vars, ~runtime'.killed PROVE TakingTurns'
  BY DEF Turns
<1>0. /\ actor \in Locals /\ runtime \in Threads /\ events \in Seq(RuntimeEvents)
      /\ runtime.commands \in Seq({"response", "poke", "terminate"})
      /\ runtime.control \in Seq({"continue", "resume", "terminate"})
  BY DEF TypeOK, Threads
<1>1. ASSUME runtime' = runtime, events' = events, actor'.paused = actor.paused PROVE TakingTurns'
  BY <1>1 DEF Turns, TakingTurns, NoPending
<1>2. ASSUME NEW mode \in Modes, StartCellUnchecked(mode) PROVE TakingTurns'
  <2>1. /\ runtime'.at = "start" /\ runtime'.control = runtime.control /\ events' = events
        /\ runtime'.commands = runtime.commands /\ runtime'.killed = runtime.killed
    BY <1>0, <1>2 DEF StartCellUnchecked, Threads
  <2>2. actor'.paused = actor.paused
    BY <1>0, <1>2 DEF StartCellUnchecked, Locals
  <2>3. runtime.at = "off"
    BY <1>2 DEF StartCellUnchecked, Registered, Ended
  <2> QED
    BY <2>1, <2>2, <2>3 DEF Turns, TakingTurns, NoPending
<1>3. CASE RuntimeThread
  <2>1. runtime'.killed = runtime.killed
    BY <1>0, <1>3, RuntimeKill
  <2> QED
    BY <1>3, <2>1, RuntimeTurns DEF Turns
<1>4. CASE Callback
  <2>1. CASE runtime' = runtime
    BY <1>1, <1>4, <2>1, CallbackFrame
  <2>2. CASE runtime' = [runtime EXCEPT !.commands = Append(@, "response")]
    <3>1. /\ runtime'.at = runtime.at /\ runtime'.control = runtime.control
          /\ runtime'.killed = runtime.killed
          /\ runtime'.commands = Append(runtime.commands, "response")
      BY <1>0, <2>2 DEF Threads
    <3>2. TakingTurns
      BY <3>1 DEF Turns
    <3>3. \A i \in DOMAIN runtime'.commands : runtime'.commands[i] # "terminate"
      BY <1>0, <3>1, <3>2 DEF TakingTurns
    <3>4. events' = events /\ actor' = actor
      BY <1>4, CallbackFrame
    <3> QED
      BY <3>1, <3>2, <3>3, <3>4 DEF TakingTurns, NoPending
  <2> QED
    BY <1>4, <2>1, <2>2, CallbackFrame
<1>5. CASE OnCancelled \/ LeaveLoop
  <2>1. runtime' = BeginTermination(runtime) /\ events' = events
    BY <1>5 DEF OnCancelled, LeaveLoop
  <2>2. runtime' = runtime
    BY <1>0, <2>1 DEF BeginTermination, Threads
  <2>3. actor'.paused = actor.paused
    BY <1>5, CancelledEffect, WindEffects
  <2> QED
    BY <1>1, <2>1, <2>2, <2>3
<1>6. CASE OnObserve
  <2>1. events' = events
    BY <1>6, ObserveCases
  <2>2. CASE runtime' = runtime /\ actor'.paused = actor.paused
    BY <1>1, <2>1, <2>2
  <2>3. CASE AttachObserver(Head(inbox))
    <3> DEFINE mode == calls[Head(inbox)].mode
    <3>1. runtime' = Resumed(runtime, mode) /\ ~actor'.paused
      BY <2>3, AttachEffect DEF AttachObserver
    <3> HIDE DEF mode
    <3>2. CASE runtime.at = "ended"
      <4>1. runtime' = runtime /\ TakingTurns
        BY <3>1, <3>2 DEF Resumed, Turns
      <4> QED
        BY <2>1, <3>1, <3>2, <4>1 DEF TakingTurns, NoPending
    <3>3. CASE runtime.at # "ended" /\ actor.paused
      <4>1. PICK x \in {"continue", "resume"} : runtime' = [runtime EXCEPT !.control = Append(@, x)]
        BY <3>1, <3>3 DEF Resumed
      <4>2. /\ runtime'.at = runtime.at /\ runtime'.control = Append(runtime.control, x)
            /\ runtime'.killed = runtime.killed /\ runtime'.commands = runtime.commands
        BY <1>0, <4>1 DEF Threads
      <4>3. TakingTurns
        BY <4>2 DEF Turns
      <4>4. runtime.at = "control" /\ NoPending /\ runtime.control = <<>>
        BY <3>3, <4>3 DEF TakingTurns, NoPending
      <4>5. runtime'.control = <<x>>
        BY <4>2, <4>4
      <4>6. /\ \A i \in DOMAIN runtime'.control : runtime'.control[i] # "terminate"
            /\ Len(runtime'.control) <= 1 /\ runtime'.control # <<>>
        BY <4>5
      <4> QED
        BY <2>1, <3>1, <4>2, <4>3, <4>4, <4>6 DEF TakingTurns, NoPending
    <3>4. CASE runtime.at # "ended" /\ ~actor.paused
      <4>1. runtime' = runtime \/ runtime' = [runtime EXCEPT !.commands = Append(@, "poke")]
        BY <3>1, <3>4 DEF Resumed
      <4>2. /\ runtime'.at = runtime.at /\ runtime'.control = runtime.control
            /\ runtime'.killed = runtime.killed
            /\ \/ runtime'.commands = runtime.commands
               \/ runtime'.commands = Append(runtime.commands, "poke")
        BY <1>0, <4>1 DEF Threads
      <4>3. TakingTurns
        BY <4>2 DEF Turns
      <4>4. \A i \in DOMAIN runtime'.commands : runtime'.commands[i] # "terminate"
        <5>1. \A i \in DOMAIN runtime.commands : runtime.commands[i] # "terminate"
          BY <4>3 DEF TakingTurns
        <5>2. CASE runtime'.commands = Append(runtime.commands, "poke")
          BY <1>0, <5>1, <5>2
        <5> QED
          BY <4>2, <5>1, <5>2
      <4> QED
        BY <2>1, <3>1, <3>4, <4>2, <4>3, <4>4 DEF TakingTurns, NoPending
    <3> QED
      BY <3>2, <3>3, <3>4
  <2>4. CASE actor' = [actor EXCEPT !.at = "left"] /\ UNCHANGED runtime
    BY <1>0, <2>2, <2>4 DEF Locals
  <2> QED
    BY <1>6, <2>2, <2>3, <2>4, ObserveCases, HandOutEffect DEF Refuse, HandOutFrontier
<1>7. CASE OnYieldTimer
  <2>1. TellObserver(actor, "yielded") /\ UNCHANGED <<events, runtime>>
    BY <1>7 DEF OnYieldTimer
  <2> QED
    BY <1>0, <1>1, <2>1, TellEffect
<1>8. CASE OnRuntimeEvent
  <2>0. /\ events # <<>> /\ events' = Tail(events)
    BY <1>8, EventCases
  <2>1. /\ Len(events') = Len(events) - 1 /\ Len(events) \in Nat \ {0}
        /\ DOMAIN events = 1..Len(events) /\ DOMAIN events' = 1..(Len(events) - 1)
        /\ Head(events) = events[1]
        /\ \A i \in DOMAIN events' : i + 1 \in DOMAIN events /\ events'[i] = events[i + 1]
    BY <1>0, <2>0, EventTail
  <2>2. CASE Head(events).kind # "pending"
    <3>1. runtime' = runtime
      BY <1>8, <2>2, EventCases
    <3>2. actor'.paused = actor.paused
      <4>1. CASE Head(events).kind = "result"
        BY <1>8, <4>1, ResultEffect
      <4>2. CASE TellObserver(actor, "yielded")
        BY <1>0, <4>2, TellEffect
      <4>3. CASE \/ actor' = [actor EXCEPT !.timer = ObserverMode("yield_after")]
                 \/ actor' = [actor EXCEPT !.content = Append(@, Head(events).item)]
                 \/ UNCHANGED actor
        BY <1>0, <4>3 DEF Locals
      <4> QED
        BY <1>8, <2>2, <4>1, <4>2, <4>3, EventCases
    <3>3. TakingTurns
      BY <3>1 DEF Turns
    <3>4. NoPending' => NoPending
      <4> SUFFICES ASSUME NoPending', NEW i \in DOMAIN events PROVE events[i].kind # "pending"
        BY DEF NoPending
      <4>1. CASE i = 1
        BY <2>1, <2>2, <4>1
      <4>2. CASE i # 1
        <5>1. i - 1 \in DOMAIN events' /\ (i - 1) + 1 = i
          BY <2>1, <4>2
        <5>2. events'[i - 1] = events[i]
          BY <2>1, <5>1
        <5> QED
          BY <5>1, <5>2 DEF NoPending
      <4> QED
        BY <4>1, <4>2
    <3>5. ASSUME NEW i \in DOMAIN events', events'[i].kind = "pending"
          PROVE  i = Len(events') /\ runtime.at = "control" /\ runtime.control = <<>> /\ ~actor.paused
      <4>1. i + 1 \in DOMAIN events /\ events[i + 1].kind = "pending"
        BY <2>1, <3>5
      <4>2. i + 1 = Len(events) /\ runtime.at = "control" /\ runtime.control = <<>> /\ ~actor.paused
        BY <3>3, <4>1 DEF TakingTurns
      <4> QED
        BY <2>1, <4>2
    <3> QED
      BY <3>1, <3>2, <3>3, <3>4, <3>5 DEF TakingTurns
  <2>3. CASE Head(events).kind = "pending"
    <3>1. OnPending
      BY <1>8, <2>3, EventCases
    <3>2. \/ runtime' = runtime
          \/ runtime' = [runtime EXCEPT !.control = Append(@, "continue")]
      BY <3>1 DEF OnPending
    <3>3. runtime'.killed = runtime.killed
      BY <1>0, <3>2 DEF Threads
    <3>4. TakingTurns /\ 1 \in DOMAIN events
      BY <2>1, <3>3 DEF Turns
    <3>5. Len(events) = 1 /\ runtime.at = "control" /\ runtime.control = <<>>
      BY <2>1, <2>3, <3>4 DEF TakingTurns
    <3>6. events' = <<>>
      BY <1>0, <2>0, <3>5, OnlyOne
    <3>7. CASE ObserverMode("frontier")
      <4> DEFINE a == [actor EXCEPT !.paused = TRUE, !.ready = ~StillObserved]
      <4>1. TellObserver(a, "pending") /\ runtime' = runtime
        BY <3>1, <3>7 DEF OnPending
      <4>2. (~StillObserved) \in BOOLEAN
        BY DEF StillObserved, Listening
      <4>3. a \in Locals /\ a.paused
        BY <1>0, <4>2 DEF Locals
      <4> HIDE DEF a
      <4>4. actor'.paused
        BY <4>1, <4>3, TellEffect
      <4> QED
        BY <3>4, <3>5, <3>6, <4>1, <4>4 DEF TakingTurns, NoPending
    <3>8. CASE ~ObserverMode("frontier")
      <4>1. /\ actor' = [actor EXCEPT !.paused = FALSE]
            /\ runtime' = [runtime EXCEPT !.control = Append(@, "continue")]
        BY <3>1, <3>5, <3>8 DEF OnPending
      <4>2. ~actor'.paused
        BY <1>0, <4>1 DEF Locals
      <4>3. /\ runtime'.at = runtime.at /\ runtime'.commands = runtime.commands
            /\ runtime'.control = Append(runtime.control, "continue")
        BY <1>0, <4>1 DEF Threads
      <4>4. runtime'.control = <<"continue">>
        BY <3>5, <4>3
      <4>5. /\ \A i \in DOMAIN runtime'.control : runtime'.control[i] # "terminate"
            /\ Len(runtime'.control) <= 1 /\ runtime'.control # <<>>
        BY <4>4
      <4> QED
        BY <3>4, <3>5, <3>6, <4>2, <4>3, <4>5 DEF TakingTurns, NoPending
    <3> QED
      BY <3>7, <3>8
  <2> QED
    BY <2>2, <2>3
<1>9. CASE OnRuntimeGone
  <2>1. OnRuntimeEnd(actor) /\ UNCHANGED <<events, runtime>>
    BY <1>9 DEF OnRuntimeGone
  <2> QED
    BY <1>0, <1>1, <2>1, EndEffect
<1>10. CASE NotesDrained \/ WindUp \/ Complete \/ CommitCompletion \/ DeliverCompletion
  <2>1. UNCHANGED <<events, runtime>>
    BY <1>10 DEF NotesDrained, WindUp, Complete, CommitCompletion, DeliverCompletion
  <2>2. actor'.paused = actor.paused
    BY <1>10, WindEffects DEF Keeps
  <2> QED
    BY <1>1, <2>1, <2>2
<1>11. CASE Close
  <2>1. events' = <<>> /\ runtime' = runtime
    BY <1>11 DEF Close
  <2>2. events = <<>> /\ actor'.paused = actor.paused
    BY <1>11, WindEffects DEF Ended
  <2> QED
    BY <1>1, <2>1, <2>2
<1>12. CASE Actor
  BY <1>5, <1>6, <1>7, <1>8, <1>9, <1>10, <1>11, <1>12 DEF Actor
<1>13. CASE Aside \/ \E k \in Killers : Terminate(k)
  BY <1>1, <1>13 DEF Aside, Terminate
<1> QED
  BY <1>2, <1>3, <1>4, <1>12, <1>13, StepCases

-----------------------------------------------------------------------------
(* The theorems                                                             *)

\* The initial state satisfies the invariant.
LEMMA CellInvInit == Init => CellInv
<1> SUFFICES ASSUME Init PROVE CellInv
  OBVIOUS
<1>1. Say("none") \in Answers /\ <<>> \in Items /\ Say("none").kind = "none" /\ Say("none").items = <<>>
  BY AnswerFacts, ItemsFacts DEF Kinds, Say
<1>2. session \in Sessions /\ cell \in Cells /\ actor \in Locals
  BY <1>1 DEF Init, Sessions, Cells, Locals, Phases
<1>3. /\ runtime \in Threads /\ inbox \in Seq(Calls) /\ events \in Seq(RuntimeEvents)
      /\ running \in [notes : Nat, tools : Nat] /\ told \in Items
  BY <1>1, EmitsAssumption DEF Init, Threads
<1>4. /\ calls \in [Calls -> [st : CallStates, mode : Modes, got : Answers]]
      /\ kills \in [Killers -> [st : {"idle", "waiting", "done"}, got : Answers]]
  BY <1>1 DEF Init, CallStates, Modes
<1>5. TypeOK
  BY <1>2, <1>3, <1>4 DEF TypeOK
<1>6. Outcomes = {}
  BY <1>1 DEF Init, Outcomes, Terminal
<1>7. Printed /\ Registered /\ Ended /\ Stage /\ Silence
  BY DEF Init, Printed, Registered, ShutdownIsFinal, Ended, Stage, Leaving, Silence
<1>8. Verdict
  BY <1>6 DEF Init, Verdict, OneOutcome
<1>9. Turns
  BY DEF Init, Turns, TakingTurns, NoPending
<1> QED
  BY <1>5, <1>7, <1>8, <1>9 DEF CellInv

\* Every step keeps the types.
LEMMA TypesPreserved == TypeOK /\ Printed /\ [Next]_vars => TypeOK' /\ Printed'
<1> SUFFICES ASSUME TypeOK, Printed, [Next]_vars PROVE TypeOK' /\ Printed'
  OBVIOUS
<1>1. CASE UNCHANGED vars
  BY <1>1 DEF vars, TypeOK, Printed
<1> QED
  BY <1>1, CallerTypes, RuntimeTypes, CallbackTypes, ActorTypes DEF Next

\* CellInv is an inductive invariant of the cell, its callers, its runtime and its session.
THEOREM CellInvHolds == Spec => []CellInv
<1>1. Init => CellInv
  BY CellInvInit
<1>2. CellInv /\ [Next]_vars => CellInv'
  BY TypesPreserved, RegisteredPreserved, EndedPreserved, StagePreserved, SilencePreserved,
     VerdictPreserved, TurnsPreserved
  DEF CellInv
<1> QED
  BY <1>1, <1>2, PTL DEF Spec

\* A cell ends once: commit_completion, request_termination and finish_termination agree on
\* one event for all callers, and the stored values are published with a completion only.
THEOREM CellSafetyHolds == Spec => []CellSafety
<1>1. CellInv => CellSafety
  BY DEF CellInv, CellSafety, Verdict
<1> QED
  BY <1>1, CellInvHolds, PTL

\* The actor and the runtime agree on who waits for whom at a frontier: a runtime stopped in
\* await_pending_control was announced, is known to be paused or has its permission waiting.
THEOREM PauseAgreementHolds == Spec => []PauseAgreement
<1>1. CellInv => PauseAgreement
  BY DEF CellInv, PauseAgreement, Turns, TakingTurns, NoPending
<1> QED
  BY <1>1, CellInvHolds, PTL

\* Whoever hears of the end of a cell can rely on its callbacks being over: finish_callbacks
\* is awaited on every way to a terminal event.
THEOREM OverMeansQuietHolds == Spec => []OverMeansQuiet
<1>1. CellInv => OverMeansQuiet
  BY DEF CellInv, OverMeansQuiet, Silence, Verdict, TypeOK, Cells, Phases
<1> QED
  BY <1>1, CellInvHolds, PTL

\* After shutdown returns no actor runs, although execute may have passed its first look at
\* the token before: start_cell looks again under the registry lock.
THEOREM ShutdownIsFinalHolds == Spec => []ShutdownIsFinal
<1>1. CellInv => ShutdownIsFinal
  BY DEF CellInv, Registered
<1> QED
  BY <1>1, CellInvHolds, PTL

\* No step answers a terminator that was let in with an error.
LEMMA TerminatorStep ==
  ASSUME CellInv, [Next]_vars, NEW k \in Killers, kills[k].st = "waiting", kills'[k].st = "done"
  PROVE  kills'[k].got.kind \in Terminal
<1>0. kills \in [Killers -> Kill] /\ Stage /\ TypeOK
  BY DEF CellInv, TypeOK, Kill
<1>1. kills' # kills
  OBVIOUS
<1>2. ASSUME NEW event, FinishTermination(event), event.kind = "terminated"
      PROVE  kills'[k].got.kind \in Terminal
  <2>1. kills' = [kills EXCEPT ![cell.killer] = [st |-> "done", got |-> event]]
    BY <1>1, <1>2 DEF FinishTermination
  <2>2. k = cell.killer /\ kills'[k] = [st |-> "done", got |-> event]
    BY <1>0, <2>1 DEF Kill
  <2> QED
    BY <1>2, <2>2 DEF Terminal
<1>3. ASSUME NEW j \in Killers, Terminate(j) PROVE FALSE
  <2>1. kills[j].st = "idle"
    BY <1>3 DEF Terminate
  <2>2. kills'[k] = kills[k]
    <3>1. j # k
      BY <2>1
    <3>2. \E x : kills' = [kills EXCEPT ![j] = x]
      BY <1>3 DEF Terminate, KillAnswered
    <3> QED
      BY <1>0, <3>1, <3>2
  <2> QED
    BY <2>2
<1>4. CASE WindUp
  <2>1. Event("terminated", actor.content).kind = "terminated"
    BY DEF Event
  <2> QED
    BY <1>2, <1>4, <2>1 DEF WindUp
<1>5. CASE DeliverCompletion
  <2>1. Event("terminated", actor.rejected.items).kind = "terminated"
    BY DEF Event
  <2> QED
    BY <1>1, <1>2, <1>5, <2>1 DEF DeliverCompletion
<1>6. CASE LeaveLoop
  <2>1. cell.phase = "tombstone"
    BY <1>0, <1>6, WindEffects DEF Stage, Leaving
  <2> QED
    BY <1>1, <1>6, <2>1 DEF LeaveLoop
<1>7. CASE Actor
  <2>1. ~OnObserve /\ ~OnRuntimeEvent
    BY <1>0, <1>1, ObserveCases, EventCases
  <2>2. ~(OnCancelled \/ OnYieldTimer \/ OnRuntimeGone \/ NotesDrained \/ Complete \/ CommitCompletion \/ Close)
    BY <1>1 DEF OnCancelled, OnYieldTimer, OnRuntimeGone, NotesDrained, Complete, CommitCompletion, Close
  <2> QED
    BY <1>4, <1>5, <1>6, <1>7, <2>1, <2>2 DEF Actor
<1>8. ~(Aside \/ RuntimeThread \/ Callback \/ \E mode \in Modes : StartCellUnchecked(mode))
  BY <1>0, <1>1, RuntimeFrame, CallbackFrame DEF RuntimeOnly, Aside, StartCellUnchecked
<1> QED
  BY <1>3, <1>7, <1>8, StepCases

\* A terminator that was let in hears the outcome; the reject of late requests after the
\* loop never meets one, because the phase is a tombstone by then.
THEOREM TerminatorHearsHolds == Spec => TerminatorHears
<1>1. CellInv /\ [Next]_vars =>
        [\A k \in Killers :
           kills[k].st = "waiting" /\ kills'[k].st = "done" => kills'[k].got.kind \in Terminal]_vars
  BY TerminatorStep
<1> QED
  BY <1>1, CellInvHolds, PTL DEF Spec, TerminatorHears

=============================================================================
