------------------------- MODULE CodeModeCellOutput -------------------------
(***************************************************************************)
(* Proof that a code mode cell conserves its output, for every set of       *)
(* callers and terminators and scripts of every length. The inductive       *)
(* invariant OutputInv accounts for every item: it was handed out, is held  *)
(* or is on its way to the actor, in the order in which it was printed.     *)
(***************************************************************************)
EXTENDS CodeModeCellProofs

-----------------------------------------------------------------------------
(* The inductive invariant                                                  *)

\* What a rejected completion holds is not with the output any more.
Drafts ==
  /\ cell.phase \in {"running", "terminating"} /\ actor.at \notin {"commit", "deliver"} =>
       actor.rejected.items = <<>>
  /\ actor.at \in {"commit", "deliver"} => actor.content = <<>>

\* What went out and what the actor holds.
Out == told \o Undelivered

\* Until the cell is a tombstone, what went out and what is held is the beginning of what
\* was printed, and the rest is on its way.
Balance ==
  cell.phase # "tombstone" =>
    Out = Upto(Len(Out)) /\ Len(Out) <= runtime.items /\ OnTheWay(Len(Out))

\* The end that somebody heard of carries the rest of a beginning of what was printed, and
\* all of it after a completion.
Receipts ==
  \A a \in Outcomes :
    /\ \E n \in 0..runtime.items : told \o a.items = Upto(n)
    /\ a.kind = "completed" => told \o a.items = Upto(runtime.items)

OutputInv == Drafts /\ Balance /\ Receipts

-----------------------------------------------------------------------------
(* Output                                                                   *)

\* Nothing joined to output is that output.
LEMMA ItemsEnds ==
  ASSUME NEW s \in Items PROVE s \o <<>> = s /\ <<>> \o s = s /\ Len(s) \in Nat /\ DOMAIN s = 1..Len(s)
BY DEF Items

\* Outputs with the same items are equal.
LEMMA ItemsEqual ==
  ASSUME NEW s \in Items, NEW t \in Items, Len(s) = Len(t), \A i \in 1..Len(t) : s[i] = t[i]
  PROVE  s = t
BY DEF Items

\* Nothing may stand anywhere in a join.
LEMMA ItemsJoin ==
  ASSUME NEW s \in Items, NEW t \in Items
  PROVE  /\ (s \o t) \o <<>> = s \o t
         /\ s \o (t \o <<>>) = s \o t
         /\ s \o (<<>> \o t) = s \o t
<1>1. s \o t \in Items
  BY ItemsFacts
<1> QED
  BY <1>1, ItemsEnds

\* An item that is added to the second part is added to the whole.
LEMMA ItemsAppend ==
  ASSUME NEW s \in Items, NEW t \in Items, NEW x \in 1..MaxEmits
  PROVE  s \o Append(t, x) = Append(s \o t, x)
<1>1. s \o Append(t, x) \in Items /\ Append(s \o t, x) \in Items
  BY ItemsFacts
<1>2. Len(s \o Append(t, x)) = Len(Append(s \o t, x))
  BY DEF Items
<1>3. \A i \in 1..Len(Append(s \o t, x)) : (s \o Append(t, x))[i] = Append(s \o t, x)[i]
  BY DEF Items
<1> QED
  BY <1>1, <1>2, <1>3, ItemsEqual

\* The next item continues what was printed.
LEMMA UptoAppend ==
  ASSUME NEW s \in Items, s = Upto(Len(s)), NEW x \in 1..MaxEmits, x = Len(s) + 1
  PROVE  Append(s, x) = Upto(Len(Append(s, x))) /\ Len(Append(s, x)) = Len(s) + 1
<1>1. Append(s, x) \in Items /\ Len(Append(s, x)) = Len(s) + 1 /\ Len(s) \in Nat
  BY ItemsFacts DEF Items
<1>2. \A i \in 1..(Len(s) + 1) : Append(s, x)[i] = i
  <2>1. \A i \in 1..Len(s) : s[i] = i
    BY DEF Upto
  <2> QED
    BY <2>1 DEF Items
<1>3. DOMAIN Append(s, x) = 1..(Len(s) + 1)
  BY <1>1, ItemsEnds
<1>4. Append(s, x) = [i \in 1..(Len(s) + 1) |-> Append(s, x)[i]]
  BY <1>1, <1>3 DEF Items
<1> QED
  BY <1>1, <1>2, <1>4 DEF Upto

\* The items in the events es are those from n + 1 to m, in order.
Way(es, m, n) ==
  /\ {es[i].item : i \in {i \in DOMAIN es : es[i].kind = "item"}} = (n + 1)..m
  /\ \A i, j \in DOMAIN es :
       es[i].kind = "item" /\ es[j].kind = "item" /\ i < j => es[i].item < es[j].item

\* The output out, the events es and the number m of items printed fit together.
Balanced(out, es, m) == out = Upto(Len(out)) /\ Len(out) <= m /\ Way(es, m, Len(out))

\* Balance in terms of Balanced, now ...
LEMMA BalanceIs == Balance <=> (cell.phase # "tombstone" => Balanced(Out, events, runtime.items))
BY DEF Balance, Balanced, OnTheWay, Way

\* ... and after the step.
LEMMA BalanceIsNext ==
  Balance' <=> (cell'.phase # "tombstone" => Balanced(Out', events', runtime'.items))
BY DEF Balance, Balanced, OnTheWay, Way

\* With no event on its way everything has arrived.
LEMMA WayEmpty ==
  ASSUME NEW m \in Nat, NEW n \in Nat, n <= m, Way(<<>>, m, n)
  PROVE  n = m
<1>1. {i \in DOMAIN <<>> : <<>>[i].kind = "item"} = {}
  OBVIOUS
<1>2. (n + 1)..m = {}
  BY <1>1 DEF Way
<1>3. m \notin (n + 1)..m
  BY <1>2
<1> QED
  BY <1>3

\* The first event is the next item, or no item.
LEMMA WayTail ==
  ASSUME NEW es \in Seq(RuntimeEvents), es # <<>>, NEW m \in Nat, NEW n \in Nat, Way(es, m, n)
  PROVE  /\ Head(es).kind # "item" => Way(Tail(es), m, n)
         /\ Head(es).kind = "item" => Head(es).item = n + 1 /\ n + 1 <= m /\ Way(Tail(es), m, n + 1)
<1>0. /\ Tail(es) \in Seq(RuntimeEvents) /\ Head(es) = es[1] /\ 1 \in DOMAIN es
      /\ Len(es) \in Nat \ {0} /\ DOMAIN es = 1..Len(es) /\ DOMAIN Tail(es) = 1..(Len(es) - 1)
      /\ \A i \in DOMAIN Tail(es) : i + 1 \in DOMAIN es /\ Tail(es)[i] = es[i + 1]
  BY EventTail
<1> DEFINE ts == Tail(es)
           Those(s) == {s[i].item : i \in {i \in DOMAIN s : s[i].kind = "item"}}
<1>2. \A i, j \in DOMAIN ts : ts[i].kind = "item" /\ ts[j].kind = "item" /\ i < j => ts[i].item < ts[j].item
  <2> SUFFICES ASSUME NEW i \in DOMAIN ts, NEW j \in DOMAIN ts,
                      ts[i].kind = "item", ts[j].kind = "item", i < j
               PROVE  ts[i].item < ts[j].item
    OBVIOUS
  <2>1. i + 1 \in DOMAIN es /\ j + 1 \in DOMAIN es /\ i + 1 < j + 1
    BY <1>0
  <2> QED
    BY <1>0, <2>1 DEF Way
<1>3. \A i \in DOMAIN es : i = 1 \/ (i - 1 \in DOMAIN ts /\ ts[i - 1] = es[i])
  BY <1>0
<1>4. Those(es) = (n + 1)..m
  BY DEF Way
<1>5. Those(ts) \subseteq Those(es)
  BY <1>0
<1>6. ASSUME Head(es).kind # "item" PROVE Way(ts, m, n)
  <2>1. ASSUME NEW x \in Those(es) PROVE x \in Those(ts)
    <3>1. PICK i \in DOMAIN es : es[i].kind = "item" /\ es[i].item = x
      BY <2>1
    <3>2. i # 1
      BY <1>0, <1>6, <3>1
    <3>3. i - 1 \in DOMAIN ts /\ ts[i - 1] = es[i]
      BY <1>3, <3>2
    <3> QED
      BY <3>1, <3>3
  <2> QED
    BY <1>2, <1>4, <1>5, <2>1 DEF Way
<1>7. ASSUME Head(es).kind = "item"
      PROVE  Head(es).item = n + 1 /\ n + 1 <= m /\ Way(ts, m, n + 1)
  <2>1. es[1].item \in (n + 1)..m
    BY <1>0, <1>4, <1>7
  <2>2. n + 1 <= m /\ n + 1 \in (n + 1)..m
    BY <2>1
  <2>3. PICK j \in DOMAIN es : es[j].kind = "item" /\ es[j].item = n + 1
    BY <1>4, <2>2
  <2>4. j = 1
    <3>1. CASE j # 1
      <4>1. 1 < j
        BY <1>0, <3>1
      <4>2. es[1].item < n + 1
        BY <1>0, <1>7, <2>3, <4>1 DEF Way
      <4> QED
        BY <2>1, <4>2
    <3> QED
      BY <3>1
  <2>5. es[1].item = n + 1
    BY <2>3, <2>4
  <2>6. \A i \in DOMAIN ts : ts[i].kind = "item" => ts[i].item \in ((n + 1) + 1)..m
    <3> SUFFICES ASSUME NEW i \in DOMAIN ts, ts[i].kind = "item" PROVE ts[i].item \in ((n + 1) + 1)..m
      OBVIOUS
    <3>1. i + 1 \in DOMAIN es /\ ts[i] = es[i + 1] /\ 1 < i + 1
      BY <1>0
    <3>2. es[1].item < es[i + 1].item
      BY <1>0, <1>7, <3>1 DEF Way
    <3>3. es[i + 1].item \in (n + 1)..m
      BY <1>4, <3>1
    <3> QED
      BY <2>5, <3>1, <3>2, <3>3
  <2>7. ASSUME NEW x \in ((n + 1) + 1)..m PROVE x \in Those(ts)
    <3>1. x \in (n + 1)..m /\ x # n + 1
      BY <2>7
    <3>2. PICK i \in DOMAIN es : es[i].kind = "item" /\ es[i].item = x
      BY <1>4, <3>1
    <3>3. i # 1
      BY <2>5, <3>1, <3>2
    <3> QED
      BY <1>3, <3>2, <3>3
  <2>8. Those(ts) = ((n + 1) + 1)..m
    BY <2>6, <2>7
  <2> QED
    BY <1>0, <1>2, <2>2, <2>5, <2>8 DEF Way
<1> QED
  BY <1>6, <1>7

\* A new item comes after those on their way.
LEMMA WayAppend ==
  ASSUME NEW es \in Seq(RuntimeEvents), NEW e \in RuntimeEvents, NEW m \in Nat, NEW n \in Nat,
         Way(es, m, n)
  PROVE  /\ e.kind # "item" => Way(Append(es, e), m, n)
         /\ e.kind = "item" /\ e.item = m + 1 /\ n <= m => Way(Append(es, e), m + 1, n)
<1> DEFINE fs == Append(es, e)
           last == Len(es) + 1
           Those(s) == {s[i].item : i \in {i \in DOMAIN s : s[i].kind = "item"}}
<1>0. /\ Len(es) \in Nat /\ DOMAIN es = 1..Len(es) /\ DOMAIN fs = 1..last
      /\ \A i \in DOMAIN es : fs[i] = es[i]
      /\ fs[last] = e
  OBVIOUS
<1>1. /\ \A i \in DOMAIN fs : i \in DOMAIN es \/ i = last
      /\ \A i \in DOMAIN es : i \in DOMAIN fs /\ i < last
      /\ last \in DOMAIN fs
  BY <1>0
<1>2. Those(es) = (n + 1)..m
  BY DEF Way
<1> HIDE DEF fs, last
<1>3. ASSUME e.kind # "item" PROVE Way(fs, m, n)
  <2>1. Those(fs) = Those(es)
    BY <1>0, <1>1, <1>3
  <2>2. \A i, j \in DOMAIN fs : fs[i].kind = "item" /\ fs[j].kind = "item" /\ i < j => fs[i].item < fs[j].item
    BY <1>0, <1>1, <1>3 DEF Way
  <2> QED
    BY <1>2, <2>1, <2>2 DEF Way
<1>4. ASSUME e.kind = "item", e.item = m + 1, n <= m PROVE Way(fs, m + 1, n)
  <2>1. Those(fs) = Those(es) \union {m + 1}
    BY <1>0, <1>1, <1>4
  <2>2. (n + 1)..(m + 1) = ((n + 1)..m) \union {m + 1}
    BY <1>4
  <2>3. ASSUME NEW i \in DOMAIN fs, NEW j \in DOMAIN fs, fs[i].kind = "item", fs[j].kind = "item", i < j
        PROVE  fs[i].item < fs[j].item
    <3>1. i \in DOMAIN es
      BY <1>0, <1>1, <2>3 DEF last
    <3>2. CASE j \in DOMAIN es
      BY <1>0, <2>3, <3>1, <3>2 DEF Way
    <3>3. CASE j = last
      <4>1. es[i].item \in (n + 1)..m
        BY <1>0, <1>2, <2>3, <3>1
      <4> QED
        BY <1>0, <1>4, <3>1, <3>3, <4>1
    <3> QED
      BY <1>1, <3>2, <3>3
  <2> QED
    BY <1>2, <2>1, <2>2, <2>3 DEF Way
<1> QED
  BY <1>3, <1>4 DEF fs

\* How the events and what was printed change.
LEMMA EventSteps ==
  ASSUME TypeOK, Printed, Ended, [Next]_vars
  PROVE  \/ events' = events /\ runtime'.items = runtime.items
         \/ /\ runtime'.items = runtime.items
            /\ \E e \in RuntimeEvents : e.kind # "item" /\ events' = Append(events, e)
         \/ /\ RuntimeThread /\ runtime'.items = runtime.items + 1
            /\ \E e \in RuntimeEvents : /\ e.kind = "item" /\ e.item = runtime.items + 1
                                        /\ events' = Append(events, e)
         \/ OnRuntimeEvent /\ runtime'.items = runtime.items
<1>0. runtime \in Threads /\ actor \in Locals
  BY DEF TypeOK
<1>1. CASE Actor
  <2>1. CASE OnRuntimeEvent
    <3>1. runtime' = runtime \/ runtime' = [runtime EXCEPT !.control = Append(@, "continue")]
      BY <2>1, EventCases DEF OnPending
    <3> QED
      BY <1>0, <2>1, <3>1 DEF Threads
  <2>2. CASE OnCancelled \/ LeaveLoop
    BY <1>0, <2>2, TerminationFrame DEF OnCancelled, LeaveLoop
  <2>3. CASE OnObserve
    BY <2>3, ObserveCases, ObserveTypes
  <2>4. CASE OnYieldTimer \/ OnRuntimeGone \/ NotesDrained \/ WindUp \/ Complete \/ CommitCompletion
             \/ DeliverCompletion
    BY <2>4 DEF OnYieldTimer, OnRuntimeGone, NotesDrained, WindUp, Complete, CommitCompletion, DeliverCompletion
  <2>5. CASE Close
    <3>1. events' = <<>> /\ runtime' = runtime
      BY <2>5 DEF Close
    <3>2. events = <<>>
      BY <2>5, WindEffects DEF Ended
    <3> QED
      BY <3>1, <3>2
  <2> QED
    BY <1>1, <2>1, <2>2, <2>3, <2>4, <2>5 DEF Actor
<1>2. CASE RuntimeThread
  <2>0. actor.at # "done"
    BY <1>2 DEF Ended, RuntimeThread, RuntimeStart, ScriptEmits, ScriptTurnEnds, PollCommand, AwaitControl, AwaitCommand
  <2>a. ASSUME NEW kind \in {"started", "pending", "result", "panicked"}, Emit(kind, 0)
        PROVE  \E e \in RuntimeEvents : e.kind # "item" /\ events' = Append(events, e)
    <3> DEFINE e == [kind |-> kind, item |-> 0]
    <3>1. e \in RuntimeEvents /\ e.kind # "item"
      BY EmitsAssumption DEF RuntimeEvents
    <3>2. events' = Append(events, e)
      BY <2>0, <2>a DEF Emit
    <3> QED
      BY <3>1, <3>2
  <2>1. CASE RuntimeStart \/ ScriptTurnEnds
    <3>1. runtime'.items = runtime.items
      BY <1>0, <2>1 DEF RuntimeStart, ScriptTurnEnds, Goto, Threads
    <3>2. UNCHANGED events \/ Emit("started", 0) \/ Emit("result", 0) \/ Emit("panicked", 0)
      BY <2>1 DEF RuntimeStart, ScriptTurnEnds
    <3> QED
      BY <2>a, <3>1, <3>2
  <2>2. ASSUME NEW kind \in Emissions, ScriptEmits(kind)
        PROVE  \/ /\ runtime'.items = runtime.items
                  /\ \E e \in RuntimeEvents : e.kind # "item" /\ events' = Append(events, e)
               \/ /\ runtime'.items = runtime.items + 1
                  /\ \E e \in RuntimeEvents : /\ e.kind = "item" /\ e.item = runtime.items + 1
                                              /\ events' = Append(events, e)
    <3> DEFINE item == IF kind = "item" THEN runtime.items + 1 ELSE 0
               e == [kind |-> kind, item |-> item]
    <3>1. runtime.items <= runtime.emitted /\ runtime.emitted < MaxEmits
      BY <2>2 DEF Printed, ScriptEmits
    <3>2. item \in 0..MaxEmits
      BY <1>0, <3>1, EmitsAssumption DEF Threads
    <3>3. runtime'.items = IF kind = "item" THEN item ELSE runtime.items
      BY <1>0, <2>2 DEF ScriptEmits, Threads
    <3>4. events' = Append(events, e)
      BY <2>0, <2>2 DEF ScriptEmits, Emit
    <3>5. e \in RuntimeEvents /\ e.kind = kind /\ e.item = item
      BY <3>2 DEF RuntimeEvents
    <3> HIDE DEF e
    <3> QED
      BY <3>3, <3>4, <3>5
  <2>3. CASE PollCommand
    <3>1. runtime'.items = runtime.items
      BY <1>0, <2>3 DEF PollCommand, TakeCommand, Goto, Threads
    <3>2. UNCHANGED events \/ Emit("pending", 0)
      BY <2>3 DEF PollCommand
    <3> QED
      BY <2>a, <3>1, <3>2
  <2>4. CASE AwaitControl
    BY <1>0, <2>4 DEF AwaitControl, Threads
  <2>5. CASE AwaitCommand
    BY <1>0, <2>5 DEF AwaitCommand, TakeCommand, Threads
  <2> QED
    BY <1>2, <2>1, <2>2, <2>3, <2>4, <2>5 DEF RuntimeThread
<1>3. CASE Callback
  BY <1>0, <1>3, CallbackFrame DEF Threads
<1>4. CASE \E mode \in Modes : StartCellUnchecked(mode)
  BY <1>0, <1>4 DEF StartCellUnchecked, Threads
<1>5. CASE Aside \/ \E k \in Killers : Terminate(k)
  BY <1>5 DEF Aside, Terminate
<1> QED
  BY <1>1, <1>2, <1>3, <1>4, <1>5, StepCases

\* The cell has no end yet.
Open == cell.phase \in {"running", "terminating"}

\* Every step keeps Drafts.
LEMMA DraftsPreserved ==
  TypeOK /\ Registered /\ Ended /\ Stage /\ Drafts /\ [Next]_vars => Drafts'
<1> SUFFICES ASSUME TypeOK, Registered, Ended, Stage, Drafts, [Next]_vars PROVE Drafts'
  OBVIOUS
<1>0. actor \in Locals /\ cell \in Cells
  BY DEF TypeOK
<1>1. ASSUME actor.at \notin {"commit", "deliver"}, actor'.at \notin {"commit", "deliver"},
             actor'.rejected = actor.rejected, Open' => Open
      PROVE  Drafts'
  BY <1>1 DEF Drafts, Open
<1>2. CASE actor' = actor /\ (Open' => Open)
  BY <1>2 DEF Drafts, Open
<1>3. CASE \E k \in Killers : Terminate(k)
  <2>1. actor' = actor
    BY <1>3 DEF Terminate
  <2>2. Open' => Open
    BY <1>0, <1>3 DEF Terminate, Open, Cells
  <2> QED
    BY <1>2, <2>1, <2>2
<1>4. ASSUME NEW mode \in Modes, StartCellUnchecked(mode) PROVE Drafts'
  <2>1. actor.at = "off" /\ cell' = cell
    BY <1>4 DEF StartCellUnchecked, Registered
  <2>2. actor'.at = "loop" /\ actor'.rejected = actor.rejected
    BY <1>0, <1>4 DEF StartCellUnchecked, Locals
  <2> QED
    BY <1>1, <2>1, <2>2 DEF Open
<1>5. CASE Actor
  <2>1. CASE OnCancelled
    <3>1. cell'.phase = cell.phase
      BY <1>0, <2>1 DEF OnCancelled, Cells
    <3>2. actor.at = "loop" /\ actor'.at \in {"loop", "notes"} /\ actor'.rejected = actor.rejected
      BY <1>0, <2>1, CancelledEffect DEF Locals
    <3> QED
      BY <1>1, <3>1, <3>2 DEF Open
  <2>2. CASE OnObserve
    <3>1. actor.at = "loop"
      BY <2>2, ObserveCases
    <3>2. actor'.at \in {"loop", "left"} /\ actor'.rejected = actor.rejected
      BY <1>0, <2>2, <3>1, ObserveCases, HandOutEffect, AttachEffect DEF Refuse, Locals
    <3>3. Open' => Open
      <4>1. cell' = cell \/ cell' = [cell EXCEPT !.phase = "tombstone", !.cancelled = TRUE]
        BY <2>2, ObserveCases DEF Refuse, HandOutFrontier, AttachObserver
      <4> QED
        BY <1>0, <4>1 DEF Open, Cells
    <3> QED
      BY <1>1, <3>1, <3>2, <3>3
  <2>3. CASE OnYieldTimer
    <3>1. TellObserver(actor, "yielded") /\ actor.at = "loop" /\ cell' = cell
      BY <2>3 DEF OnYieldTimer
    <3>2. actor'.at = "loop" /\ actor'.rejected = actor.rejected
      BY <1>0, <3>1, TellEffect
    <3> QED
      BY <1>1, <3>1, <3>2 DEF Open
  <2>4. CASE OnRuntimeEvent
    <3>1. actor.at = "loop" /\ cell' = cell
      BY <2>4, EventCases
    <3>2. actor'.at \in {"loop", "notes"} /\ actor'.rejected = actor.rejected
      BY <2>4, EventEffect, ResultEffect
    <3> QED
      BY <1>1, <3>1, <3>2 DEF Open
  <2>5. CASE OnRuntimeGone
    <3>1. OnRuntimeEnd(actor) /\ actor.at = "loop" /\ cell' = cell
      BY <2>5 DEF OnRuntimeGone
    <3>2. actor'.at = "notes" /\ actor'.rejected = actor.rejected
      BY <1>0, <3>1, EndEffect
    <3> QED
      BY <1>1, <3>1, <3>2 DEF Open
  <2>6. CASE NotesDrained
    <3>1. cell' = cell
      BY <2>6 DEF NotesDrained
    <3> QED
      BY <1>1, <2>6, <3>1, WindEffects DEF Keeps, Open
  <2>7. CASE WindUp
    <3>1. ~Open' /\ actor'.at = "left"
      BY <2>7, FinishEffect, WindEffects DEF WindUp, Open
    <3> QED
      BY <3>1 DEF Drafts, Open
  <2>8. CASE Complete
    BY <2>8, WindEffects DEF Drafts
  <2>9. CASE CommitCompletion
    BY <2>9, WindEffects DEF Drafts
  <2>10. CASE DeliverCompletion
    <3>1. ~Open'
      BY <1>0, <2>10, FinishEffect DEF DeliverCompletion, Open, Cells
    <3>2. actor'.at \in {"loop", "left"}
      BY <2>10, WindEffects
    <3> QED
      BY <3>1, <3>2 DEF Drafts, Open
  <2>11. CASE LeaveLoop \/ Close
    <3>1. ~Open'
      BY <1>0, <2>11, WindEffects DEF LeaveLoop, Close, Open, Cells, Stage, Leaving
    <3>2. actor'.at \in {"notes", "done"}
      BY <2>11, WindEffects
    <3> QED
      BY <3>1, <3>2 DEF Drafts, Open
  <2> QED
    BY <1>5, <2>1, <2>2, <2>3, <2>4, <2>5, <2>6, <2>7, <2>8, <2>9, <2>10, <2>11 DEF Actor
<1>6. CASE Aside \/ RuntimeThread \/ Callback
  BY <1>2, <1>6, RuntimeFrame, CallbackFrame DEF RuntimeOnly, Aside, Open
<1> QED
  BY <1>3, <1>4, <1>5, <1>6, StepCases

\* What goes out and what is held changes in one way only: an item is added at its end.
LEMMA OutSteps ==
  ASSUME TypeOK, Printed, Registered, Ended, Stage, Drafts, [Next]_vars, cell'.phase # "tombstone"
  PROVE  Out' = IF OnRuntimeEvent /\ Head(events).kind = "item"
                THEN Append(Out, Head(events).item) ELSE Out
<1>0. /\ actor \in Locals /\ cell \in Cells /\ told \in Items
      /\ actor.content \in Items /\ actor.rejected.items \in Items /\ cell.event.items \in Items
  BY AnswerFacts DEF TypeOK, Locals, Cells
<1> DEFINE Held == cell.phase \in {"completed", "claimed"}
<1>1. /\ Held => Undelivered = cell.event.items
      /\ ~Held => Undelivered = actor.content \o actor.rejected.items
  BY DEF Undelivered
<1>2. /\ Held' => Undelivered' = cell'.event.items
      /\ ~Held' => Undelivered' = actor'.content \o actor'.rejected.items
  BY DEF Undelivered
<1>3. Out = told \o Undelivered /\ Out' = told' \o Undelivered'
  BY DEF Out
<1> HIDE DEF Held
<1>4. ASSUME told' = told, cell'.event = cell.event, Held' <=> Held,
             Held \/ (actor'.content = actor.content /\ actor'.rejected = actor.rejected)
      PROVE  Out' = Out
  BY <1>1, <1>2, <1>3, <1>4
<1>h. ASSUME ~Held, actor.rejected.items = <<>> PROVE Out = told \o actor.content
  <2>1. Out = told \o (actor.content \o <<>>)
    BY <1>1, <1>3, <1>h
  <2> QED
    BY <1>0, <2>1, ItemsJoin
<1>5. ASSUME ~Held, ~Held', actor.rejected.items = <<>>, actor'.rejected = actor.rejected,
             \/ told' = told \o actor.content /\ actor'.content = <<>>
             \/ told' = told /\ actor'.content = actor.content
      PROVE  Out' = Out
  <2>1. Out = told \o actor.content
    BY <1>5, <1>h
  <2>2. CASE told' = told \o actor.content /\ actor'.content = <<>>
    <3>1. Out' = (told \o actor.content) \o (<<>> \o <<>>)
      BY <1>2, <1>3, <1>5, <2>2
    <3>2. <<>> \o <<>> = <<>>
      BY ItemsFacts, ItemsEnds
    <3> QED
      BY <1>0, <2>1, <3>1, <3>2, ItemsJoin
  <2>3. CASE told' = told /\ actor'.content = actor.content
    BY <1>1, <1>2, <1>3, <1>5, <2>3
  <2> QED
    BY <1>5, <2>2, <2>3
<1>6. ASSUME NEW a \in Locals, NEW kind, TellObserver(a, kind), actor.at = "loop", cell' = cell,
             a.rejected = actor.rejected, a.content = actor.content
      PROVE  Out' = Out
  <2>1. Held' <=> Held
    BY <1>6 DEF Held
  <2>2. actor'.rejected = actor.rejected /\ actor'.content = IF StillObserved THEN <<>> ELSE actor.content
    BY <1>6, TellEffect
  <2>3. told' = IF StillObserved THEN told \o actor.content ELSE told
    BY <1>6 DEF TellObserver
  <2>4. CASE Held
    <3>1. actor.observer = None
      BY <1>6, <2>4 DEF Held, Stage
    <3>2. ~StillObserved
      BY <3>1 DEF StillObserved, Listening
    <3> QED
      BY <1>4, <1>6, <2>1, <2>3, <2>4, <3>2
  <2>5. CASE ~Held
    <3>1. actor.rejected.items = <<>>
      BY <1>0, <1>6, <2>5 DEF Drafts, Held, Cells, Phases
    <3> QED
      BY <1>5, <2>1, <2>2, <2>3, <2>5, <3>1
  <2> QED
    BY <2>4, <2>5
<1>7. CASE OnRuntimeEvent
  <2>0. /\ actor.at = "loop" /\ ~actor.closed /\ cell' = cell /\ events # <<>> /\ ~Held /\ ~Held'
        /\ actor.rejected.items = <<>>
    <3>1. actor.at = "loop" /\ ~actor.closed /\ cell' = cell /\ events # <<>>
      BY <1>7, EventCases
    <3>2. cell.phase \in {"running", "terminating"}
      BY <1>0, <3>1 DEF Stage, Leaving, Cells, Phases
    <3> QED
      BY <3>1, <3>2 DEF Drafts, Held
  <2>1. CASE Head(events).kind = "item"
    <3>1. actor' = [actor EXCEPT !.content = Append(@, Head(events).item)] /\ told' = told
      BY <1>7, <2>1, EventCases
    <3>2. actor'.content = Append(actor.content, Head(events).item) /\ actor'.rejected = actor.rejected
      BY <1>0, <3>1 DEF Locals
    <3>3. Head(events).item \in 1..MaxEmits
      BY <2>0, <2>1, EventTail DEF Printed, TypeOK
    <3> DEFINE x == Head(events).item
    <3> HIDE DEF x
    <3>4. Append(actor.content, x) \in Items
      BY <1>0, <3>3, ItemsFacts DEF x
    <3>5. Out' = told \o (Append(actor.content, x) \o <<>>)
      BY <1>2, <1>3, <2>0, <3>1, <3>2 DEF x
    <3>6. Out' = told \o Append(actor.content, x)
      BY <1>0, <3>4, <3>5, ItemsJoin
    <3>7. Out = told \o actor.content
      BY <2>0, <1>h
    <3> QED
      BY <1>0, <1>7, <2>1, <3>3, <3>6, <3>7, ItemsAppend DEF x
  <2>2. CASE Head(events).kind = "result"
    <3>1. actor'.content = actor.content /\ actor'.rejected = actor.rejected /\ told' = told
      BY <1>7, <2>2, ResultEffect
    <3> QED
      BY <1>5, <2>0, <2>2, <3>1
  <2>3. CASE Head(events).kind = "pending"
    <3>1. OnPending
      BY <1>7, <2>3, EventCases
    <3>2. CASE ObserverMode("frontier")
      <4> DEFINE a == [actor EXCEPT !.paused = TRUE, !.ready = ~StillObserved]
      <4>1. TellObserver(a, "pending")
        BY <3>1, <3>2 DEF OnPending
      <4>2. (~StillObserved) \in BOOLEAN
        BY DEF StillObserved, Listening
      <4>3. a \in Locals /\ a.rejected = actor.rejected /\ a.content = actor.content
        BY <1>0, <4>2 DEF Locals
      <4> HIDE DEF a
      <4> QED
        BY <1>6, <2>0, <2>3, <4>1, <4>3
    <3>3. CASE ~ObserverMode("frontier")
      <4>1. actor' = [actor EXCEPT !.paused = FALSE] /\ told' = told
        BY <3>1, <3>3 DEF OnPending
      <4>2. actor'.content = actor.content /\ actor'.rejected = actor.rejected
        BY <1>0, <4>1 DEF Locals
      <4> QED
        BY <1>5, <2>0, <2>3, <4>1, <4>2
    <3> QED
      BY <3>2, <3>3
  <2>4. CASE TellObserver(actor, "yielded") /\ Head(events).kind = "yield"
    BY <1>0, <1>6, <2>0, <2>4
  <2>5. CASE /\ Head(events).kind # "item" /\ told' = told
             /\ \/ actor' = [actor EXCEPT !.timer = ObserverMode("yield_after")]
                \/ UNCHANGED actor
    <3>1. actor'.content = actor.content /\ actor'.rejected = actor.rejected
      BY <1>0, <2>5 DEF Locals
    <3> QED
      BY <1>5, <2>0, <2>5, <3>1
  <2> QED
    BY <1>7, <2>1, <2>2, <2>3, <2>4, <2>5, EventCases
<1>8. CASE Actor /\ ~OnRuntimeEvent
  <2> SUFFICES Out' = Out
    BY <1>8
  <2>1. CASE OnCancelled
    <3>1. cell'.event = cell.event /\ cell'.phase = cell.phase /\ told' = told
      BY <1>0, <2>1 DEF OnCancelled, Cells
    <3> QED
      BY <1>4, <2>1, <3>1, CancelledEffect DEF Held
  <2>2. CASE OnObserve
    <3>0. actor.at = "loop"
      BY <2>2, ObserveCases
    <3>1. CASE UNCHANGED <<cell, actor, told>>
      BY <1>4, <3>1 DEF Held
    <3>2. CASE cell' = [cell EXCEPT !.phase = "tombstone", !.cancelled = TRUE]
      BY <1>0, <3>2 DEF Cells
    <3>3. CASE cell.phase = "running" /\ HandOutFrontier(Head(inbox))
      <4>1. cell' = cell /\ told' = told \o actor.content
        BY <3>3 DEF HandOutFrontier
      <4>2. actor'.content = <<>> /\ actor'.rejected = actor.rejected
        BY <3>3, HandOutEffect
      <4>3. ~Held /\ ~Held' /\ actor.rejected.items = <<>>
        BY <3>0, <3>3, <4>1 DEF Held, Drafts
      <4> QED
        BY <1>5, <4>1, <4>2, <4>3
    <3>4. CASE AttachObserver(Head(inbox))
      <4>1. cell' = cell /\ told' = told
        BY <3>4 DEF AttachObserver
      <4> QED
        BY <1>4, <3>4, <4>1, AttachEffect DEF Held
    <3> QED
      BY <2>2, <3>1, <3>2, <3>3, <3>4, ObserveCases DEF Refuse
  <2>3. CASE OnYieldTimer
    <3>1. TellObserver(actor, "yielded") /\ actor.at = "loop" /\ cell' = cell
      BY <2>3 DEF OnYieldTimer
    <3> QED
      BY <1>0, <1>6, <3>1
  <2>4. CASE OnRuntimeGone
    <3>1. OnRuntimeEnd(actor) /\ cell' = cell /\ told' = told
      BY <2>4 DEF OnRuntimeGone
    <3> QED
      BY <1>0, <1>4, <3>1, EndEffect DEF Held
  <2>5. CASE NotesDrained
    <3>1. cell' = cell /\ told' = told
      BY <2>5 DEF NotesDrained
    <3> QED
      BY <1>4, <2>5, <3>1, WindEffects DEF Held, Keeps
  <2>6. CASE WindUp
    BY <2>6, FinishEffect DEF WindUp
  <2>7. CASE Complete
    <3>1. cell' = cell /\ told' = told
      BY <2>7 DEF Complete
    <3>2. /\ actor.at = "tools" /\ actor.next = "complete" /\ actor'.content = <<>>
          /\ actor'.rejected.items = actor.content
      BY <2>7, WindEffects DEF Event
    <3>3. ~Held /\ ~Held' /\ actor.rejected.items = <<>>
      BY <1>0, <3>1, <3>2 DEF Held, Drafts, Stage, Leaving, Cells, Phases
    <3>4. Out = told \o actor.content
      BY <3>3, <1>h
    <3>5. Out' = told \o (<<>> \o actor.content)
      BY <1>2, <1>3, <3>1, <3>2, <3>3
    <3> QED
      BY <1>0, <3>4, <3>5, ItemsJoin
  <2>8. CASE CommitCompletion
    <3>0. told' = told /\ actor.at = "commit"
      BY <2>8 DEF CommitCompletion
    <3>1. CASE cell.phase = "running" /\ ~Cancelled
      <4>1. cell' = [cell EXCEPT !.phase = "completed", !.event = actor.rejected, !.stored = TRUE]
        BY <2>8, <3>1 DEF CommitCompletion
      <4>2. cell'.event = actor.rejected /\ Held' /\ ~Held
        BY <1>0, <3>1, <4>1 DEF Cells, Held
      <4>3. actor.content = <<>>
        BY <3>0 DEF Drafts
      <4>4. Out = told \o (<<>> \o actor.rejected.items) /\ Out' = told \o actor.rejected.items
        BY <1>1, <1>2, <1>3, <3>0, <4>2, <4>3
      <4> QED
        BY <1>0, <4>4, ItemsJoin
    <3>2. CASE ~(cell.phase = "running" /\ ~Cancelled)
      <4>1. cell' = cell /\ actor' = [actor EXCEPT !.at = "deliver"]
        BY <2>8, <3>2 DEF CommitCompletion
      <4>2. actor'.content = actor.content /\ actor'.rejected = actor.rejected
        BY <1>0, <4>1 DEF Locals
      <4> QED
        BY <1>4, <3>0, <4>1, <4>2 DEF Held
    <3> QED
      BY <3>1, <3>2
  <2>9. CASE DeliverCompletion
    <3>1. CASE cell.phase = "completed" /\ ~StillObserved
      <4>1. cell' = cell /\ told' = told
        BY <2>9, <3>1 DEF DeliverCompletion
      <4> QED
        BY <1>4, <3>1, <4>1 DEF Held
    <3>2. CASE ~(cell.phase = "completed" /\ ~StillObserved)
      BY <1>0, <2>9, <3>2, FinishEffect DEF DeliverCompletion, Cells
    <3> QED
      BY <3>1, <3>2
  <2>10. CASE LeaveLoop \/ Close
    <3>1. cell.phase = "tombstone"
      BY <2>10, WindEffects DEF Stage, Leaving
    <3> QED
      BY <1>0, <2>10, <3>1 DEF LeaveLoop, Close, Cells
  <2> QED
    BY <1>8, <2>1, <2>2, <2>3, <2>4, <2>5, <2>6, <2>7, <2>8, <2>9, <2>10 DEF Actor
<1>9. CASE ~Actor
  <2>0. ~OnRuntimeEvent
    BY <1>9 DEF Actor
  <2> SUFFICES Out' = Out
    BY <2>0
  <2>1. CASE Aside \/ RuntimeThread \/ Callback
    BY <1>4, <2>1, RuntimeFrame, CallbackFrame DEF RuntimeOnly, Aside, Held
  <2>2. CASE \E k \in Killers : Terminate(k)
    <3>1. actor' = actor /\ told' = told
      BY <2>2 DEF Terminate
    <3>2. cell'.event = cell.event /\ (Held' <=> Held)
      BY <1>0, <2>2 DEF Terminate, Held, Cells
    <3> QED
      BY <1>4, <3>1, <3>2
  <2>3. CASE \E mode \in Modes : StartCellUnchecked(mode)
    <3>1. cell' = cell /\ told' = told
      BY <2>3 DEF StartCellUnchecked
    <3>2. actor'.content = actor.content /\ actor'.rejected = actor.rejected
      BY <1>0, <2>3 DEF StartCellUnchecked, Locals
    <3> QED
      BY <1>4, <3>1, <3>2 DEF Held
  <2> QED
    BY <1>9, <2>1, <2>2, <2>3, StepCases
<1> QED
  BY <1>7, <1>8, <1>9

\* A tombstone stays one.
LEMMA TombstoneStays ==
  ASSUME TypeOK, Stage, [Next]_vars, cell'.phase # "tombstone"
  PROVE  cell.phase # "tombstone"
<1>1. CASE ~Ending
  BY <1>1, QuietPhases
<1>2. CASE WindUp \/ DeliverCompletion
  BY <1>2, WindEffects DEF Stage, Leaving
<1> QED
  BY <1>1, <1>2 DEF Ending

\* Every step keeps Balance.
LEMMA BalancePreserved ==
  TypeOK /\ Printed /\ Registered /\ Ended /\ Stage /\ Drafts /\ Balance /\ [Next]_vars => Balance'
<1> SUFFICES ASSUME TypeOK, Printed, Registered, Ended, Stage, Drafts, Balance, [Next]_vars,
                    cell'.phase # "tombstone"
             PROVE  Balanced(Out', events', runtime'.items)
  BY BalanceIsNext
<1>0. /\ events \in Seq(RuntimeEvents) /\ runtime.items \in Nat
      /\ Out \in Items /\ Len(Out) \in Nat
  <2>1. /\ actor.content \in Items /\ actor.rejected.items \in Items /\ cell.event.items \in Items
        /\ told \in Items
    BY AnswerFacts DEF TypeOK, Locals, Cells
  <2>2. Out \in Items
    BY <2>1, ItemsFacts DEF Out, Undelivered
  <2> QED
    BY <2>2, ItemsEnds DEF TypeOK, Threads
<1>1. cell.phase # "tombstone"
  BY TombstoneStays
<1> DEFINE n == Len(Out)
           m == runtime.items
<1>2. Out = Upto(n) /\ n <= m /\ Way(events, m, n)
  BY <1>1, BalanceIs DEF Balanced
<1> HIDE DEF n, m
<1>3. CASE ~OnRuntimeEvent
  <2>1. Out' = Out
    BY <1>3, OutSteps
  <2>2. runtime'.items \in Nat /\ n <= runtime'.items /\ Way(events', runtime'.items, n)
    <3>1. CASE events' = events /\ runtime'.items = runtime.items
      BY <1>0, <1>2, <3>1 DEF m
    <3>2. CASE /\ runtime'.items = runtime.items
               /\ \E e \in RuntimeEvents : e.kind # "item" /\ events' = Append(events, e)
      BY <1>0, <1>2, <3>2, WayAppend DEF m, n
    <3>3. CASE /\ runtime'.items = runtime.items + 1
               /\ \E e \in RuntimeEvents : /\ e.kind = "item" /\ e.item = runtime.items + 1
                                           /\ events' = Append(events, e)
      <4>1. runtime'.items \in Nat /\ n <= runtime'.items
        BY <1>0, <1>2, <3>3 DEF m, n
      <4>2. Way(events', runtime'.items, n)
        BY <1>0, <1>2, <3>3, WayAppend DEF m, n
      <4> QED
        BY <4>1, <4>2
    <3> QED
      BY <1>3, <3>1, <3>2, <3>3, EventSteps
  <2> QED
    BY <1>2, <2>1, <2>2 DEF Balanced, n
<1>4. CASE OnRuntimeEvent
  <2>0. events # <<>> /\ events' = Tail(events)
    BY <1>4, EventCases
  <2>1. runtime'.items = m
    BY <1>4, EventTypes DEF m
  <2>2. CASE Head(events).kind # "item"
    <3>1. Out' = Out
      BY <1>4, <2>2, OutSteps
    <3>2. Way(events', m, n)
      BY <1>0, <1>2, <2>0, <2>2, WayTail DEF m, n
    <3> QED
      BY <1>2, <2>1, <3>1, <3>2 DEF Balanced, n
  <2>3. CASE Head(events).kind = "item"
    <3>1. Out' = Append(Out, Head(events).item)
      BY <1>4, <2>3, OutSteps
    <3>2. Head(events).item = n + 1 /\ n + 1 <= m /\ Way(events', m, n + 1)
      BY <1>0, <1>2, <2>0, <2>3, WayTail DEF m, n
    <3>3. Head(events).item \in 1..MaxEmits
      BY <2>0, <2>3, EventTail DEF Printed, TypeOK
    <3>4. Out' = Upto(Len(Out')) /\ Len(Out') = n + 1
      BY <1>0, <1>2, <3>1, <3>2, <3>3, UptoAppend DEF n
    <3> QED
      BY <2>1, <3>2, <3>4 DEF Balanced
  <2> QED
    BY <2>2, <2>3
<1> QED
  BY <1>3, <1>4

\* Once the cell has completed or ended nothing is printed and nothing goes out.
LEMMA TellsNoMore ==
  ASSUME TypeOK, Printed, Ended, Stage, [Next]_vars, cell.phase \notin {"running", "terminating"}
  PROVE  runtime'.items = runtime.items /\ told' = told
<1>0. actor.closed /\ cell.phase \in {"completed", "claimed", "tombstone"}
  BY DEF Stage, Leaving, Ended, TypeOK, Cells, Phases
<1>1. ~RuntimeThread
  BY <1>0 DEF Ended, RuntimeThread, RuntimeStart, ScriptEmits, ScriptTurnEnds, PollCommand, AwaitControl, AwaitCommand
<1>2. ~OnRuntimeEvent
  BY <1>0, EventCases
<1>3. runtime'.items = runtime.items
  BY <1>1, <1>2, EventSteps
<1>4. told' = told
  <2>1. CASE OnObserve
    BY <2>1, ObserveCases DEF Refuse, AttachObserver
  <2>2. CASE OnYieldTimer
    <3>1. actor.at = "loop" /\ TellObserver(actor, "yielded")
      BY <2>2 DEF OnYieldTimer
    <3>2. actor.observer = None
      BY <1>0, <3>1 DEF Stage, Leaving
    <3> QED
      BY <3>1, <3>2 DEF TellObserver, StillObserved, Listening
  <2>3. CASE OnCancelled \/ OnRuntimeGone \/ NotesDrained \/ WindUp \/ Complete \/ CommitCompletion
             \/ DeliverCompletion \/ LeaveLoop \/ Close
    BY <2>3 DEF OnCancelled, OnRuntimeGone, NotesDrained, WindUp, Complete, CommitCompletion,
                DeliverCompletion, LeaveLoop, Close
  <2>4. CASE Actor
    BY <1>2, <2>1, <2>2, <2>3, <2>4 DEF Actor
  <2>5. CASE \/ Aside \/ Callback
             \/ \E k \in Killers : Terminate(k)
             \/ \E mode \in Modes : StartCellUnchecked(mode)
    BY <2>5, CallbackFrame DEF Aside, Terminate, StartCellUnchecked
  <2> QED
    BY <1>1, <2>4, <2>5, StepCases
<1> QED
  BY <1>3, <1>4

\* What the balance says of an end.
LEMMA EndFits ==
  ASSUME TypeOK, Ended, Stage, Drafts, Balance
  PROVE  /\ cell.phase \in {"completed", "claimed"} => told \o cell.event.items = Upto(runtime.items)
         /\ cell.phase \in {"running", "terminating"} =>
              /\ actor.at \in {"commit", "deliver"} =>
                   \E n \in 0..runtime.items : told \o actor.rejected.items = Upto(n)
              /\ actor.at \notin {"commit", "deliver"} =>
                   \E n \in 0..runtime.items : told \o actor.content = Upto(n)
<1>0. /\ runtime.items \in Nat /\ told \in Items
      /\ actor.content \in Items /\ actor.rejected.items \in Items /\ cell.event.items \in Items
  BY AnswerFacts DEF TypeOK, Locals, Cells, Threads
<1>1. Out \in Items /\ Len(Out) \in Nat
  <2>1. Out \in Items
    BY <1>0, ItemsFacts DEF Out, Undelivered
  <2> QED
    BY <2>1, ItemsEnds
<1>2. cell.phase # "tombstone" =>
        Out = Upto(Len(Out)) /\ Len(Out) <= runtime.items /\ Way(events, runtime.items, Len(Out))
  BY BalanceIs DEF Balanced
<1>3. ASSUME cell.phase \in {"completed", "claimed"}
      PROVE  told \o cell.event.items = Upto(runtime.items)
  <2>1. Out = told \o cell.event.items
    BY <1>3 DEF Out, Undelivered
  <2>2. events = <<>>
    BY <1>3 DEF Stage, Ended
  <2>3. Len(Out) = runtime.items
    BY <1>0, <1>1, <1>2, <1>3, <2>2, WayEmpty
  <2> QED
    BY <1>2, <1>3, <2>1, <2>3
<1>4. ASSUME cell.phase \in {"running", "terminating"}, actor.at \in {"commit", "deliver"}
      PROVE  \E n \in 0..runtime.items : told \o actor.rejected.items = Upto(n)
  <2>1. Out = told \o (<<>> \o actor.rejected.items)
    BY <1>4 DEF Out, Undelivered, Drafts
  <2>2. Out = told \o actor.rejected.items
    BY <1>0, <2>1, ItemsJoin
  <2>3. Len(Out) \in 0..runtime.items /\ Out = Upto(Len(Out))
    BY <1>0, <1>1, <1>2, <1>4
  <2> QED
    BY <2>2, <2>3
<1>5. ASSUME cell.phase \in {"running", "terminating"}, actor.at \notin {"commit", "deliver"}
      PROVE  \E n \in 0..runtime.items : told \o actor.content = Upto(n)
  <2>1. Out = told \o (actor.content \o <<>>)
    BY <1>5 DEF Out, Undelivered, Drafts
  <2>2. Out = told \o actor.content
    BY <1>0, <2>1, ItemsJoin
  <2>3. Len(Out) \in 0..runtime.items /\ Out = Upto(Len(Out))
    BY <1>0, <1>1, <1>2, <1>5
  <2> QED
    BY <2>2, <2>3
<1> QED
  BY <1>3, <1>4, <1>5

\* Every step keeps Receipts: an end is told with what the balance leaves.
LEMMA ReceiptsPreserved ==
  TypeOK /\ Printed /\ Registered /\ Ended /\ Stage /\ Verdict /\ Drafts /\ Balance /\ Receipts /\ [Next]_vars
    => Receipts'
<1> SUFFICES ASSUME TypeOK, Printed, Registered, Ended, Stage, Verdict, Drafts, Balance, Receipts, [Next]_vars
             PROVE  Receipts'
  OBVIOUS
<1>0. runtime.items \in Nat
  BY DEF TypeOK, Threads
<1>1. CASE ~Ending
  <2>1. Outcomes' \subseteq Outcomes
    BY <1>1, OthersHearNothing, HearsNoMore
  <2>2. CASE Outcomes = {}
    BY <2>1, <2>2 DEF Receipts
  <2>3. CASE Outcomes # {}
    <3>1. cell.phase \notin {"running", "terminating"}
      BY <2>3 DEF Verdict
    <3>2. runtime'.items = runtime.items /\ told' = told
      BY <3>1, TellsNoMore
    <3> QED
      BY <2>1, <3>2 DEF Receipts
  <2> QED
    BY <2>2, <2>3
<1>2. ASSUME NEW x, Outcomes' \subseteq Outcomes \union {x}, runtime' = runtime, told' = told,
             \E n \in 0..runtime.items : told \o x.items = Upto(n),
             x.kind = "completed" => told \o x.items = Upto(runtime.items)
      PROVE  Receipts'
  BY <1>2 DEF Receipts
<1>3. ASSUME Outcomes' \subseteq Outcomes \union {cell.event}, runtime' = runtime, told' = told,
             cell.phase \in {"completed", "claimed"}
      PROVE  Receipts'
  <2>1. told \o cell.event.items = Upto(runtime.items)
    BY <1>3, EndFits
  <2>2. runtime.items \in 0..runtime.items
    BY <1>0
  <2> QED
    BY <1>2, <1>3, <2>1, <2>2
<1>4. ASSUME NEW k \in Killers, cell.phase = "completed", session.entry = "open", Terminate(k)
      PROVE  Receipts'
  <2>1. /\ kills' = [kills EXCEPT ![k] = [st |-> "done", got |-> cell.event]]
        /\ UNCHANGED <<calls, runtime, told>>
    BY <1>4 DEF Terminate, KillAnswered
  <2>2. Hears(cell.event)
    BY <2>1 DEF Hears, TypeOK
  <2> QED
    BY <1>3, <1>4, <2>1, <2>2, HearsMore
<1>5. CASE cell.phase = "completed" /\ OnObserve
  <2>1. runtime' = runtime /\ told' = told
    BY <1>5, ObserveCases DEF Refuse
  <2>2. Outcomes' \subseteq Outcomes \union {cell.event}
    <3>1. kills' = kills /\ calls \in [Calls -> Call]
      BY <1>5, ObserveCases DEF TypeOK, Call
    <3>2. \/ calls' = calls
          \/ \E kind \in {"closed", "busy"} : calls' = Told(calls, Head(inbox), Say(kind))
          \/ calls' = Told(calls, Head(inbox), cell.event)
      BY <1>5, ObserveCases DEF Refuse
    <3>3. \A c \in Calls : \/ calls'[c].got \in {calls[c].got, cell.event}
                            \/ calls'[c].got.kind \notin Terminal
      <4>1. CASE calls' = calls \/ calls' = Told(calls, Head(inbox), cell.event)
        BY <3>1, <4>1, ToldHears
      <4>2. ASSUME NEW kind \in {"closed", "busy"}, calls' = Told(calls, Head(inbox), Say(kind))
            PROVE  \A c \in Calls : calls'[c].got = calls[c].got \/ calls'[c].got.kind \notin Terminal
        <5>1. \A c \in Calls : calls'[c].got \in {calls[c].got, Say(kind)}
          BY <3>1, <4>2, ToldHears
        <5> QED
          BY <5>1, SayIsNoEnd
      <4> QED
        BY <3>2, <4>1, <4>2
    <3>4. Hears(cell.event)
      BY <3>1, <3>3 DEF Hears
    <3> QED
      BY <3>4, HearsMore
  <2> QED
    BY <1>3, <1>5, <2>1, <2>2
<1>6. ASSUME NEW event, event.kind = "terminated", FinishTermination(event), cell.phase # "tombstone",
             runtime' = runtime, told' = told,
             cell.phase \in {"running", "terminating"} =>
               \E n \in 0..runtime.items : told \o event.items = Upto(n)
      PROVE  Receipts'
  <2>1. Outcomes' \subseteq Outcomes \union {Verdicts(event)}
    BY <1>6, FinishHears, HearsMore
  <2>2. CASE cell.phase \in {"completed", "claimed"}
    BY <1>3, <1>6, <2>1, <2>2 DEF Verdicts
  <2>3. CASE cell.phase \in {"running", "terminating"}
    <3>1. Verdicts(event) = event
      BY <2>3 DEF Verdicts
    <3> QED
      BY <1>2, <1>6, <2>1, <2>3, <3>1
  <2> QED
    BY <1>6, <2>2, <2>3 DEF TypeOK, Cells, Phases
<1>7. CASE WindUp
  <2>1. cell.phase # "tombstone" /\ actor.at = "tools"
    BY <1>7, WindEffects DEF Stage, Leaving
  <2> DEFINE event == Event("terminated", actor.content)
  <2>2. event.kind = "terminated" /\ event.items = actor.content
    BY DEF Event
  <2>3. FinishTermination(event) /\ runtime' = runtime /\ told' = told
    BY <1>7 DEF WindUp
  <2> HIDE DEF event
  <2>4. cell.phase \in {"running", "terminating"} =>
          \E n \in 0..runtime.items : told \o event.items = Upto(n)
    BY <2>1, <2>2, EndFits
  <2> QED
    BY <1>6, <2>1, <2>2, <2>3, <2>4
<1>8. CASE DeliverCompletion
  <2>1. cell.phase # "tombstone" /\ actor.at = "deliver"
    BY <1>8, WindEffects DEF Stage, Leaving
  <2>2. runtime' = runtime /\ told' = told
    BY <1>8 DEF DeliverCompletion
  <2>3. CASE cell.phase # "completed"
    <3> DEFINE event == Event("terminated", actor.rejected.items)
    <3>1. event.kind = "terminated" /\ event.items = actor.rejected.items
      BY DEF Event
    <3>2. FinishTermination(event)
      BY <1>8, <2>3 DEF DeliverCompletion
    <3> HIDE DEF event
    <3>3. cell.phase \in {"running", "terminating"} =>
            \E n \in 0..runtime.items : told \o event.items = Upto(n)
      BY <2>1, <3>1, EndFits
    <3> QED
      BY <1>6, <2>1, <2>2, <3>1, <3>2, <3>3
  <2>4. CASE cell.phase = "completed"
    <3>1. kills' = kills /\ (calls' = calls \/ calls' = Told(calls, actor.observer, cell.event))
      BY <1>8, <2>4 DEF DeliverCompletion
    <3>2. Hears(cell.event)
      BY <3>1, ToldHears DEF Hears, TypeOK, Call
    <3> QED
      BY <1>3, <2>2, <2>4, <3>2, HearsMore
  <2> QED
    BY <2>3, <2>4
<1> QED
  BY <1>1, <1>4, <1>5, <1>7, <1>8 DEF Ending

-----------------------------------------------------------------------------
(* The theorem                                                              *)

\* The initial state satisfies the invariant.
LEMMA OutputInvInit == Init => OutputInv
<1> SUFFICES ASSUME Init PROVE OutputInv
  OBVIOUS
<1>1. <<>> \in Items /\ Say("none").kind = "none" /\ Say("none").items = <<>>
  BY ItemsFacts DEF Say
<1>2. Receipts
  <2>1. Outcomes = {}
    BY <1>1 DEF Init, Outcomes, Terminal
  <2> QED
    BY <2>1 DEF Receipts
<1>3. Drafts
  BY <1>1 DEF Init, Drafts
<1>4. Balance
  <2>1. Out = <<>>
    <3>1. Out = <<>> \o (<<>> \o <<>>)
      BY <1>1 DEF Init, Out, Undelivered
    <3> QED
      BY <1>1, <3>1, ItemsEnds
  <2>2. Len(Out) = 0 /\ Out = Upto(0)
    <3>1. Upto(0) = <<>>
      BY DEF Upto
    <3> QED
      BY <2>1, <3>1
  <2>3. Way(events, 0, 0)
    <3>1. events = <<>> /\ {i \in DOMAIN events : events[i].kind = "item"} = {}
      BY DEF Init
    <3>2. 1..0 = {}
      OBVIOUS
    <3> QED
      BY <3>1, <3>2 DEF Way
  <2>4. runtime.items = 0
    BY DEF Init
  <2> QED
    BY <2>2, <2>3, <2>4, BalanceIs DEF Balanced
<1> QED
  BY <1>2, <1>3, <1>4 DEF OutputInv

\* OutputInv is inductive relative to CellInv.
THEOREM OutputInvHolds == Spec => []OutputInv
<1>1. Init => OutputInv
  BY OutputInvInit
<1>2. CellInv /\ OutputInv /\ [Next]_vars => OutputInv'
  BY DraftsPreserved, BalancePreserved, ReceiptsPreserved DEF CellInv, OutputInv
<1> QED
  BY <1>1, <1>2, CellInvHolds, PTL DEF Spec

\* Output is neither lost nor doubled nor reordered by yields, dropped observers, frontiers
\* and rejected completions: what TellObserver, HandOutFrontier and deliver_completion hand
\* out is, in order, what the script printed.
THEOREM OutputConservedHolds == Spec => []OutputConserved
<1>1. OutputInv => OutputConserved
  BY DEF OutputInv, OutputConserved, Balance, Receipts, Out
<1> QED
  BY <1>1, OutputInvHolds, PTL
=============================================================================
