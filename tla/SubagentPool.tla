---------------------------- MODULE SubagentPool ----------------------------
(***************************************************************************)
(* The coordinator's tables read as a pool of slots: who holds a slot of a  *)
(* session are its pending and active children that no workflow owns, and   *)
(* its line is what the one shared queue holds of it, in the queue's order. *)
(***************************************************************************)
EXTENDS SubagentCoordinator

QueuedOf(s) == {c \in queued : child[c].parent = s}

\* The place of a queued spawn among those of its session.
Place(c) == 1 + Cardinality(ahead[c] \intersect QueuedOf(child[c].parent))

BusyOf == [s \in Parents |-> SlotsHeld(s, Running)]

LineOf ==
  [s \in Parents |->
     [i \in 1..Cardinality(QueuedOf(s)) |-> CHOOSE c \in QueuedOf(s) : Place(c) = i]]

Pool == INSTANCE SlotPool WITH Sessions <- Parents, busy <- BusyOf, line <- LineOf

\* The coordinator implements the pool: however spawns, wakes, cancels, sweeps, run
\* ends and deletes interleave over the tables and the shared queue, each session
\* sees a first come, first served pool of its own that never leaves a slot free
\* while somebody waits for it.
ImplementsPool == Pool!PoolSpec
=============================================================================
