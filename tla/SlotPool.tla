------------------------------ MODULE SlotPool ------------------------------
(***************************************************************************)
(* What the subagent coordinator promises about slots, without any of its   *)
(* tables: every session has its own pool of Limit slots and its own line,  *)
(* the line moves up in the very step that frees a slot, first come first   *)
(* served, and no session's line ever holds another one's back.             *)
(***************************************************************************)
EXTENDS Naturals, Sequences, FiniteSets

CONSTANTS
  Ids,      \* children
  Sessions,
  Limit     \* slots of a session

VARIABLES
  busy,     \* busy[s]: the children that hold a slot of s
  line      \* line[s]: the children that wait for one, the first in front

poolVars == <<busy, line>>

PoolInit ==
  /\ busy = [s \in Sessions |-> {}]
  /\ line = [s \in Sessions |-> <<>>]

Waiting(s) == {line[s][i] : i \in DOMAIN line[s]}

\* The first in line take the free slots, all of them if there are enough.
Advance(s, staying, queue) ==
  LET free == Limit - Cardinality(staying)
      n == IF Len(queue) < free THEN Len(queue) ELSE free
  IN  /\ busy'[s] = staying \union {queue[i] : i \in 1..n}
      /\ line'[s] = SubSeq(queue, n + 1, Len(queue))

\* One step of one session: children end, callers give up, one child may arrive,
\* and whatever slots are free afterwards are handed on at once.
SessionStep(s) ==
  \E ended \in SUBSET busy[s], gone \in SUBSET Waiting(s),
     arrivals \in {<<>>} \union {<<c>> : c \in Ids \ (busy[s] \union Waiting(s))} :
    Advance(s, busy[s] \ ended, SelectSeq(line[s], LAMBDA c : c \notin gone) \o arrivals)

Untouched(s) == busy'[s] = busy[s] /\ line'[s] = line[s]

\* A step of the coordinator may end, cancel and start children of many sessions.
PoolNext ==
  /\ busy' \in [Sessions -> SUBSET Ids] /\ line' \in [Sessions -> Seq(Ids)]
  /\ \A s \in Sessions : Untouched(s) \/ SessionStep(s)

PoolSpec == PoolInit /\ [][PoolNext]_poolVars
=============================================================================
