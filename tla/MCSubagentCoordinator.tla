------------------------ MODULE MCSubagentCoordinator ------------------------
(***************************************************************************)
(* Instances of SubagentCoordinator for TLC: the request sets of the runs   *)
(* and the symmetry of the ids.                                             *)
(***************************************************************************)
EXTENDS SubagentPool, TLC

CONSTANT Spawner  \* the child that sends nested spawns, where a run has them

IdSymmetry == Permutations(Ids)
NestedSymmetry == Permutations(Ids \ {Spawner})

AllRequests(parents, owners, modes, surfaces) ==
  [id : Ids, parent : parents, prompt : Prompts, owner : owners,
   mode : modes, surface : surfaces]

\* Slots and the queue: background spawns of several sessions.
SlotRequests == AllRequests(Roots, {"task"}, {"background"}, {FALSE})

\* Stop, delete and workflow cancels: spawns of a root and of one of its children.
StopRequests ==
  AllRequests(Roots, {"task"} \union Runs, {"background"}, {FALSE})
    \union AllRequests({Spawner}, {"task"}, {"background"}, {FALSE})

\* Delivery: background, budgeted and open-ended callers, and an orchestrator's.
DeliveryRequests ==
  AllRequests(Roots, {"task"}, {"background", "foreground"}, {TRUE})
    \union AllRequests(Roots, {"swarm"}, {"await_to_completion"}, {TRUE})

\* Rejection at the limit: task and workflow spawns of one session.
RejectRequests ==
  AllRequests(Roots, {"task"} \union Runs, {"background"}, {FALSE})

\* Callers with an await budget.
BudgetRequests == AllRequests(Roots, {"task"}, {"foreground"}, {FALSE})
=============================================================================
