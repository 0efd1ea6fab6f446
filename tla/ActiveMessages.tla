---------------------------- MODULE ActiveMessages ----------------------------
(***************************************************************************)
(* Messages that a parent sends to a running child (xai-grok-tools,         *)
(* task/active_message.rs and task/coordinator/active_message.rs) and the   *)
(* drain of those messages before the child may finish.                     *)
(*                                                                          *)
(* Three parties race. The sender holds a permit and waits for one answer.  *)
(* The child's session (the host) takes the message into its input queue on *)
(* its own thread. The coordinator polls the host's answer, the child's     *)
(* cancellation and a deadline, and must tell the sender the truth. They    *)
(* meet in the lease, an atomic cell: Open, Claimed (the host is inserting),*)
(* Committed, Revoked.                                                      *)
(*                                                                          *)
(* A child here is one subagent id with its incarnations: a finished child  *)
(* that is sent a message may be woken and goes live again under a new      *)
(* generation. Where it stands in between (queued, pending, completed) is   *)
(* SubagentCoordinator's matter: "starting" and "down" stand for it.        *)
(***************************************************************************)
EXTENDS Naturals, FiniteSets

CONSTANTS
  Children,          \* subagent ids
  Messages,          \* the messages that are sent, each once
  Strangers,         \* those whose sender is not the child's parent
  WorkflowChildren,  \* children owned by a workflow run
  MaxPerChild,       \* MAX_ACTIVE_MESSAGE_ADMISSIONS_PER_CHILD
  Capacity,          \* permits of the sender, as configured
  SupportsWake       \* ChildRunner::supports_wake

VARIABLES
  alive,      \* the coordinator's task has not been dropped
  state,      \* of each child: "starting", "active", "down"
  gen,        \* how often it has gone live
  cancelled,  \* is its token cancelled?
  lifecycle,  \* ActiveMessageLifecycle: "open" or "finalizing"
  inFlight,   \* its in_flight
  clean,      \* its TerminalDrainDisposition is Clean
  finalWait,  \* the runner waits for the drain
  told,       \* what finalizing() told the runner of this generation
  parked,     \* the run's output waits in terminal_outputs
  result,     \* how the last live generation was finished
  stage,      \* of each message: "idle", "ingress", "inflight", "done"
  target,     \* the child it is for
  mgen,       \* the generation it was admitted to
  lease,      \* its ActiveMessageAdmissionLease; "none" before admission
  host,       \* where the host is with it, then its ActiveMessageAdmission
  inserted,   \* it is in the child's input queue
  outcome     \* the sender's answer

childVars == <<state, gen, cancelled, lifecycle, inFlight, clean, finalWait, told,
               parked, result>>
messageVars == <<stage, target, mgen, lease, host, inserted, outcome>>
vars == <<alive, childVars, messageVars>>

Leases == {"none", "Open", "Claimed", "Committed", "Revoked"}

\* ActiveMessageAdmission, the host's answers.
Admissions == {"Admitted", "Unsupported", "ChannelClosed", "Rejected"}
Hosts == {"none", "queued", "working"} \union Admissions

\* ActiveAgentMessageOutcome: the answers that say the message was not taken.
Refusals == {"NotFoundOrNotOwned", "NotActiveOrFinalizing", "Saturated",
             "NotAcceptedBeforeDeadline", "Unsupported", "ChannelClosed"}
Outcomes == {"none", "Accepted", "AdmissionUncertain"} \union Refusals
Verdicts == {"none", "clean", "unclean"}

ASSUME MessagesAssumption == IsFiniteSet(Messages)
ASSUME BoundsAssumption == MaxPerChild \in Nat /\ Capacity \in Nat
ASSUME WakeAssumption == SupportsWake \in BOOLEAN

TypeOK ==
  /\ alive \in BOOLEAN
  /\ state \in [Children -> {"starting", "active", "down"}]
  /\ gen \in [Children -> Nat]
  /\ cancelled \in [Children -> BOOLEAN]
  /\ lifecycle \in [Children -> {"open", "finalizing"}]
  /\ inFlight \in [Children -> Nat]
  /\ clean \in [Children -> BOOLEAN]
  /\ finalWait \in [Children -> BOOLEAN]
  /\ told \in [Children -> Verdicts]
  /\ parked \in [Children -> BOOLEAN]
  /\ result \in [Children -> Verdicts]
  /\ stage \in [Messages -> {"idle", "ingress", "inflight", "done"}]
  /\ target \in [Messages -> Children]
  /\ mgen \in [Messages -> Nat]
  /\ lease \in [Messages -> Leases]
  /\ host \in [Messages -> Hosts]
  /\ inserted \in [Messages -> BOOLEAN]
  /\ outcome \in [Messages -> Outcomes]

Init ==
  /\ alive = TRUE
  /\ state = [c \in Children |-> "starting"]
  /\ gen = [c \in Children |-> 0]
  /\ cancelled = [c \in Children |-> FALSE]
  /\ lifecycle = [c \in Children |-> "open"]
  /\ inFlight = [c \in Children |-> 0]
  /\ clean = [c \in Children |-> TRUE]
  /\ finalWait = [c \in Children |-> FALSE]
  /\ told = [c \in Children |-> "none"]
  /\ parked = [c \in Children |-> FALSE]
  /\ result = [c \in Children |-> "none"]
  /\ stage = [m \in Messages |-> "idle"]
  /\ target \in [Messages -> Children]
  /\ mgen = [m \in Messages |-> 0]
  /\ lease = [m \in Messages |-> "none"]
  /\ host = [m \in Messages |-> "none"]
  /\ inserted = [m \in Messages |-> FALSE]
  /\ outcome = [m \in Messages |-> "none"]

Verdict(isClean) == IF isClean THEN "clean" ELSE "unclean"

(***************************************************************************)
(* The sender                                                              *)
(***************************************************************************)

\* The sender's semaphore has at least one permit.
Permits == IF Capacity = 0 THEN 1 ELSE Capacity
PermitsHeld == {m \in Messages : stage[m] \in {"ingress", "inflight"}}

Answer(m, answer) ==
  /\ stage' = [stage EXCEPT ![m] = "done"]
  /\ outcome' = [outcome EXCEPT ![m] = answer]

\* enqueue_active_message: a permit and a place in the ingress channel, or an
\* answer at once when there is no permit or no coordinator.
Send(m) ==
  /\ stage[m] = "idle"
  /\ IF Cardinality(PermitsHeld) >= Permits THEN Answer(m, "Saturated")
     ELSE IF ~alive THEN Answer(m, "ChannelClosed")
     ELSE stage' = [stage EXCEPT ![m] = "ingress"] /\ UNCHANGED outcome
  /\ UNCHANGED <<alive, childVars, target, mgen, lease, host, inserted>>

(***************************************************************************)
(* The coordinator: handle_send_active_message                             *)
(***************************************************************************)

\* Mutant of AdmissionOpen: a finalizing child admits messages.
AdmissionIgnoresFinalizing(c) == inFlight[c] < MaxPerChild

\* begin_admission starts one.
AdmissionOpen(c) == lifecycle[c] = "open" /\ inFlight[c] < MaxPerChild

\* The child is live and the sender's, and is neither a workflow's nor cancelled.
Reachable(m) ==
  LET c == target[m]
  IN  /\ state[c] = "active" /\ m \notin Strangers
      /\ c \notin WorkflowChildren /\ ~cancelled[c]

\* The message is handed to the host under a fresh lease.
ReceiveAdmit(m) ==
  LET c == target[m]
  IN  /\ alive /\ stage[m] = "ingress"
      /\ Reachable(m) /\ AdmissionOpen(c)
      /\ inFlight' = [inFlight EXCEPT ![c] = @ + 1]
      /\ stage' = [stage EXCEPT ![m] = "inflight"]
      /\ mgen' = [mgen EXCEPT ![m] = gen[c]]
      /\ lease' = [lease EXCEPT ![m] = "Open"]
      /\ host' = [host EXCEPT ![m] = "queued"]
      /\ UNCHANGED <<alive, state, gen, cancelled, lifecycle, clean, finalWait, told,
                     parked, result, target, inserted, outcome>>

\* The answer to a message that is neither admitted nor wakes the child.
RefusalOf(m) ==
  LET c == target[m]
  IN  IF m \in Strangers THEN "NotFoundOrNotOwned"
      ELSE IF Reachable(m) /\ lifecycle[c] = "open" THEN "Saturated"
      ELSE "NotActiveOrFinalizing"

\* A message to a live child that does not admit it, to a child on its way, or to
\* a finished one that is not woken (no support, a workflow's, admission closed, no
\* slot).
ReceiveRefuse(m) ==
  /\ alive /\ stage[m] = "ingress"
  /\ ~(Reachable(m) /\ AdmissionOpen(target[m]))
  /\ Answer(m, RefusalOf(m))
  /\ UNCHANGED <<alive, childVars, target, mgen, lease, host, inserted>>

\* wake_completed_child: the message is the prompt of a new incarnation.
ReceiveWake(m) ==
  LET c == target[m]
  IN  /\ alive /\ stage[m] = "ingress"
      /\ SupportsWake /\ state[c] = "down" /\ m \notin Strangers
      /\ c \notin WorkflowChildren
      /\ state' = [state EXCEPT ![c] = "starting"]
      /\ cancelled' = [cancelled EXCEPT ![c] = FALSE]
      /\ Answer(m, "Accepted")
      /\ UNCHANGED <<alive, gen, lifecycle, inFlight, clean, finalWait, told, parked,
                     result, target, mgen, lease, host, inserted>>

(***************************************************************************)
(* The host: commit_admission on the child's session thread                *)
(***************************************************************************)

\* Mutant of HostClaim: a plain store instead of the compare-exchange.
HostClaimsBlindly(m) ==
  /\ host[m] = "queued"
  /\ lease' = [lease EXCEPT ![m] = "Claimed"]
  /\ host' = [host EXCEPT ![m] = "working"]
  /\ UNCHANGED <<alive, childVars, stage, target, mgen, inserted, outcome>>

\* The compare-exchange of Open to Claimed; a host that loses it rejects.
HostClaim(m) ==
  /\ host[m] = "queued"
  /\ IF lease[m] = "Open"
     THEN /\ lease' = [lease EXCEPT ![m] = "Claimed"]
          /\ host' = [host EXCEPT ![m] = "working"]
     ELSE /\ host' = [host EXCEPT ![m] = "Rejected"]
          /\ UNCHANGED lease
  /\ UNCHANGED <<alive, childVars, stage, target, mgen, inserted, outcome>>

HostInsert(m) ==
  /\ host[m] = "working" /\ lease[m] = "Claimed" /\ ~inserted[m]
  /\ inserted' = [inserted EXCEPT ![m] = TRUE]
  /\ UNCHANGED <<alive, childVars, stage, target, mgen, lease, host, outcome>>

HostCommit(m) ==
  /\ host[m] = "working" /\ lease[m] = "Claimed" /\ inserted[m]
  /\ lease' = [lease EXCEPT ![m] = "Committed"]
  /\ UNCHANGED <<alive, childVars, stage, target, mgen, host, inserted, outcome>>

HostAdmitted(m) ==
  /\ host[m] = "working" /\ lease[m] = "Committed"
  /\ host' = [host EXCEPT ![m] = "Admitted"]
  /\ UNCHANGED <<alive, childVars, stage, target, mgen, lease, inserted, outcome>>

\* A runtime without parent messages, or a host that goes away with the message,
\* before it has answered.
HostGivesUp(m, admission) ==
  /\ \/ admission = "Unsupported" /\ host[m] = "queued"
     \/ admission = "ChannelClosed" /\ host[m] \in {"queued", "working"}
  /\ host' = [host EXCEPT ![m] = admission]
  /\ UNCHANGED <<alive, childVars, stage, target, mgen, lease, inserted, outcome>>

(***************************************************************************)
(* The coordinator: the end of an admission                                *)
(***************************************************************************)

\* Mutant of Completions: no deadline bounds the host.
CompletionsWithoutDeadline(m) ==
  IF host[m] \in Admissions THEN {host[m]}
  ELSE IF cancelled[target[m]] THEN {"Cancelled"} ELSE {}

\* How an admission in flight may end now: the host's answer is looked at first,
\* then the child's token; the deadline may elapse at any time.
Completions(m) ==
  IF host[m] \in Admissions THEN {host[m]}
  ELSE IF cancelled[target[m]] THEN {"Cancelled"} ELSE {"DeadlineElapsed"}

\* Mutant of Settles: a host that is still inserting counts as settled.
SettlesWhileClaimed(m, how) ==
  lease[m] \in (IF how = "Admitted" THEN {"Committed"} ELSE {"Open", "Claimed", "Revoked"})

\* Mutant of Settles: only an earlier revocation settles a refusal.
SettlesOnlyRevoked(m, how) ==
  lease[m] \in (IF how = "Admitted" THEN {"Committed"} ELSE {"Revoked"})

\* settle and revoke: an acceptance is settled by a committed lease, any other end
\* by one that is revoked, or open and so revoked here.
Settles(m, how) ==
  lease[m] \in (IF how = "Admitted" THEN {"Committed"} ELSE {"Open", "Revoked"})

\* protocol_outcome_from_completion
ProtocolOutcome(how, settled) ==
  IF ~settled THEN "AdmissionUncertain"
  ELSE IF how = "Admitted" THEN "Accepted"
  ELSE IF how \in {"Unsupported", "ChannelClosed"} THEN how
  ELSE IF how = "Rejected" THEN "NotActiveOrFinalizing"
  ELSE "NotAcceptedBeforeDeadline"

\* lost_completion_outcome, for a child that is no longer there.
LostOutcome(how, settled) ==
  IF how = "Admitted" THEN "AdmissionUncertain" ELSE ProtocolOutcome(how, settled)

\* Mutant of Recorded: the last completion decides.
RecordedLastOnly(c, settled) == IF settled THEN TRUE ELSE FALSE

\* TerminalDrainDisposition::record: one unsettled admission is never forgotten.
Recorded(c, settled) == IF settled THEN clean[c] ELSE FALSE

\* Mutant of Unparks: the drain's end does not look for a parked output.
NeverUnparks(c) == FALSE

\* The drained child's output waits, so the child finishes with it.
Unparks(c) == parked[c]

\* finish_terminalized_child and the part of finish_child that concerns messages:
\* an unclean drain cancels the child, whose result is then a cancelled one.
Finish(c, isClean) ==
  /\ state' = [state EXCEPT ![c] = "down"]
  /\ parked' = [parked EXCEPT ![c] = FALSE]
  /\ result' = [result EXCEPT ![c] = Verdict(isClean)]
  /\ cancelled' = [cancelled EXCEPT ![c] = IF isClean THEN @ ELSE TRUE]

\* The child's generation that admitted the message is live.
Current(m) == state[target[m]] = "active" /\ mgen[m] = gen[target[m]]

\* The message is the last one in flight of a child that is finalizing.
EndsDrain(m) ==
  Current(m) /\ lifecycle[target[m]] = "finalizing" /\ inFlight[target[m]] = 1

\* finish_active_message: the answer, then the count, then whoever waits for the drain.
CompleteAs(m, how) ==
  LET c == target[m]
      settled == Settles(m, how)
      isClean == Recorded(c, settled)
  IN  /\ lease' = [lease EXCEPT ![m] =
                     IF how # "Admitted" /\ @ = "Open" THEN "Revoked" ELSE @]
      /\ Answer(m, IF Current(m) THEN ProtocolOutcome(how, settled)
                                 ELSE LostOutcome(how, settled))
      /\ inFlight' = IF Current(m) THEN [inFlight EXCEPT ![c] = @ - 1] ELSE inFlight
      /\ clean' = IF Current(m) THEN [clean EXCEPT ![c] = isClean] ELSE clean
      /\ IF EndsDrain(m) /\ finalWait[c]
         THEN /\ told' = [told EXCEPT ![c] = Verdict(isClean)]
              /\ finalWait' = [finalWait EXCEPT ![c] = FALSE]
         ELSE UNCHANGED <<told, finalWait>>
      /\ IF EndsDrain(m) /\ Unparks(c) THEN Finish(c, isClean)
         ELSE UNCHANGED <<state, parked, result, cancelled>>
      /\ UNCHANGED <<alive, gen, lifecycle, target, mgen, host, inserted>>

\* The ActiveMessageFuture is ready.
Complete(m) ==
  /\ alive /\ stage[m] = "inflight"
  /\ \E how \in Completions(m) : CompleteAs(m, how)

(***************************************************************************)
(* The coordinator: the child's life                                       *)
(***************************************************************************)

GoLive(c) ==
  /\ state' = [state EXCEPT ![c] = "active"]
  /\ gen' = [gen EXCEPT ![c] = @ + 1]
  /\ lifecycle' = [lifecycle EXCEPT ![c] = "open"]
  /\ inFlight' = [inFlight EXCEPT ![c] = 0]
  /\ told' = [told EXCEPT ![c] = "none"]
  /\ result' = [result EXCEPT ![c] = "none"]
  /\ UNCHANGED <<alive, cancelled, finalWait, parked, messageVars>>

\* Mutant of Started: the new incarnation keeps the disposition of the old one.
StartedKeepingDisposition(c) ==
  /\ alive /\ state[c] = "starting" /\ ~cancelled[c]
  /\ GoLive(c)
  /\ UNCHANGED clean

\* InternalEvent::Started: a new generation with a fresh lifecycle, unless the
\* child was cancelled on its way.
Started(c) ==
  /\ alive /\ state[c] = "starting" /\ ~cancelled[c]
  /\ GoLive(c)
  /\ clean' = [clean EXCEPT ![c] = TRUE]

\* InternalEvent::Finalizing: the runner, out of prompts, closes admission and waits
\* for the drain.
Finalizing(c) ==
  /\ alive /\ state[c] = "active" /\ ~parked[c] /\ ~finalWait[c] /\ told[c] = "none"
  /\ lifecycle' = [lifecycle EXCEPT ![c] = "finalizing"]
  /\ IF inFlight[c] = 0
     THEN told' = [told EXCEPT ![c] = Verdict(clean[c])] /\ UNCHANGED finalWait
     ELSE finalWait' = [finalWait EXCEPT ![c] = TRUE] /\ UNCHANGED told
  /\ UNCHANGED <<alive, state, gen, cancelled, inFlight, clean, parked, result,
                 messageVars>>

\* The runner's ACTIVE_MESSAGE_FINALIZATION_TIMEOUT.
FinalizingTimeout(c) ==
  /\ finalWait[c]
  /\ finalWait' = [finalWait EXCEPT ![c] = FALSE]
  /\ told' = [told EXCEPT ![c] = "unclean"]
  /\ UNCHANGED <<alive, state, gen, cancelled, lifecycle, inFlight, clean, parked, result,
                 messageVars>>

\* start_terminalizing answers at once.
Drained(c) == inFlight[c] = 0

\* begin_terminalization: the run's end closes admission; the child finishes now or,
\* with admissions in flight, its output is parked. A runner that was waiting for
\* the drain is gone.
RunEnded(c) ==
  /\ alive /\ state[c] = "active" /\ ~parked[c]
  /\ lifecycle' = [lifecycle EXCEPT ![c] = "finalizing"]
  /\ finalWait' = [finalWait EXCEPT ![c] = FALSE]
  /\ IF Drained(c) THEN Finish(c, clean[c])
     ELSE /\ parked' = [parked EXCEPT ![c] = TRUE]
          /\ UNCHANGED <<state, result, cancelled>>
  /\ UNCHANGED <<alive, gen, inFlight, clean, told, messageVars>>

\* A run that never went live ends, or a queued spawn is dropped.
StartFailed(c) ==
  /\ alive /\ state[c] = "starting"
  /\ state' = [state EXCEPT ![c] = "down"]
  /\ UNCHANGED <<alive, gen, cancelled, lifecycle, inFlight, clean, finalWait, told,
                 parked, result, messageVars>>

\* Every way to cancel a child on its way or live: its token fires.
Cancel(c) ==
  /\ alive /\ state[c] \in {"starting", "active"} /\ ~cancelled[c]
  /\ cancelled' = [cancelled EXCEPT ![c] = TRUE]
  /\ UNCHANGED <<alive, state, gen, lifecycle, inFlight, clean, finalWait, told, parked,
                 result, messageVars>>

\* The coordinator's task is dropped: each future in flight revokes its lease and
\* answers, the messages in the ingress channel lose their reply, the runners that
\* wait are told that the drain is not clean and every child is cancelled.
ActorDrop ==
  /\ alive /\ alive' = FALSE
  /\ cancelled' = [c \in Children |-> cancelled[c] \/ state[c] # "down"]
  /\ told' = [c \in Children |-> IF finalWait[c] THEN "unclean" ELSE told[c]]
  /\ finalWait' = [c \in Children |-> FALSE]
  /\ stage' = [m \in Messages |-> IF m \in PermitsHeld THEN "done" ELSE stage[m]]
  /\ lease' = [m \in Messages |->
                 IF stage[m] = "inflight" /\ lease[m] = "Open" THEN "Revoked" ELSE lease[m]]
  /\ outcome' = [m \in Messages |->
                   IF m \notin PermitsHeld THEN outcome[m]
                   ELSE IF lease[m] \in {"none", "Open", "Revoked"} THEN "ChannelClosed"
                   ELSE "AdmissionUncertain"]
  /\ UNCHANGED <<state, gen, lifecycle, inFlight, clean, parked, result, target, mgen, host,
                 inserted>>

HostStep(m) ==
  \/ HostClaim(m) \/ HostInsert(m) \/ HostCommit(m) \/ HostAdmitted(m)
  \/ \E admission \in {"Unsupported", "ChannelClosed"} : HostGivesUp(m, admission)

Receive(m) == ReceiveAdmit(m) \/ ReceiveRefuse(m) \/ ReceiveWake(m)

ChildStep(c) ==
  \/ Started(c) \/ Finalizing(c) \/ FinalizingTimeout(c) \/ RunEnded(c)
  \/ StartFailed(c) \/ Cancel(c)

Next ==
  \/ \E m \in Messages : Send(m) \/ Receive(m) \/ HostStep(m) \/ Complete(m)
  \/ \E c \in Children : ChildStep(c)
  \/ ActorDrop

Spec == Init /\ [][Next]_vars

\* The coordinator takes what its channels hold and polls what it awaits, whose
\* deadline elapses. The host and the run are not assumed to make progress.
LiveSpec ==
  /\ Spec
  /\ \A m \in Messages : WF_vars(Receive(m)) /\ WF_vars(Complete(m))

(***************************************************************************)
(* Properties                                                              *)
(***************************************************************************)

\* The messages that were handed to the child's present or last generation.
AdmittedTo(c) == {m \in Messages : target[m] = c /\ lease[m] # "none" /\ mgen[m] = gen[c]}

InFlightTo(c) == {m \in Messages : target[m] = c /\ stage[m] = "inflight"}

\* While the coordinator runs, in_flight of a child counts its admissions in flight, of
\* which there are at most MAX_ACTIVE_MESSAGE_ADMISSIONS_PER_CHILD, and each belongs
\* to the live generation: finish_admission cannot find the counter at zero, and no
\* completion reaches a later incarnation of the id.
InFlightCounted ==
  alive => \A c \in Children :
    /\ inFlight[c] = Cardinality(InFlightTo(c)) /\ inFlight[c] <= MaxPerChild
    /\ \A m \in InFlightTo(c) : state[c] = "active" /\ mgen[m] = gen[c]

\* A sender that is told its message was not taken may send it again: the message is
\* not in the child's input queue and the host can no longer put it there. One that
\* is told a live child accepted it finds it there.
DefiniteAnswer ==
  \A m \in Messages :
    /\ outcome[m] \in Refusals => ~inserted[m] /\ lease[m] \in {"none", "Revoked"}
    /\ outcome[m] = "Accepted" /\ lease[m] # "none" => inserted[m]

\* AdmissionUncertain is answered only when the host had claimed the lease.
UncertaintyJustified ==
  \A m \in Messages :
    outcome[m] = "AdmissionUncertain" => lease[m] \in {"Claimed", "Committed"}

\* A clean drain, told to the runner or used to finish the child, means that every
\* message of this generation has a definite answer, whichever were in flight when
\* admission closed.
CleanIsSettled ==
  \A c \in Children : told[c] = "clean" \/ result[c] = "clean" =>
    \A m \in AdmittedTo(c) :
      stage[m] = "done" /\ outcome[m] \in Refusals \union {"Accepted"}

\* A child's result is turned into a cancelled one only for an uncertain message of
\* its own generation.
UncleanJustified ==
  \A c \in Children :
    result[c] = "unclean" => \E m \in AdmittedTo(c) : outcome[m] = "AdmissionUncertain"

\* What the lease says of a message: who has answered it and where the host can be.
LeaseShape ==
  \A m \in Messages :
    /\ stage[m] \in {"idle", "ingress"} => lease[m] = "none" /\ outcome[m] = "none"
    /\ stage[m] = "inflight" => lease[m] # "none" /\ outcome[m] = "none"
    /\ lease[m] = "none" => host[m] = "none" /\ ~inserted[m]
    /\ lease[m] = "Open" => stage[m] = "inflight"
    /\ lease[m] \in {"Open", "Revoked"} => ~inserted[m]
    /\ lease[m] = "Committed" => inserted[m]
    /\ host[m] = "Admitted" => lease[m] = "Committed"
    /\ lease[m] # "none" => mgen[m] <= gen[target[m]]

\* The runner and the output wait for the drain of a live child that is finalizing.
DrainShape ==
  \A c \in Children :
    /\ finalWait[c] => alive /\ ~parked[c] /\ told[c] = "none"
    /\ finalWait[c] \/ parked[c] => state[c] = "active" /\ lifecycle[c] = "finalizing"
    /\ state[c] = "active" => result[c] = "none"
    /\ state[c] = "active" /\ told[c] # "none" => lifecycle[c] = "finalizing"

\* The disposition of a generation is clean as long as no message of it is uncertain.
DispositionTracked ==
  alive => \A c \in Children :
    IF clean[c]
    THEN \A m \in AdmittedTo(c) :
           stage[m] = "done" => outcome[m] \in Refusals \union {"Accepted"}
    ELSE \E m \in AdmittedTo(c) : outcome[m] = "AdmissionUncertain"

\* MessageSafety: the sender, the host, the coordinator and the runner agree on every
\* message at every point of the race, as one inductive invariant.
MessageSafety ==
  /\ TypeOK
  /\ InFlightCounted
  /\ LeaseShape
  /\ DefiniteAnswer
  /\ UncertaintyJustified
  /\ DrainShape
  /\ DispositionTracked
  /\ CleanIsSettled
  /\ UncleanJustified

\* No message enters the input queue of a generation whose runner was told that the
\* drain is clean and stops reading it.
NoInsertAfterClean ==
  \A m \in Messages :
    ~inserted[m] /\ inserted'[m] /\ mgen[m] = gen[target[m]] => told[target[m]] # "clean"

\* FinalIsFinal: in every step, nothing is inserted after a clean drain.
FinalIsFinal == [][NoInsertAfterClean]_vars

\* A sender gets an answer whatever the host does: the deadline bounds it.
AnswerComes ==
  \A m \in Messages : stage[m] \in {"ingress", "inflight"} ~> stage[m] = "done"

\* A drain ends: a waiting runner is told and a parked child finishes, however the
\* host behaves, unless the coordinator is dropped.
DrainEnds ==
  \A c \in Children : alive /\ (finalWait[c] \/ parked[c])
                        ~> ~alive \/ ~(finalWait[c] \/ parked[c])
=============================================================================
