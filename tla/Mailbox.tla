------------------------------- MODULE Mailbox -------------------------------
(***************************************************************************)
(* One ordinary mailbox of a team: its queue, the batch that a wait_agent   *)
(* call has been given but has not yet acknowledged, the barrier that keeps *)
(* newer mail behind that batch, and the recipient that comes, goes and is  *)
(* woken meanwhile.  The recipient is either the team's root or one of its  *)
(* children; mailboxes share nothing, so one is enough.                     *)
(*                                                                         *)
(* A message is "message" (steering, pushed into a live session) or         *)
(* "followup" (passive, queued for wait_agent).  Messages are numbered in   *)
(* the order in which the coordinator accepts them.                         *)
(***************************************************************************)
EXTENDS Naturals, Sequences, FiniteSets, SequencesExt

CONSTANTS
  MaxMessages,  \* bound: accepted messages
  Capacity,     \* MAX_MAILBOX_MESSAGES
  BatchLimit    \* MAX_DRAIN_MESSAGES

ASSUME SizesAssumption ==
  /\ MaxMessages \in Nat
  /\ Capacity \in Nat \ {0}
  /\ BatchLimit \in Nat \ {0}

VARIABLES
  mb,       \* the coordinator's tables for this mailbox and its channels
  live,     \* whether the recipient's session takes a pushed message
  handed,   \* what has reached the recipient's conversation or its wake prompt
  accepted, \* history: how many messages were accepted
  offered,  \* history: messages that were in some batch
  cleared,  \* history: messages that a session teardown threw away
  torn      \* whether the one session teardown of a behaviour has happened

vars == <<mb, live, handed, accepted, offered, cleared, torn>>

Kinds == {"message", "followup"}
Message == [id : 1..MaxMessages, kind : Kinds]
Generations == 1..3  \* enough to tell outstanding batches apart: see Fresh

Waiter == [there : BOOLEAN, closed : BOOLEAN, late : BOOLEAN]
NoWaiter == [there |-> FALSE, closed |-> FALSE, late |-> FALSE]
NoReservation == [generation |-> 0, messages |-> <<>>]
Batch == [generation : Generations, messages : Seq(Message)]

Phases == {"root", "queued", "pending", "active", "completed"}
Admissions == {"start", "queue", "refuse"}

Settlement == [generation : Generations, committed : BOOLEAN]
Tables == [phase : Phases, box : Seq(Message), waiter : Waiter,
           reservation : {NoReservation} \union Batch, barrier : BOOLEAN,
           receipts : SUBSET Batch, settlements : Seq(Settlement), refused : BOOLEAN]

TypeOK ==
  /\ mb \in Tables
  /\ live \in BOOLEAN /\ torn \in BOOLEAN
  /\ handed \in Seq(Message)
  /\ accepted \in 0..MaxMessages
  /\ offered \subseteq Message /\ cleared \subseteq Message

\* A root is there from the start and may be reachable or not; a child is pending.
Init ==
  /\ mb \in [phase : {"root", "pending"}, box : {<<>>}, waiter : {NoWaiter},
             reservation : {NoReservation}, barrier : {FALSE}, receipts : {{}},
             settlements : {<<>>}, refused : {FALSE}]
  /\ live \in IF mb.phase = "root" THEN BOOLEAN ELSE {FALSE}
  /\ handed = <<>> /\ accepted = 0 /\ offered = {} /\ cleared = {} /\ torn = FALSE

-----------------------------------------------------------------------------
(* The helpers of the handlers, each from tables to tables.                 *)

Mail(m) == ToSet(m.box)
Handed == ToSet(handed)

Enqueue(m, x) == [m EXCEPT !.box = Append(@, x)]
Full == Len(mb.box) >= Capacity

\* A new batch's generation is a fresh UUID: told apart from every batch that is
\* reserved, held by a reader or on its way back.
Fresh(m) ==
  CHOOSE g \in Generations :
    /\ \A b \in m.receipts : b.generation # g
    /\ \A i \in DOMAIN m.settlements : m.settlements[i].generation # g
    /\ m.reservation.generation # g

\* The front of the mailbox is reserved and offered with a receipt; when nobody
\* listens any more the undelivered answer drops the receipt on the spot.
DeliverBatch(m, closed) ==
  LET b == [generation |-> Fresh(m),
            messages |-> SubSeq(m.box, 1, IF Len(m.box) < BatchLimit THEN Len(m.box) ELSE BatchLimit)]
      out == [m EXCEPT !.reservation = b, !.barrier = TRUE]
  IN  IF closed
      THEN [out EXCEPT !.settlements = Append(@, [generation |-> b.generation, committed |-> FALSE])]
      ELSE [out EXCEPT !.receipts = @ \union {b}]

\* A waiter past its deadline is answered with nothing, any other takes a batch.
ServiceWaiter(m) ==
  IF m.reservation # NoReservation \/ m.box = <<>> \/ m.waiter = NoWaiter THEN m
  ELSE LET released == [m EXCEPT !.waiter = NoWaiter]
       IN  IF m.waiter.late THEN released ELSE DeliverBatch(released, m.waiter.closed)

\* What the admission of a wake does to the finished child.
WakeChild(m, admission) ==
  CASE admission = "start"  -> [m EXCEPT !.phase = "pending"]
    [] admission = "queue"  -> [m EXCEPT !.phase = "queued"]
    [] admission = "refuse" -> [m EXCEPT !.refused = TRUE]

\* A finished child with steering mail and no batch out is woken with a bare nudge.
WakeForMail(m, admission) ==
  IF /\ m.reservation = NoReservation
     /\ m.phase = "completed"
     /\ \E x \in Mail(m) : x.kind = "message"
  THEN WakeChild(m, admission)
  ELSE m

\* Batches handed out by this step join the offered ones.
Offers == offered' = offered \union ToSet(mb'.reservation.messages)

\* The actor takes settlements before commands, timers and the ends of runs.
Idle == mb.settlements = <<>>

-----------------------------------------------------------------------------
(* Sending                                                                  *)

NextMessage(kind) == [id |-> accepted + 1, kind |-> kind]

\* Mutant of BehindBarrier: only mail of a batch that is still out holds others back.
BehindReservationOnly == mb.reservation # NoReservation

\* Mail that newer mail must stay behind: a batch was out and mail is left, or the
\* recipient has finished and has mail.
BehindBarrier == mb.barrier \/ (mb.phase = "completed" /\ mb.box # <<>>)

\* The waiter whose caller has gone is forgotten before a send looks for one.
Attended == IF mb.waiter.closed
            THEN [mb EXCEPT !.waiter = NoWaiter] ELSE mb

\* A queued wake is in none of the tables that a target is looked up in.
CanAddress == Idle /\ accepted < MaxMessages /\ mb.phase # "queued"

Accept == accepted' = accepted + 1 /\ UNCHANGED <<live, cleared, torn>>

SendBehindBarrier(kind, admission) ==
  /\ CanAddress /\ BehindBarrier /\ ~Full
  /\ mb' = WakeForMail(ServiceWaiter(Enqueue(mb, NextMessage(kind))), admission)
  /\ Accept /\ Offers
  /\ UNCHANGED handed

\* The message itself is the prompt of the woken child.
SendAsWake(kind, admission) ==
  /\ CanAddress /\ ~BehindBarrier /\ mb.phase = "completed" /\ admission # "refuse"
  /\ mb' = WakeChild(mb, admission)
  /\ handed' = Append(handed, NextMessage(kind))
  /\ Accept
  /\ UNCHANGED offered

SendToWaiter(kind) ==
  /\ CanAddress /\ ~BehindBarrier /\ mb.phase # "completed"
  /\ Attended.waiter # NoWaiter \/ Attended.reservation # NoReservation
  /\ ~Full
  /\ mb' = ServiceWaiter(Enqueue(Attended, NextMessage(kind)))
  /\ Accept /\ Offers
  /\ UNCHANGED handed

\* No reader is there: what steers is pushed into the session.
Unattended ==
  /\ CanAddress /\ ~BehindBarrier /\ mb.phase # "completed"
  /\ Attended.waiter = NoWaiter /\ Attended.reservation = NoReservation

SendLive(kind) ==
  /\ Unattended /\ kind = "message" /\ mb.phase \in {"root", "active"} /\ live
  /\ mb' = Attended
  /\ handed' = Append(handed, NextMessage(kind))
  /\ Accept
  /\ UNCHANGED offered

\* What cannot be pushed waits for the child to start or for the root to ask; what
\* is passive always waits.
SendQueued(kind) ==
  /\ Unattended /\ ~Full
  /\ \/ kind = "followup"
     \/ mb.phase = "pending"
     \/ mb.phase = "root" /\ ~live
  /\ mb' = Enqueue(Attended, NextMessage(kind))
  /\ Accept
  /\ UNCHANGED <<handed, offered>>

\* A running child whose session takes nothing, or a full mailbox: the sender is told,
\* and at most the waiter without a caller is gone.
SendRefused(kind) ==
  /\ CanAddress /\ ~BehindBarrier /\ mb.phase # "completed"
  /\ \/ Full
     \/ kind = "message" /\ mb.phase = "active" /\ ~live
  /\ mb' = Attended
  /\ UNCHANGED <<live, handed, accepted, offered, cleared, torn>>

-----------------------------------------------------------------------------
(* Waiting, and what readers do with a batch                                *)

\* A call that is handled when its child no longer runs comes from a turn that is over.
MayWait(closed) == Idle /\ (mb.phase \in {"root", "active"} \/ closed)

WaitBatch(closed) ==
  /\ MayWait(closed) /\ mb.reservation = NoReservation /\ mb.box # <<>>
  /\ mb' = DeliverBatch(mb, closed)
  /\ Offers
  /\ UNCHANGED <<live, handed, accepted, cleared, torn>>

\* A later call replaces the waiter there is, which is answered with nothing.
WaitBlocks(closed) ==
  /\ MayWait(closed)
  /\ mb.reservation # NoReservation \/ mb.box = <<>>
  /\ mb' = [mb EXCEPT !.waiter = [there |-> TRUE, closed |-> closed, late |-> FALSE]]
  /\ UNCHANGED <<live, handed, accepted, offered, cleared, torn>>

CallerLeaves ==
  /\ mb.waiter # NoWaiter /\ ~mb.waiter.closed
  /\ mb' = [mb EXCEPT !.waiter.closed = TRUE]
  /\ UNCHANGED <<live, handed, accepted, offered, cleared, torn>>

DeadlinePasses ==
  /\ mb.waiter # NoWaiter /\ ~mb.waiter.late
  /\ mb' = [mb EXCEPT !.waiter.late = TRUE]
  /\ UNCHANGED <<live, handed, accepted, offered, cleared, torn>>

ExpireWaiter ==
  /\ Idle /\ mb.waiter.late
  /\ mb' = [mb EXCEPT !.waiter = NoWaiter]
  /\ UNCHANGED <<live, handed, accepted, offered, cleared, torn>>

Return(b, committed) ==
  mb' = [mb EXCEPT !.receipts = @ \ {b},
                   !.settlements = Append(@, [generation |-> b.generation, committed |-> committed])]

\* The tool result with the whole batch enters the conversation, then the receipt
\* is committed.
CommitBatch(b) ==
  /\ Return(b, TRUE)
  /\ handed' = handed \o b.messages
  /\ UNCHANGED <<live, accepted, offered, cleared, torn>>

\* A cancelled turn, a replaced tool output or a closed chat: nothing was shown.
DropBatch(b) ==
  /\ Return(b, FALSE)
  /\ UNCHANGED <<live, handed, accepted, offered, cleared, torn>>

\* The elements of s that are in S, in their order: the j-th of them is the one with j
\* kept positions up to its own.  (SelectSeq, in a form that can be reasoned about.)
Keep(s, S) ==
  LET kept == {i \in DOMAIN s : s[i] \in S}
  IN  [j \in 1..Cardinality(kept) |->
         s[CHOOSE i \in kept : Cardinality({k \in kept : k <= i}) = j]]

Without(box, messages) == Keep(box, ToSet(box) \ ToSet(messages))

\* Mutant of Settled: the generation is not compared.
SettledAnyGeneration(m, s) ==
  IF m.reservation = NoReservation THEN m
  ELSE LET kept == IF s.committed THEN Without(m.box, m.reservation.messages) ELSE m.box
       IN  [m EXCEPT !.reservation = NoReservation, !.box = kept, !.barrier = kept # <<>>]

\* A settlement of the current batch; any other is of a torn down mailbox.
Settled(m, s) ==
  IF m.reservation.generation # s.generation THEN m
  ELSE LET kept == IF s.committed THEN Without(m.box, m.reservation.messages) ELSE m.box
       IN  [m EXCEPT !.reservation = NoReservation, !.box = kept, !.barrier = kept # <<>>]

\* Mutant of AfterSettlement: nobody looks whether the recipient has finished.
AfterSettlementWithoutWake(m, admission) == ServiceWaiter(m)

AfterSettlement(m, admission) == WakeForMail(ServiceWaiter(m), admission)

IsCurrent(s) == mb.reservation.generation = s.generation

SettleMailbox(admission) ==
  /\ mb.settlements # <<>>
  /\ LET s == Head(mb.settlements)
         rest == [mb EXCEPT !.settlements = Tail(@)]
     IN  mb' = IF IsCurrent(s) THEN AfterSettlement(Settled(rest, s), admission)
                               ELSE Settled(rest, s)
  /\ Offers
  /\ UNCHANGED <<live, handed, accepted, cleared, torn>>

-----------------------------------------------------------------------------
(* The recipient                                                            *)

Steering(box) == Keep(box, {x \in ToSet(box) : x.kind = "message"})

\* The child's session exists: without a barrier its steering mail is pushed into it
\* in order until the session takes no more, and the rest stays.
Started ==
  /\ mb.phase = "pending"
  /\ \E takes \in BOOLEAN, n \in 0..Len(mb.box) :
       LET steering == Steering(mb.box)
           pushed == SubSeq(steering, 1, n)
       IN  /\ n <= (IF mb.barrier THEN 0 ELSE Len(steering))
           /\ takes => mb.barrier \/ n = Len(steering)
           /\ live' = takes
           /\ mb' = [mb EXCEPT !.phase = "active", !.box = Without(@, pushed)]
           /\ handed' = handed \o pushed
  /\ UNCHANGED <<accepted, offered, cleared, torn>>

\* A queued wake gets its slot.
StartQueued ==
  /\ mb.phase = "queued"
  /\ mb' = [mb EXCEPT !.phase = "pending"]
  /\ UNCHANGED <<live, handed, accepted, offered, cleared, torn>>

\* The run ends, or the child is cancelled before it starts; no mail is looked at.
FinishChild ==
  /\ mb.phase \in {"queued", "pending", "active"}
  /\ mb.phase = "active" => Idle
  /\ mb' = [mb EXCEPT !.phase = "completed"]
  /\ live' = FALSE
  /\ UNCHANGED <<handed, accepted, offered, cleared, torn>>

\* A child's session closes once and for all, a root's is loaded and unloaded.
SessionCloses ==
  /\ mb.phase \in {"root", "active"} /\ live
  /\ live' = FALSE
  /\ UNCHANGED <<mb, handed, accepted, offered, cleared, torn>>

RootLoads ==
  /\ mb.phase = "root" /\ ~live
  /\ live' = TRUE
  /\ UNCHANGED <<mb, handed, accepted, offered, cleared, torn>>

\* Receipts that are out stay out; their settlements find no reservation.
TeardownSession ==
  /\ Idle /\ ~torn
  /\ mb' = [mb EXCEPT !.box = <<>>, !.reservation = NoReservation, !.barrier = FALSE,
                      !.waiter = NoWaiter]
  /\ cleared' = cleared \union (Mail(mb) \ Handed)
  /\ torn' = TRUE
  /\ UNCHANGED <<live, handed, accepted, offered>>

-----------------------------------------------------------------------------
Send ==
  \E kind \in Kinds :
    \/ \E admission \in Admissions :
         SendBehindBarrier(kind, admission) \/ SendAsWake(kind, admission)
    \/ SendToWaiter(kind)
    \/ SendLive(kind)
    \/ SendQueued(kind)
    \/ SendRefused(kind)

Wait ==
  \/ \E closed \in BOOLEAN : WaitBatch(closed) \/ WaitBlocks(closed)
  \/ CallerLeaves
  \/ DeadlinePasses
  \/ ExpireWaiter

Read == \E b \in mb.receipts : CommitBatch(b) \/ DropBatch(b)

Settle == \E admission \in Admissions : SettleMailbox(admission)

Recipient ==
  Started \/ StartQueued \/ FinishChild \/ SessionCloses \/ RootLoads \/ TeardownSession

Next == Send \/ Wait \/ Read \/ Settle \/ Recipient

Spec == Init /\ [][Next]_vars

\* The actor keeps taking settlements and a reader in the end commits or drops what it
\* holds: a receipt cannot be kept, its destructor settles it.  Nothing is assumed of
\* senders, of waits or of the recipient.
MailSpec == Spec /\ WF_vars(Settle) /\ WF_vars(Read)

-----------------------------------------------------------------------------
(* Properties                                                               *)

\* A batch that was shown and whose committed receipt has not been handled yet.
Acknowledged(m, x) ==
  /\ x \in ToSet(m.reservation.messages)
  /\ \E i \in DOMAIN m.settlements :
       /\ m.settlements[i].committed
       /\ m.settlements[i].generation = m.reservation.generation

\* No mail is lost or shown twice: every message that send_agent_message accepted is
\* in the mailbox until it is in the recipient's conversation, exactly once, and only
\* the teardown of its session may throw it away; a message that was shown is still in
\* the mailbox only while the committed receipt of its batch is on its way back.
MailConserved ==
  \A i \in 1..accepted :
    LET inBox == {k \in DOMAIN mb.box : mb.box[k].id = i}
        shown == {k \in DOMAIN handed : handed[k].id = i}
    IN  /\ Cardinality(shown) <= 1 /\ Cardinality(inBox) <= 1
        /\ shown = {} /\ inBox = {} => \E x \in cleared : x.id = i
        /\ shown # {} => \A k \in inBox : Acknowledged(mb, mb.box[k])

MailSafety == TypeOK /\ MailConserved

\* Newer mail never passes a batch that was offered and not yet read, even when the
\* batch was dropped, the recipient finished or was woken meanwhile, and follow-ups
\* are read in the order of their acceptance: a message may reach the recipient ahead
\* of an older one only as a steering message, and only past mail that no wait_agent
\* call was ever offered.
MailInOrder ==
  [][\A x \in ToSet(handed') \ Handed :
       \A o \in Mail(mb') \ ToSet(handed') :
         o.id < x.id => x.kind = "message" /\ o \notin offered]_vars

Unread == \E x \in Mail(mb) : x.kind = "message"

\* A child that finishes while a batch is out is woken for its steering mail: as long
\* as admission refuses no wake, steering mail in a mailbox with an unsettled batch
\* and a finished recipient is read, or the recipient is started again.
MailWakesFinished ==
  [](~mb.refused) =>
    ((mb.phase = "completed" /\ mb.reservation # NoReservation /\ Unread)
       ~> (mb.phase # "completed" \/ ~Unread))
=============================================================================
