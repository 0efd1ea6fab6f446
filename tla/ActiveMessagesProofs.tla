------------------------- MODULE ActiveMessagesProofs -------------------------
(***************************************************************************)
(* Proof that MessageSafety is an invariant of ActiveMessages, for every    *)
(* number of children and messages and every limit. The inductive invariant *)
(* is MessageSafety itself. The argument: an answer is given once, by the   *)
(* step that takes the message out of flight, and that step reads or        *)
(* revokes the lease; a lease that is committed or claimed is never revoked *)
(* and a revoked one is never claimed, so the answer stays true. A drain    *)
(* ends when in_flight reaches zero; in_flight counts the messages in       *)
(* flight, so none of this generation is left without an answer, and the    *)
(* disposition remembers whether one of the answers was uncertain.          *)
(***************************************************************************)
EXTENDS ActiveMessages, FiniteSetTheorems, TLAPS

(***************************************************************************)
(* The counter of admissions in flight                                     *)
(***************************************************************************)

\* InFlightFinite: the messages in flight of a child are finitely many.
LEMMA InFlightFinite ==
  \A c \in Children : IsFiniteSet(InFlightTo(c)) /\ Cardinality(InFlightTo(c)) \in Nat
BY MessagesAssumption, FS_Subset, FS_CardinalityType DEF InFlightTo

\* InFlightPositive: a message in flight is counted, and is the only one at a count of
\* one.
LEMMA InFlightPositive ==
  ASSUME MessageSafety, alive, NEW m \in Messages, stage[m] = "inflight"
  PROVE  /\ Current(m) /\ inFlight[target[m]] \in Nat \ {0}
         /\ Cardinality(InFlightTo(target[m]) \ {m}) = inFlight[target[m]] - 1
         /\ inFlight[target[m]] = 1 => InFlightTo(target[m]) = {m}
<1> DEFINE c == target[m]
<1>1. c \in Children
  BY DEF MessageSafety, TypeOK
<1>2. m \in InFlightTo(c)
  BY DEF InFlightTo
<1>3. inFlight[c] = Cardinality(InFlightTo(c)) /\ Current(m)
  BY <1>1, <1>2 DEF MessageSafety, InFlightCounted, Current
<1>4. IsFiniteSet(InFlightTo(c)) /\ Cardinality(InFlightTo(c)) \in Nat
  BY <1>1, InFlightFinite
<1>5. IsFiniteSet(InFlightTo(c) \ {m})
      /\ Cardinality(InFlightTo(c) \ {m}) = Cardinality(InFlightTo(c)) - 1
  BY <1>2, <1>4, FS_RemoveElement
<1>6. Cardinality(InFlightTo(c)) # 0
  BY <1>2, <1>4, FS_EmptySet
<1>7. inFlight[c] = 1 => InFlightTo(c) \ {m} = {}
  BY <1>3, <1>5, FS_EmptySet
<1> QED
  BY <1>2, <1>3, <1>4, <1>5, <1>6, <1>7

(***************************************************************************)
(* The end of an admission                                                 *)
(***************************************************************************)

\* The drain of child c ends with this disposition: a waiting runner is told, a parked
\* child finishes.
EndOfDrain(c, isClean) ==
  /\ IF finalWait[c]
     THEN /\ told' = [told EXCEPT ![c] = Verdict(isClean)]
          /\ finalWait' = [finalWait EXCEPT ![c] = FALSE]
     ELSE UNCHANGED <<told, finalWait>>
  /\ IF parked[c] THEN Finish(c, isClean)
     ELSE UNCHANGED <<state, parked, result, cancelled>>

\* What a completion does to the lease and the answer: uncertain with a lease the host
\* has claimed, accepted with a committed one, refused with a revoked one.
Answered(m, answer) ==
  /\ stage' = [stage EXCEPT ![m] = "done"]
  /\ outcome' = [outcome EXCEPT ![m] = answer]
  /\ \/ /\ answer = "AdmissionUncertain"
        /\ lease[m] \in {"Claimed", "Committed"} /\ lease' = lease
     \/ /\ answer = "Accepted"
        /\ lease[m] = "Committed" /\ lease' = lease
     \/ /\ answer \in Refusals
        /\ lease[m] \in {"Open", "Revoked"}
        /\ lease' = [lease EXCEPT ![m] = "Revoked"]

\* The disposition of the message's child after this answer.
CleanAfter(m, answer) ==
  IF answer = "AdmissionUncertain" THEN FALSE ELSE clean[target[m]]

\* All that a completion changes.
Completed(m, answer) ==
  /\ Answered(m, answer)
  /\ inFlight' = [inFlight EXCEPT ![target[m]] = @ - 1]
  /\ clean' = [clean EXCEPT ![target[m]] = CleanAfter(m, answer)]
  /\ IF lifecycle[target[m]] = "finalizing" /\ inFlight[target[m]] = 1
     THEN EndOfDrain(target[m], CleanAfter(m, answer))
     ELSE UNCHANGED <<told, finalWait, state, parked, result, cancelled>>
  /\ UNCHANGED <<alive, gen, lifecycle, target, mgen, host, inserted>>

\* CompletionMeaning: a completion, of whatever kind, answers the message as its lease
\* allows, takes it out of the count and ends the drain if it was the last one.
LEMMA CompletionMeaning ==
  ASSUME MessageSafety, NEW m \in Messages, Complete(m)
  PROVE  \E answer \in Outcomes : Completed(m, answer)
<1>1. PICK how \in Completions(m) : CompleteAs(m, how)
  BY DEF Complete
<1>2. how \in {"Admitted", "Unsupported", "ChannelClosed", "Rejected", "Cancelled",
              "DeadlineElapsed"} /\ (how = "Admitted" => host[m] = "Admitted")
  BY <1>1 DEF Completions, Admissions
<1>3. Current(m) /\ stage[m] = "inflight"
  BY InFlightPositive DEF Complete
<1>4. lease[m] \in Leases \ {"none"} /\ lease = [lease EXCEPT ![m] = lease[m]]
      /\ (host[m] = "Admitted" => lease[m] = "Committed")
  BY <1>3 DEF MessageSafety, TypeOK, LeaseShape
<1> DEFINE answer == ProtocolOutcome(how, Settles(m, how))
<1>5. answer \in Outcomes /\ (Settles(m, how) <=> answer # "AdmissionUncertain")
  BY <1>2 DEF ProtocolOutcome, Outcomes, Refusals
<1>6. stage' = [stage EXCEPT ![m] = "done"] /\ outcome' = [outcome EXCEPT ![m] = answer]
  BY <1>1, <1>3 DEF CompleteAs, Answer
<1>7. lease' = [lease EXCEPT ![m] =
                  IF how # "Admitted" /\ lease[m] = "Open" THEN "Revoked" ELSE lease[m]]
  BY <1>1, <1>4 DEF CompleteAs
<1>8. Answered(m, answer)
  BY <1>2, <1>4, <1>6, <1>7 DEF Answered, Settles, ProtocolOutcome, Leases, Refusals
<1>9. Recorded(target[m], Settles(m, how)) = CleanAfter(m, answer)
  BY <1>5 DEF Recorded, CleanAfter
<1>10. /\ inFlight' = [inFlight EXCEPT ![target[m]] = @ - 1]
       /\ clean' = [clean EXCEPT ![target[m]] = CleanAfter(m, answer)]
       /\ UNCHANGED <<alive, gen, lifecycle, target, mgen, host, inserted>>
  BY <1>1, <1>3, <1>9 DEF CompleteAs
<1>11. IF lifecycle[target[m]] = "finalizing" /\ inFlight[target[m]] = 1
       THEN EndOfDrain(target[m], CleanAfter(m, answer))
       ELSE UNCHANGED <<told, finalWait, state, parked, result, cancelled>>
  BY <1>1, <1>3, <1>9 DEF CompleteAs, EndsDrain, EndOfDrain, Unparks
<1> QED
  BY <1>5, <1>8, <1>10, <1>11 DEF Completed

\* CountAfter: the count of the child stays a natural number.
LEMMA CountAfter ==
  ASSUME MessageSafety, NEW m \in Messages, Complete(m)
  PROVE  inFlight[target[m]] - 1 \in Nat
<1>1. inFlight[target[m]] \in Nat \ {0}
  BY InFlightPositive DEF Complete
<1> QED
  BY <1>1

(***************************************************************************)
(* Types                                                                   *)
(***************************************************************************)

\* FinishTypes: the end of a child keeps the types of what it changes.
LEMMA FinishTypes ==
  ASSUME TypeOK, NEW c \in Children, NEW isClean \in BOOLEAN, Finish(c, isClean)
  PROVE  /\ state' \in [Children -> {"starting", "active", "down"}]
         /\ parked' \in [Children -> BOOLEAN] /\ cancelled' \in [Children -> BOOLEAN]
         /\ result' \in [Children -> Verdicts]
<1>1. CASE isClean
  BY <1>1 DEF TypeOK, Finish, Verdict, Verdicts
<1>2. CASE ~isClean
  BY <1>2 DEF TypeOK, Finish, Verdict, Verdicts
<1> QED
  BY <1>1, <1>2

\* DrainTypes: so does the end of a drain.
LEMMA DrainTypes ==
  ASSUME TypeOK, NEW c \in Children, NEW isClean \in BOOLEAN, EndOfDrain(c, isClean)
  PROVE  /\ told' \in [Children -> Verdicts] /\ finalWait' \in [Children -> BOOLEAN]
         /\ state' \in [Children -> {"starting", "active", "down"}]
         /\ parked' \in [Children -> BOOLEAN] /\ result' \in [Children -> Verdicts]
         /\ cancelled' \in [Children -> BOOLEAN]
<1>1. /\ told \in [Children -> Verdicts] /\ finalWait \in [Children -> BOOLEAN]
      /\ Verdict(isClean) \in Verdicts
  BY DEF TypeOK, Verdict, Verdicts
<1>2. told' \in [Children -> Verdicts] /\ finalWait' \in [Children -> BOOLEAN]
  <2>1. CASE finalWait[c]
    BY <1>1, <2>1 DEF EndOfDrain
  <2>2. CASE ~finalWait[c]
    BY <1>1, <2>2 DEF EndOfDrain
  <2> QED
    BY <2>1, <2>2
<1>3. CASE parked[c]
  BY <1>2, <1>3, FinishTypes DEF EndOfDrain
<1>4. CASE ~parked[c]
  BY <1>2, <1>4 DEF EndOfDrain, TypeOK
<1> QED
  BY <1>3, <1>4

\* TypePreserved: every action keeps every variable in its set of values.
LEMMA TypePreserved == MessageSafety /\ [Next]_vars => TypeOK'
<1> SUFFICES ASSUME MessageSafety, [Next]_vars PROVE TypeOK'
  OBVIOUS
<1> USE DEF MessageSafety, TypeOK, Leases, Hosts, Admissions, Outcomes, Refusals,
            Verdicts, Verdict, Answer
<1>1. ASSUME NEW m \in Messages, Send(m) PROVE TypeOK'
  BY <1>1 DEF Send, childVars
<1>2. ASSUME NEW m \in Messages, ReceiveAdmit(m) PROVE TypeOK'
  BY <1>2 DEF ReceiveAdmit
<1>3. ASSUME NEW m \in Messages, ReceiveRefuse(m) PROVE TypeOK'
  BY <1>3 DEF ReceiveRefuse, RefusalOf, childVars
<1>4. ASSUME NEW m \in Messages, ReceiveWake(m) PROVE TypeOK'
  BY <1>4 DEF ReceiveWake
<1>5. ASSUME NEW m \in Messages, HostStep(m) PROVE TypeOK'
  <2>1. CASE HostClaim(m)
    BY <2>1 DEF HostClaim, childVars
  <2>2. CASE HostInsert(m)
    BY <2>2 DEF HostInsert, childVars
  <2>3. CASE HostCommit(m)
    BY <2>3 DEF HostCommit, childVars
  <2>4. CASE HostAdmitted(m)
    BY <2>4 DEF HostAdmitted, childVars
  <2>5. ASSUME NEW admission \in {"Unsupported", "ChannelClosed"}, HostGivesUp(m, admission)
        PROVE TypeOK'
    BY <2>5 DEF HostGivesUp, childVars
  <2> QED
    BY <1>5, <2>1, <2>2, <2>3, <2>4, <2>5 DEF HostStep
<1>6. ASSUME NEW m \in Messages, Complete(m) PROVE TypeOK'
  <2>1. PICK answer \in Outcomes : Completed(m, answer)
    BY <1>6, CompletionMeaning
  <2>2. inFlight[target[m]] - 1 \in Nat
    BY <1>6, CountAfter
  <2>3. stage' \in [Messages -> {"idle", "ingress", "inflight", "done"}]
        /\ outcome' \in [Messages -> Outcomes] /\ lease' \in [Messages -> Leases]
    BY <2>1 DEF Completed, Answered
  <2>4. inFlight' \in [Children -> Nat] /\ clean' \in [Children -> BOOLEAN]
    BY <2>1, <2>2 DEF Completed, CleanAfter
  <2>5. told' \in [Children -> Verdicts] /\ finalWait' \in [Children -> BOOLEAN]
        /\ state' \in [Children -> {"starting", "active", "down"}]
        /\ parked' \in [Children -> BOOLEAN] /\ result' \in [Children -> Verdicts]
        /\ cancelled' \in [Children -> BOOLEAN]
    <3>1. CASE lifecycle[target[m]] = "finalizing" /\ inFlight[target[m]] = 1
      <4> DEFINE b == CleanAfter(m, answer)
      <4>1. b \in BOOLEAN /\ EndOfDrain(target[m], b) /\ target[m] \in Children
        BY <2>1, <3>1 DEF Completed, CleanAfter
      <4> HIDE DEF b
      <4> QED
        BY <4>1, DrainTypes
    <3>2. CASE ~(lifecycle[target[m]] = "finalizing" /\ inFlight[target[m]] = 1)
      BY <2>1, <3>2 DEF Completed
    <3> QED
      BY <3>1, <3>2
  <2> QED
    BY <2>1, <2>3, <2>4, <2>5 DEF Completed
<1>7. ASSUME NEW c \in Children, ChildStep(c) PROVE TypeOK'
  <2>1. CASE Started(c)
    BY <2>1 DEF Started, GoLive, messageVars
  <2>2. CASE Finalizing(c)
    BY <2>2 DEF Finalizing, messageVars
  <2>3. CASE FinalizingTimeout(c)
    BY <2>3 DEF FinalizingTimeout, messageVars
  <2>4. CASE RunEnded(c)
    <3>1. CASE Drained(c)
      <4>1. Finish(c, clean[c]) /\ clean[c] \in BOOLEAN
        BY <2>4, <3>1 DEF RunEnded
      <4> QED
        BY <2>4, <4>1, FinishTypes DEF RunEnded, messageVars
    <3>2. CASE ~Drained(c)
      BY <2>4, <3>2 DEF RunEnded, messageVars
    <3> QED
      BY <3>1, <3>2
  <2>5. CASE StartFailed(c)
    BY <2>5 DEF StartFailed, messageVars
  <2>6. CASE Cancel(c)
    BY <2>6 DEF Cancel, messageVars
  <2> QED
    BY <1>7, <2>1, <2>2, <2>3, <2>4, <2>5, <2>6 DEF ChildStep
<1>8. CASE ActorDrop
  BY <1>8 DEF ActorDrop
<1>9. CASE UNCHANGED vars
  BY <1>9 DEF vars, childVars, messageVars
<1> QED
  BY <1>1, <1>2, <1>3, <1>4, <1>5, <1>6, <1>7, <1>8, <1>9 DEF Next, Receive

(***************************************************************************)
(* The lease and the sender's answer                                       *)
(***************************************************************************)

\* The part of the invariant that is about single messages.
MessageFacts == LeaseShape /\ DefiniteAnswer /\ UncertaintyJustified

\* MessageFactsPreserved: no step of the host, the coordinator or the actor's end makes
\* an answer untrue.
LEMMA MessageFactsPreserved == MessageSafety /\ [Next]_vars => MessageFacts'
<1> SUFFICES ASSUME MessageSafety, [Next]_vars PROVE MessageFacts'
  OBVIOUS
<1>0. TypeOK /\ MessageFacts
  BY DEF MessageSafety, MessageFacts
<1> USE <1>0 DEF MessageFacts, LeaseShape, DefiniteAnswer, UncertaintyJustified, TypeOK,
                 Refusals, Answer, Leases
<1>1. ASSUME NEW m \in Messages, Send(m) PROVE MessageFacts'
  BY <1>1 DEF Send, childVars
<1>2. ASSUME NEW m \in Messages, ReceiveAdmit(m) PROVE MessageFacts'
  BY <1>2 DEF ReceiveAdmit
<1>3. ASSUME NEW m \in Messages, ReceiveRefuse(m) PROVE MessageFacts'
  BY <1>3 DEF ReceiveRefuse, RefusalOf, childVars
<1>4. ASSUME NEW m \in Messages, ReceiveWake(m) PROVE MessageFacts'
  BY <1>4 DEF ReceiveWake
<1>5. ASSUME NEW m \in Messages, HostStep(m) PROVE MessageFacts'
  <2>1. CASE HostClaim(m)
    BY <2>1 DEF HostClaim, childVars
  <2>2. CASE HostInsert(m)
    BY <2>2 DEF HostInsert, childVars
  <2>3. CASE HostCommit(m)
    BY <2>3 DEF HostCommit, childVars
  <2>4. CASE HostAdmitted(m)
    BY <2>4 DEF HostAdmitted, childVars
  <2>5. ASSUME NEW admission \in {"Unsupported", "ChannelClosed"}, HostGivesUp(m, admission)
        PROVE MessageFacts'
    BY <2>5 DEF HostGivesUp, childVars
  <2> QED
    BY <1>5, <2>1, <2>2, <2>3, <2>4, <2>5 DEF HostStep
<1>6. ASSUME NEW m \in Messages, Complete(m) PROVE MessageFacts'
  <2>1. PICK answer \in Outcomes : Completed(m, answer)
    BY <1>6, CompletionMeaning
  <2>2. stage[m] = "inflight"
    BY <1>6 DEF Complete
  <2> QED
    BY <2>1, <2>2 DEF Completed, Answered
<1>7. ASSUME NEW c \in Children, ChildStep(c) PROVE MessageFacts'
  <2>1. CASE Started(c)
    BY <2>1 DEF Started, GoLive, messageVars
  <2>2. CASE ~Started(c)
    BY <1>7, <2>2 DEF ChildStep, Finalizing, FinalizingTimeout, RunEnded, StartFailed, Cancel,
                      messageVars
  <2> QED
    BY <2>1, <2>2
<1>8. CASE ActorDrop
  BY <1>8 DEF ActorDrop, PermitsHeld
<1>9. CASE UNCHANGED vars
  BY <1>9 DEF vars, childVars, messageVars
<1> QED
  BY <1>1, <1>2, <1>3, <1>4, <1>5, <1>6, <1>7, <1>8, <1>9 DEF Next, Receive

(***************************************************************************)
(* The count                                                               *)
(***************************************************************************)

\* SameCount: a step that leaves the stages in flight and the children's counters alone
\* keeps the count, provided that children with messages in flight stay live.
LEMMA SameCount ==
  ASSUME MessageSafety, UNCHANGED <<target, mgen, inFlight>>,
         alive' => alive,
         \A m \in Messages : stage'[m] = "inflight" <=> stage[m] = "inflight",
         \A c \in Children : InFlightTo(c) # {} /\ state[c] = "active"
                               => state'[c] = "active" /\ gen'[c] = gen[c]
  PROVE  InFlightCounted'
<1>1. SUFFICES ASSUME alive', NEW c \in Children
               PROVE /\ inFlight'[c] = Cardinality(InFlightTo(c)') /\ inFlight'[c] <= MaxPerChild
                     /\ \A m \in InFlightTo(c)' : state'[c] = "active" /\ mgen'[m] = gen'[c]
  BY DEF InFlightCounted
<1>2. InFlightTo(c)' = InFlightTo(c)
  BY DEF InFlightTo
<1>3. /\ inFlight[c] = Cardinality(InFlightTo(c)) /\ inFlight[c] <= MaxPerChild
      /\ \A m \in InFlightTo(c) : state[c] = "active" /\ mgen[m] = gen[c]
  BY <1>1 DEF MessageSafety, InFlightCounted
<1> QED
  BY <1>1, <1>2, <1>3

\* CountPreserved: the counter of every child counts its messages in flight, also across
\* the end of the run and a new incarnation.
LEMMA CountPreserved == MessageSafety /\ [Next]_vars => InFlightCounted'
<1> SUFFICES ASSUME MessageSafety, [Next]_vars PROVE InFlightCounted'
  OBVIOUS
<1>0. TypeOK /\ InFlightCounted
  BY DEF MessageSafety
<1>1. ASSUME NEW m \in Messages, Send(m) PROVE InFlightCounted'
  BY <1>0, <1>1, SameCount DEF Send, Answer, childVars, TypeOK
<1>2. ASSUME NEW m \in Messages, ReceiveAdmit(m) PROVE InFlightCounted'
  <2>0. PICK t \in Children : t = target[m]
    BY <1>0 DEF TypeOK
  <2>1. t \in Children /\ state[t] = "active" /\ m \notin InFlightTo(t) /\ alive
        /\ inFlight[t] < MaxPerChild
    BY <2>0, <1>0, <1>2 DEF ReceiveAdmit, Reachable, AdmissionOpen, InFlightTo, TypeOK
  <2>2. InFlightTo(t)' = InFlightTo(t) \union {m}
    BY <2>0, <1>0, <1>2 DEF ReceiveAdmit, InFlightTo, TypeOK
  <2>3. \A c \in Children \ {t} : InFlightTo(c)' = InFlightTo(c)
    BY <2>0, <1>0, <1>2 DEF ReceiveAdmit, InFlightTo, TypeOK
  <2>4. Cardinality(InFlightTo(t)') = Cardinality(InFlightTo(t)) + 1
    BY <2>0, <2>1, <2>2, InFlightFinite, FS_AddElement
  <2>5. inFlight' = [inFlight EXCEPT ![t] = @ + 1] /\ mgen' = [mgen EXCEPT ![m] = gen[t]]
        /\ UNCHANGED <<state, gen>>
    BY <2>0, <1>2 DEF ReceiveAdmit
  <2>6. ASSUME NEW c \in Children
        PROVE /\ inFlight'[c] = Cardinality(InFlightTo(c)') /\ inFlight'[c] <= MaxPerChild
              /\ \A x \in InFlightTo(c)' : state'[c] = "active" /\ mgen'[x] = gen'[c]
    <3>1. /\ inFlight[c] = Cardinality(InFlightTo(c)) /\ inFlight[c] <= MaxPerChild
          /\ inFlight[c] \in Nat
          /\ \A x \in InFlightTo(c) : state[c] = "active" /\ mgen[x] = gen[c]
      BY <2>0, <1>0, <2>1 DEF InFlightCounted, TypeOK
    <3>2. CASE c = t
      <4>1. inFlight'[c] = inFlight[c] + 1 /\ inFlight[c] + 1 <= MaxPerChild
        BY <2>0, <1>0, <2>1, <2>5, <3>1, <3>2, BoundsAssumption DEF TypeOK
      <4>2. Cardinality(InFlightTo(c)') = inFlight[c] + 1
        BY <2>0, <2>4, <3>1, <3>2
      <4>3. \A x \in InFlightTo(c) : x \in Messages /\ x # m
        BY <2>0, <2>1, <3>2 DEF InFlightTo
      <4>4. \A x \in InFlightTo(c)' : mgen'[x] = gen'[c]
        BY <2>0, <1>0, <2>2, <2>5, <3>1, <3>2, <4>3 DEF TypeOK
      <4> QED
        BY <2>0, <2>1, <2>5, <3>2, <4>1, <4>2, <4>4
    <3>3. CASE c # t
      <4>1. InFlightTo(c)' = InFlightTo(c) /\ inFlight'[c] = inFlight[c] /\ m \notin InFlightTo(c)
        BY <2>0, <1>0, <2>3, <2>5, <3>3 DEF TypeOK, InFlightTo
      <4>2. \A x \in InFlightTo(c) : x \in Messages
        BY DEF InFlightTo
      <4>3. \A x \in InFlightTo(c) : mgen'[x] = mgen[x]
        BY <2>0, <1>0, <2>5, <4>1, <4>2 DEF TypeOK
      <4> QED
        BY <2>0, <2>5, <3>1, <4>1, <4>3
    <3> QED
      BY <3>2, <3>3
  <2> QED
    BY <2>6 DEF InFlightCounted
<1>3. ASSUME NEW m \in Messages, ReceiveRefuse(m) PROVE InFlightCounted'
  BY <1>0, <1>3, SameCount DEF ReceiveRefuse, Answer, childVars, TypeOK
<1>4. ASSUME NEW m \in Messages, ReceiveWake(m) PROVE InFlightCounted'
  BY <1>0, <1>4, SameCount DEF ReceiveWake, Answer, TypeOK
<1>5. ASSUME NEW m \in Messages, HostStep(m) PROVE InFlightCounted'
  BY <1>0, <1>5, SameCount DEF HostStep, HostClaim, HostInsert, HostCommit, HostAdmitted,
                              HostGivesUp, childVars
<1>6. ASSUME NEW m \in Messages, Complete(m) PROVE InFlightCounted'
  <2>0. PICK t \in Children : t = target[m]
    BY <1>0 DEF TypeOK
  <2>1. PICK answer \in Outcomes : Completed(m, answer)
    BY <1>6, CompletionMeaning
  <2>2. /\ t \in Children /\ alive /\ stage[m] = "inflight"
        /\ inFlight[t] \in Nat \ {0} /\ Cardinality(InFlightTo(t) \ {m}) = inFlight[t] - 1
        /\ (inFlight[t] = 1 => InFlightTo(t) = {m})
    BY <2>0, <1>0, <1>6, InFlightPositive DEF Complete, TypeOK
  <2>3. /\ stage' = [stage EXCEPT ![m] = "done"] /\ inFlight' = [inFlight EXCEPT ![t] = @ - 1]
        /\ UNCHANGED <<target, mgen, gen>>
    BY <2>0, <2>1 DEF Completed, Answered
  <2>4. InFlightTo(t)' = InFlightTo(t) \ {m}
    BY <2>0, <1>0, <2>3 DEF InFlightTo, TypeOK
  <2>5. \A c \in Children \ {t} : InFlightTo(c)' = InFlightTo(c)
    BY <2>0, <1>0, <2>3 DEF InFlightTo, TypeOK
  <2>6. /\ \A c \in Children \ {t} : state'[c] = state[c]
        /\ inFlight[t] # 1 => state' = state
    BY <2>0, <1>0, <2>1, <2>2 DEF Completed, EndOfDrain, Finish, TypeOK
  <2>7. ASSUME NEW c \in Children
        PROVE /\ inFlight'[c] = Cardinality(InFlightTo(c)') /\ inFlight'[c] <= MaxPerChild
              /\ \A x \in InFlightTo(c)' : state'[c] = "active" /\ mgen'[x] = gen'[c]
    <3>1. /\ inFlight[c] = Cardinality(InFlightTo(c)) /\ inFlight[c] <= MaxPerChild
          /\ inFlight[c] \in Nat
          /\ \A x \in InFlightTo(c) : state[c] = "active" /\ mgen[x] = gen[c]
      BY <2>0, <1>0, <2>2 DEF InFlightCounted, TypeOK
    <3>2. CASE c = t
      <4>1. inFlight'[c] = inFlight[c] - 1
        BY <2>0, <1>0, <2>2, <2>3, <3>2 DEF TypeOK
      <4>2. \A x \in InFlightTo(c)' : state'[c] = "active" /\ mgen'[x] = gen'[c]
        BY <2>0, <2>2, <2>3, <2>4, <2>6, <3>1, <3>2
      <4> QED
        <5>1. Cardinality(InFlightTo(c)') = inFlight[c] - 1
          BY <2>0, <2>2, <2>4, <3>2
        <5>2. inFlight[c] - 1 <= MaxPerChild
          BY <3>1, BoundsAssumption
        <5> QED
          BY <4>1, <4>2, <5>1, <5>2
    <3>3. CASE c # t
      BY <2>0, <1>0, <2>2, <2>3, <2>5, <2>6, <3>1, <3>3 DEF TypeOK
    <3> QED
      BY <3>2, <3>3
  <2> QED
    BY <2>7 DEF InFlightCounted
<1>7. ASSUME NEW c \in Children, ChildStep(c) PROVE InFlightCounted'
  <2>0. ASSUME alive PROVE inFlight[c] = 0 => InFlightTo(c) = {}
    BY <1>0, <2>0, InFlightFinite, FS_EmptySet DEF InFlightCounted
  <2>1. CASE Started(c)
    <3>1. InFlightTo(c) = {} /\ alive /\ alive'
      BY <1>0, <2>1 DEF Started, GoLive, InFlightCounted
    <3>2. inFlight[c] = 0 /\ Cardinality({}) = 0
      BY <1>0, <3>1, FS_EmptySet DEF InFlightCounted
    <3>3. inFlight' = inFlight
      BY <1>0, <2>1, <3>2 DEF Started, GoLive, TypeOK
    <3> QED
      BY <1>0, <2>1, <3>1, <3>3, SameCount DEF Started, GoLive, messageVars, TypeOK
  <2>2. CASE RunEnded(c)
    <3>1. inFlight[c] = 0 => InFlightTo(c) = {}
      BY <2>0, <2>2 DEF RunEnded
    <3>2. \A d \in Children : InFlightTo(d) # {} /\ state[d] = "active"
                               => state'[d] = "active" /\ gen'[d] = gen[d]
      BY <1>0, <2>2, <3>1 DEF RunEnded, Drained, Finish, TypeOK
    <3> QED
      BY <2>2, <3>2, SameCount DEF RunEnded, messageVars
  <2>3. CASE Finalizing(c) \/ FinalizingTimeout(c) \/ StartFailed(c) \/ Cancel(c)
    BY <1>0, <2>3, SameCount DEF Finalizing, FinalizingTimeout, StartFailed, Cancel,
                                 messageVars, TypeOK
  <2> QED
    BY <1>7, <2>1, <2>2, <2>3 DEF ChildStep
<1>8. CASE ActorDrop
  BY <1>8 DEF ActorDrop, InFlightCounted
<1>9. CASE UNCHANGED vars
  BY <1>9, SameCount DEF vars, childVars, messageVars
<1> QED
  BY <1>1, <1>2, <1>3, <1>4, <1>5, <1>6, <1>7, <1>8, <1>9 DEF Next, Receive

(***************************************************************************)
(* The drain                                                               *)
(***************************************************************************)

\* DrainShapePreserved: only a live child that is finalizing is waited for.
LEMMA DrainShapePreserved == MessageSafety /\ [Next]_vars => DrainShape'
<1> SUFFICES ASSUME MessageSafety, [Next]_vars PROVE DrainShape'
  OBVIOUS
<1>0. TypeOK /\ DrainShape
  BY DEF MessageSafety
<1>1. ASSUME NEW m \in Messages, Send(m) \/ ReceiveRefuse(m) \/ HostStep(m) PROVE DrainShape'
  BY <1>0, <1>1 DEF DrainShape, Send, ReceiveRefuse, HostStep, HostClaim, HostInsert, HostCommit,
                    HostAdmitted, HostGivesUp, childVars
<1>2. ASSUME NEW m \in Messages, ReceiveAdmit(m) PROVE DrainShape'
  BY <1>0, <1>2 DEF DrainShape, ReceiveAdmit
<1>3. ASSUME NEW m \in Messages, ReceiveWake(m) PROVE DrainShape'
  BY <1>0, <1>3 DEF DrainShape, ReceiveWake, TypeOK
<1>4. ASSUME NEW m \in Messages, Complete(m) PROVE DrainShape'
  <2>1. PICK answer \in Outcomes : Completed(m, answer)
    BY <1>4, CompletionMeaning
  <2>2. target[m] \in Children /\ UNCHANGED <<alive, lifecycle>>
    BY <1>0, <2>1 DEF TypeOK, Completed
  <2>3. CASE UNCHANGED <<told, finalWait, state, parked, result, cancelled>>
    BY <1>0, <2>2, <2>3 DEF DrainShape
  <2>4. CASE lifecycle[target[m]] = "finalizing" /\ EndOfDrain(target[m], CleanAfter(m, answer))
    <3>1. CASE finalWait[target[m]]
      <4>1. /\ UNCHANGED <<state, parked, result>>
            /\ finalWait' = [finalWait EXCEPT ![target[m]] = FALSE]
            /\ \A c \in Children \ {target[m]} : told'[c] = told[c]
        BY <1>0, <2>2, <2>4, <3>1 DEF EndOfDrain, DrainShape, TypeOK
      <4> QED
        BY <1>0, <2>2, <2>4, <3>1, <4>1 DEF DrainShape, TypeOK
    <3>2. CASE ~finalWait[target[m]]
      <4>1. UNCHANGED <<told, finalWait>>
        BY <2>4, <3>2 DEF EndOfDrain
      <4>2. CASE parked[target[m]]
        <5>1. /\ state' = [state EXCEPT ![target[m]] = "down"]
              /\ parked' = [parked EXCEPT ![target[m]] = FALSE]
              /\ \A c \in Children \ {target[m]} : result'[c] = result[c]
          BY <1>0, <2>2, <2>4, <4>2 DEF EndOfDrain, Finish, TypeOK
        <5> QED
          BY <1>0, <2>2, <3>2, <4>1, <5>1 DEF DrainShape, TypeOK
      <4>3. CASE ~parked[target[m]]
        BY <1>0, <2>2, <2>4, <4>1, <4>3 DEF EndOfDrain, DrainShape
      <4> QED
        BY <4>2, <4>3
    <3> QED
      BY <3>1, <3>2
  <2> QED
    BY <2>1, <2>3, <2>4 DEF Completed
<1>5. ASSUME NEW c \in Children, ChildStep(c) PROVE DrainShape'
  <2>1. CASE Started(c)
    BY <1>0, <2>1 DEF DrainShape, Started, GoLive, TypeOK
  <2>2. CASE Finalizing(c)
    BY <1>0, <2>2 DEF DrainShape, Finalizing, TypeOK
  <2>3. CASE FinalizingTimeout(c)
    BY <1>0, <2>3 DEF DrainShape, FinalizingTimeout, TypeOK
  <2>4. CASE RunEnded(c)
    <3>1. CASE Drained(c)
      <4>1. /\ state' = [state EXCEPT ![c] = "down"] /\ parked' = [parked EXCEPT ![c] = FALSE]
            /\ \A d \in Children \ {c} : result'[d] = result[d]
            /\ lifecycle' = [lifecycle EXCEPT ![c] = "finalizing"]
            /\ finalWait' = [finalWait EXCEPT ![c] = FALSE] /\ UNCHANGED <<alive, told>>
        BY <1>0, <2>4, <3>1 DEF RunEnded, Finish, TypeOK
      <4> QED
        BY <1>0, <4>1 DEF DrainShape, TypeOK
    <3>2. CASE ~Drained(c)
      BY <1>0, <2>4, <3>2 DEF DrainShape, RunEnded, TypeOK
    <3> QED
      BY <3>1, <3>2
  <2>5. CASE StartFailed(c)
    BY <1>0, <2>5 DEF DrainShape, StartFailed, TypeOK
  <2>6. CASE Cancel(c)
    BY <1>0, <2>6 DEF DrainShape, Cancel
  <2> QED
    BY <1>5, <2>1, <2>2, <2>3, <2>4, <2>5, <2>6 DEF ChildStep
<1>6. CASE ActorDrop
  BY <1>0, <1>6 DEF ActorDrop, DrainShape
<1>7. CASE UNCHANGED vars
  BY <1>0, <1>7 DEF vars, childVars, DrainShape
<1> QED
  BY <1>1, <1>2, <1>3, <1>4, <1>5, <1>6, <1>7 DEF Next, Receive

\* The part of the invariant that relates verdicts to answers.
VerdictFacts == DispositionTracked /\ CleanIsSettled /\ UncleanJustified

\* UncertainIsDone: a message has been answered only when it is done, and one that was
\* handed to the host is in flight or done.
LEMMA UncertainIsDone ==
  ASSUME MessageSafety, NEW m \in Messages
  PROVE  /\ outcome[m] # "none" => stage[m] = "done"
         /\ lease[m] # "none" => stage[m] \in {"inflight", "done"}
BY DEF MessageSafety, LeaseShape, TypeOK

\* SameVerdicts: a step that neither admits a message to a child, nor completes one, nor
\* gives a verdict keeps the facts.
LEMMA SameVerdicts ==
  ASSUME MessageSafety, UNCHANGED <<gen, target, clean, mgen>>, alive' => alive,
         \A m \in Messages : lease'[m] = "none" <=> lease[m] = "none",
         \A m \in Messages : lease[m] # "none" /\ stage[m] = "done"
                               => stage'[m] = "done" /\ outcome'[m] = outcome[m],
         alive' => \A m \in Messages : lease[m] # "none" /\ stage'[m] = "done"
                                         => stage[m] = "done",
         \A c \in Children : (told'[c] = "clean" => told[c] = "clean") /\ result'[c] = result[c]
  PROVE  VerdictFacts'
<1>1. \A c \in Children : AdmittedTo(c)' = AdmittedTo(c)
  BY DEF AdmittedTo
<1>2. \A c \in Children : \A m \in AdmittedTo(c) :
        /\ m \in Messages
        /\ outcome[m] # "none" => stage[m] = "done"
        /\ stage[m] = "done" => stage'[m] = "done" /\ outcome'[m] = outcome[m]
        /\ alive' /\ stage'[m] = "done" => stage[m] = "done"
  BY UncertainIsDone DEF AdmittedTo
<1>3. DispositionTracked'
  BY <1>1, <1>2 DEF MessageSafety, DispositionTracked
<1>4. CleanIsSettled'
  BY <1>1, <1>2 DEF MessageSafety, CleanIsSettled
<1>5. UncleanJustified'
  BY <1>1, <1>2 DEF MessageSafety, UncleanJustified
<1> QED
  BY <1>3, <1>4, <1>5 DEF VerdictFacts

\* DrainedIsSettled: with a count of zero every message of this generation is answered.
LEMMA DrainedIsSettled ==
  ASSUME MessageSafety, alive, NEW c \in Children, inFlight[c] = 0
  PROVE  IF clean[c]
         THEN \A m \in AdmittedTo(c) :
                stage[m] = "done" /\ outcome[m] \in Refusals \union {"Accepted"}
         ELSE \E m \in AdmittedTo(c) : outcome[m] = "AdmissionUncertain"
<1>1. InFlightTo(c) = {}
  BY InFlightFinite, FS_EmptySet DEF MessageSafety, InFlightCounted
<1>2. \A m \in AdmittedTo(c) : stage[m] = "done"
  BY <1>1, UncertainIsDone DEF AdmittedTo, InFlightTo
<1> QED
  BY <1>2 DEF MessageSafety, DispositionTracked

\* CompletionVerdicts: a completion keeps the facts; the one that ends a drain is the last
\* of its generation.
LEMMA CompletionVerdicts ==
  ASSUME MessageSafety, NEW m \in Messages, Complete(m)
  PROVE  VerdictFacts'
<1>0. TypeOK /\ DispositionTracked /\ CleanIsSettled /\ UncleanJustified
  BY DEF MessageSafety
<1>1. PICK t \in Children : t = target[m]
  BY <1>0 DEF TypeOK
<1>2. PICK answer \in Outcomes : Completed(m, answer)
  BY CompletionMeaning
<1>3. /\ alive /\ stage[m] = "inflight" /\ lease[m] # "none" /\ outcome[m] = "none"
      /\ m \in AdmittedTo(t)
      /\ inFlight[t] = 1 => InFlightTo(t) = {m}
  BY <1>1, InFlightPositive DEF Complete, MessageSafety, LeaseShape, AdmittedTo, Current
<1>4. /\ stage' = [stage EXCEPT ![m] = "done"] /\ outcome' = [outcome EXCEPT ![m] = answer]
      /\ clean' = [clean EXCEPT ![t] = IF answer = "AdmissionUncertain" THEN FALSE ELSE clean[t]]
      /\ answer # "AdmissionUncertain" => answer \in Refusals \union {"Accepted"}
      /\ UNCHANGED <<alive, gen, target, mgen>>
  BY <1>1, <1>2 DEF Completed, Answered, CleanAfter
<1>5. \A c \in Children : AdmittedTo(c)' = AdmittedTo(c)
  BY <1>0, <1>2, <1>4 DEF Completed, Answered, AdmittedTo, TypeOK
<1>6. \A c \in Children : \A x \in AdmittedTo(c) : x # m =>
        /\ x \in Messages /\ stage'[x] = stage[x] /\ outcome'[x] = outcome[x]
        /\ stage[x] \in {"inflight", "done"}
  BY <1>0, <1>4, UncertainIsDone DEF TypeOK, AdmittedTo
<1>7. /\ stage'[m] = "done" /\ outcome'[m] = answer
      /\ \A c \in Children \ {t} : m \notin AdmittedTo(c) /\ clean'[c] = clean[c]
      /\ answer = "AdmissionUncertain" => clean'[t] = FALSE
      /\ answer # "AdmissionUncertain" => clean'[t] = clean[t]
  BY <1>0, <1>1, <1>4 DEF TypeOK, AdmittedTo
<1>8. told[t] # "clean" /\ result[t] # "clean"
  BY <1>0, <1>3 DEF CleanIsSettled
<1>9. DispositionTracked'
  <2> SUFFICES ASSUME NEW c \in Children
               PROVE IF clean'[c]
                     THEN \A x \in AdmittedTo(c)' : stage'[x] = "done"
                            => outcome'[x] \in Refusals \union {"Accepted"}
                     ELSE \E x \in AdmittedTo(c)' : outcome'[x] = "AdmissionUncertain"
    BY DEF DispositionTracked
  <2>1. IF clean[c]
        THEN \A x \in AdmittedTo(c) : stage[x] = "done"
               => outcome[x] \in Refusals \union {"Accepted"}
        ELSE \E x \in AdmittedTo(c) : outcome[x] = "AdmissionUncertain"
    BY <1>0, <1>3 DEF DispositionTracked
  <2>2. CASE c # t
    BY <1>5, <1>6, <1>7, <2>1, <2>2
  <2>3. CASE c = t /\ answer = "AdmissionUncertain"
    BY <1>3, <1>5, <1>7, <2>3
  <2>4. CASE c = t /\ answer # "AdmissionUncertain"
    BY <1>3, <1>4, <1>5, <1>6, <1>7, <2>1, <2>4
  <2> QED
    BY <2>2, <2>3, <2>4
<1>10. /\ \A c \in Children \ {t} : told'[c] = told[c] /\ result'[c] = result[c]
       /\ \/ told'[t] = told[t]
          \/ inFlight[t] = 1 /\ (told'[t] = "clean" => clean'[t])
       /\ \/ result'[t] = result[t]
          \/ inFlight[t] = 1 /\ (result'[t] = "clean" => clean'[t])
                             /\ (result'[t] = "unclean" => ~clean'[t])
  <2>1. CASE UNCHANGED <<told, finalWait, state, parked, result, cancelled>>
    BY <2>1
  <2>2. CASE inFlight[t] = 1 /\ EndOfDrain(t, CleanAfter(m, answer))
    <3>1. CASE answer = "AdmissionUncertain"
      BY <1>0, <1>7, <2>2, <3>1 DEF EndOfDrain, Finish, CleanAfter, Verdict, TypeOK
    <3>2. CASE answer # "AdmissionUncertain"
      BY <1>0, <1>1, <1>7, <2>2, <3>2 DEF EndOfDrain, Finish, CleanAfter, Verdict, TypeOK
    <3> QED
      BY <3>1, <3>2
  <2> QED
    BY <1>1, <1>2, <2>1, <2>2 DEF Completed
<1>11. CleanIsSettled'
  <2> SUFFICES ASSUME NEW c \in Children, told'[c] = "clean" \/ result'[c] = "clean",
                      NEW x \in AdmittedTo(c)'
               PROVE stage'[x] = "done" /\ outcome'[x] \in Refusals \union {"Accepted"}
    BY DEF CleanIsSettled
  <2>1. CASE c # t
    BY <1>0, <1>5, <1>6, <1>7, <1>10, <2>1 DEF CleanIsSettled
  <2>2. CASE c = t
    <3>1. inFlight[t] = 1 /\ clean'[t]
      BY <1>8, <1>10, <2>2
    <3>2. x = m \/ stage[x] = "done"
      BY <1>1, <1>3, <1>5, <1>6, <2>2, <3>1 DEF InFlightTo, AdmittedTo
    <3>3. stage'[x] = "done"
      BY <1>5, <1>6, <1>7, <2>2, <3>2
    <3> QED
      BY <1>3, <1>4, <1>9, <2>2, <3>1, <3>3 DEF DispositionTracked
  <2> QED
    BY <2>1, <2>2
<1>12. UncleanJustified'
  <2> SUFFICES ASSUME NEW c \in Children, result'[c] = "unclean"
               PROVE \E x \in AdmittedTo(c)' : outcome'[x] = "AdmissionUncertain"
    BY DEF UncleanJustified
  <2>1. CASE result[c] = "unclean"
    <3>1. PICK x \in AdmittedTo(c) : outcome[x] = "AdmissionUncertain"
      BY <1>0, <2>1 DEF UncleanJustified
    <3> QED
      BY <1>3, <1>5, <1>6, <3>1
  <2>2. CASE result[c] # "unclean"
    BY <1>3, <1>4, <1>9, <1>10, <2>2 DEF DispositionTracked
  <2> QED
    BY <2>1, <2>2
<1> QED
  BY <1>9, <1>11, <1>12 DEF VerdictFacts

\* VerdictsPreserved: a clean verdict keeps meaning that every message of its generation
\* has a definite answer, an unclean result that one has not.
LEMMA VerdictsPreserved == MessageSafety /\ [Next]_vars => VerdictFacts'
<1> SUFFICES ASSUME MessageSafety, [Next]_vars PROVE VerdictFacts'
  OBVIOUS
<1>0. TypeOK /\ DispositionTracked /\ CleanIsSettled /\ UncleanJustified /\ LeaseShape
      /\ DrainShape
  BY DEF MessageSafety
<1>1. ASSUME NEW m \in Messages, Send(m) \/ ReceiveRefuse(m) PROVE VerdictFacts'
  BY <1>0, <1>1, SameVerdicts DEF Send, ReceiveRefuse, Answer, childVars, LeaseShape, TypeOK
<1>2. ASSUME NEW m \in Messages, ReceiveWake(m) PROVE VerdictFacts'
  BY <1>0, <1>2, SameVerdicts DEF ReceiveWake, Answer, LeaseShape, TypeOK
<1>3. ASSUME NEW m \in Messages, HostStep(m) PROVE VerdictFacts'
  <2>1. \A x \in Messages : lease'[x] = "none" <=> lease[x] = "none"
    BY <1>0, <1>3 DEF HostStep, HostClaim, HostInsert, HostCommit, HostAdmitted, HostGivesUp,
                      TypeOK
  <2>2. UNCHANGED <<alive, childVars, stage, target, mgen, outcome>>
    BY <1>3 DEF HostStep, HostClaim, HostInsert, HostCommit, HostAdmitted, HostGivesUp, childVars
  <2> QED
    BY <2>1, <2>2, SameVerdicts DEF childVars
<1>4. ASSUME NEW m \in Messages, ReceiveAdmit(m) PROVE VerdictFacts'
  <2>1. PICK t \in Children : t = target[m]
    BY <1>0 DEF TypeOK
  <2>2. /\ alive /\ state[t] = "active" /\ lifecycle[t] = "open" /\ lease[m] = "none"
        /\ outcome[m] = "none" /\ outcome'[m] = "none" /\ stage'[m] = "inflight"
        /\ UNCHANGED <<alive, gen, target, clean, told, result>>
    BY <1>0, <1>4, <2>1 DEF ReceiveAdmit, Reachable, AdmissionOpen, LeaseShape, TypeOK
  <2>3. told[t] = "none" /\ result[t] = "none"
    BY <1>0, <2>2 DEF DrainShape, TypeOK
  <2>4. \A c \in Children : AdmittedTo(c)' = AdmittedTo(c) \union (IF c = t THEN {m} ELSE {})
    BY <1>0, <1>4, <2>1 DEF ReceiveAdmit, AdmittedTo, TypeOK
  <2>5. \A c \in Children : \A x \in AdmittedTo(c) :
          x # m /\ stage'[x] = stage[x] /\ outcome'[x] = outcome[x]
    BY <1>0, <1>4, <2>2 DEF ReceiveAdmit, AdmittedTo, TypeOK
  <2>6. DispositionTracked'
    BY <1>0, <2>2, <2>4, <2>5 DEF DispositionTracked
  <2>7. CleanIsSettled'
    BY <1>0, <2>2, <2>3, <2>4, <2>5 DEF CleanIsSettled
  <2>8. UncleanJustified'
    BY <1>0, <2>2, <2>4, <2>5 DEF UncleanJustified
  <2> QED
    BY <2>6, <2>7, <2>8 DEF VerdictFacts
<1>5. ASSUME NEW m \in Messages, Complete(m) PROVE VerdictFacts'
  BY <1>5, CompletionVerdicts
<1>6. ASSUME NEW c \in Children, ChildStep(c) PROVE VerdictFacts'
  <2>1. CASE Started(c)
    <3>1. /\ gen' = [gen EXCEPT ![c] = @ + 1] /\ clean' = [clean EXCEPT ![c] = TRUE]
          /\ told' = [told EXCEPT ![c] = "none"] /\ result' = [result EXCEPT ![c] = "none"]
          /\ UNCHANGED <<alive, stage, target, mgen, lease, outcome>>
      BY <2>1 DEF Started, GoLive, messageVars
    <3>2. AdmittedTo(c)' = {}
      BY <1>0, <3>1 DEF AdmittedTo, LeaseShape, TypeOK
    <3>3. \A d \in Children \ {c} : /\ AdmittedTo(d)' = AdmittedTo(d) /\ clean'[d] = clean[d]
                                    /\ told'[d] = told[d] /\ result'[d] = result[d]
      BY <1>0, <3>1 DEF AdmittedTo, TypeOK
    <3>4. clean'[c] = TRUE /\ told'[c] = "none" /\ result'[c] = "none"
      BY <1>0, <3>1 DEF TypeOK
    <3>5. DispositionTracked'
      BY <1>0, <3>1, <3>2, <3>3, <3>4 DEF DispositionTracked
    <3>6. CleanIsSettled' /\ UncleanJustified'
      BY <1>0, <3>1, <3>3, <3>4 DEF CleanIsSettled, UncleanJustified
    <3> QED
      BY <3>5, <3>6 DEF VerdictFacts
  <2>2. CASE Finalizing(c)
    <3>1. /\ UNCHANGED <<alive, gen, clean, result, stage, target, mgen, lease, outcome>>
          /\ alive /\ \A d \in Children \ {c} : told'[d] = told[d]
          /\ told'[c] = "clean" => (inFlight[c] = 0 /\ clean[c]) \/ told[c] = "clean"
      BY <1>0, <2>2 DEF Finalizing, Verdict, messageVars, TypeOK
    <3>2. \A d \in Children : AdmittedTo(d)' = AdmittedTo(d)
      BY <3>1 DEF AdmittedTo
    <3>3. told'[c] = "clean" => \A m \in AdmittedTo(c) :
            stage[m] = "done" /\ outcome[m] \in Refusals \union {"Accepted"}
      BY <1>0, <3>1, DrainedIsSettled DEF CleanIsSettled
    <3>4. CleanIsSettled'
      BY <1>0, <3>1, <3>2, <3>3 DEF CleanIsSettled
    <3>5. DispositionTracked' /\ UncleanJustified'
      BY <1>0, <3>1, <3>2 DEF DispositionTracked, UncleanJustified
    <3> QED
      BY <3>4, <3>5 DEF VerdictFacts
  <2>3. CASE RunEnded(c)
    <3>1. /\ UNCHANGED <<alive, gen, clean, told, stage, target, mgen, lease, outcome>>
          /\ alive /\ \A d \in Children \ {c} : result'[d] = result[d]
          /\ \/ result'[c] = result[c]
             \/ inFlight[c] = 0 /\ (result'[c] = "clean" <=> clean[c])
      BY <1>0, <2>3 DEF RunEnded, Drained, Finish, Verdict, messageVars, TypeOK
    <3>2. \A d \in Children : AdmittedTo(d)' = AdmittedTo(d)
      BY <3>1 DEF AdmittedTo
    <3>3. /\ result'[c] = "clean" => \A m \in AdmittedTo(c) :
               stage[m] = "done" /\ outcome[m] \in Refusals \union {"Accepted"}
          /\ result'[c] = "unclean" => \E m \in AdmittedTo(c) : outcome[m] = "AdmissionUncertain"
      BY <1>0, <3>1, DrainedIsSettled DEF CleanIsSettled, UncleanJustified
    <3>4. CleanIsSettled' /\ UncleanJustified'
      BY <1>0, <3>1, <3>2, <3>3 DEF CleanIsSettled, UncleanJustified
    <3>5. DispositionTracked'
      BY <1>0, <3>1, <3>2 DEF DispositionTracked
    <3> QED
      BY <3>4, <3>5 DEF VerdictFacts
  <2>4. CASE FinalizingTimeout(c) \/ StartFailed(c) \/ Cancel(c)
    BY <1>0, <2>4, SameVerdicts DEF FinalizingTimeout, StartFailed, Cancel, messageVars, TypeOK
  <2> QED
    BY <1>6, <2>1, <2>2, <2>3, <2>4 DEF ChildStep
<1>7. CASE ActorDrop
  <2>1. /\ UNCHANGED <<gen, target, clean, mgen, result>> /\ ~alive'
        /\ \A m \in Messages : lease'[m] = "none" <=> lease[m] = "none"
        /\ \A m \in Messages : stage[m] = "done" => stage'[m] = "done" /\ outcome'[m] = outcome[m]
        /\ \A c \in Children : told'[c] = "clean" => told[c] = "clean"
    BY <1>0, <1>7 DEF ActorDrop, PermitsHeld, TypeOK
  <2> QED
    BY <2>1, SameVerdicts
<1>8. CASE UNCHANGED vars
  BY <1>8, SameVerdicts DEF vars, childVars, messageVars
<1> QED
  BY <1>1, <1>2, <1>3, <1>4, <1>5, <1>6, <1>7, <1>8 DEF Next, Receive

(***************************************************************************)
(* Theorems                                                                *)
(***************************************************************************)

\* MessageSafetyHolds: whatever the host, the runner, the cancellers and the end of the
\* coordinator do and in whatever order, the four parties agree on every message.
THEOREM MessageSafetyHolds == Spec => []MessageSafety
<1>1. Init => MessageSafety
  <2> SUFFICES ASSUME Init PROVE MessageSafety
    OBVIOUS
  <2>1. TypeOK
    BY DEF Init, TypeOK, Leases, Hosts, Outcomes, Verdicts
  <2>2. \A c \in Children : InFlightTo(c) = {} /\ AdmittedTo(c) = {}
    BY DEF Init, InFlightTo, AdmittedTo
  <2>3. InFlightCounted
    <3>1. Cardinality({}) = 0
      BY FS_EmptySet
    <3>2. \A c \in Children : inFlight[c] = 0
      BY DEF Init
    <3>3. 0 <= MaxPerChild
      BY BoundsAssumption
    <3> QED
      BY <2>2, <3>1, <3>2, <3>3 DEF InFlightCounted
  <2>4. LeaseShape /\ DefiniteAnswer /\ UncertaintyJustified
    BY DEF Init, LeaseShape, DefiniteAnswer, UncertaintyJustified, Refusals
  <2>5. DrainShape /\ CleanIsSettled /\ UncleanJustified
    BY DEF Init, DrainShape, CleanIsSettled, UncleanJustified
  <2>6. DispositionTracked
    BY <2>2 DEF Init, DispositionTracked
  <2> QED
    BY <2>1, <2>3, <2>4, <2>5, <2>6 DEF MessageSafety
<1>2. MessageSafety /\ [Next]_vars => MessageSafety'
  BY TypePreserved, MessageFactsPreserved, CountPreserved, DrainShapePreserved,
     VerdictsPreserved DEF MessageSafety, MessageFacts, VerdictFacts
<1> QED
  BY <1>1, <1>2, PTL DEF Spec

\* AnswersHold: a sender that is refused may send again, and one whose message was
\* accepted finds it in the child's queue.
THEOREM AnswersHold == Spec => []DefiniteAnswer
<1>1. MessageSafety => DefiniteAnswer
  BY DEF MessageSafety
<1> QED
  BY <1>1, MessageSafetyHolds, PTL

\* CleanDrainHolds: the runner is told that the drain is clean, and a child finishes with
\* its own result, only when every message of the generation has a definite answer.
THEOREM CleanDrainHolds == Spec => []CleanIsSettled
<1>1. MessageSafety => CleanIsSettled
  BY DEF MessageSafety
<1> QED
  BY <1>1, MessageSafetyHolds, PTL

\* UncertaintyHolds: the answer that admits uncertainty is given only when the host had
\* claimed the lease.
THEOREM UncertaintyHolds == Spec => []UncertaintyJustified
<1>1. MessageSafety => UncertaintyJustified
  BY DEF MessageSafety
<1> QED
  BY <1>1, MessageSafetyHolds, PTL

\* UncleanHolds: a result is turned into a cancelled one only for an uncertain message of
\* the same generation.
THEOREM UncleanHolds == Spec => []UncleanJustified
<1>1. MessageSafety => UncleanJustified
  BY DEF MessageSafety
<1> QED
  BY <1>1, MessageSafetyHolds, PTL

\* CountHolds: in_flight counts the messages in flight and stays within its limit.
THEOREM CountHolds == Spec => []InFlightCounted
<1>1. MessageSafety => InFlightCounted
  BY DEF MessageSafety
<1> QED
  BY <1>1, MessageSafetyHolds, PTL

\* FinalHolds: nothing is inserted after a clean drain, since each message of the
\* generation has its answer and its lease is committed or revoked.
THEOREM FinalHolds == Spec => FinalIsFinal
<1>1. MessageSafety /\ [Next]_vars => [NoInsertAfterClean]_vars
  <2> SUFFICES ASSUME MessageSafety, Next, NEW m \in Messages, ~inserted[m], inserted'[m],
                      mgen[m] = gen[target[m]], told[target[m]] = "clean"
               PROVE FALSE
    BY DEF NoInsertAfterClean
  <2>1. HostInsert(m)
    <3>1. inserted' # inserted
      OBVIOUS
    <3>2. \E x \in Messages : HostInsert(x)
      BY <3>1 DEF Next, Send, Receive, ReceiveAdmit, ReceiveRefuse, ReceiveWake, HostStep,
                  HostClaim, HostCommit, HostAdmitted, HostGivesUp, Complete, CompleteAs,
                  ChildStep, Started, GoLive, Finalizing, FinalizingTimeout, RunEnded,
                  StartFailed, Cancel, ActorDrop, messageVars
    <3> QED
      BY <3>2 DEF HostInsert, MessageSafety, TypeOK
  <2>2. target[m] \in Children /\ m \in AdmittedTo(target[m])
    BY <2>1 DEF MessageSafety, TypeOK, AdmittedTo, HostInsert
  <2>3. outcome[m] \in Refusals \union {"Accepted"}
    BY <2>2 DEF MessageSafety, CleanIsSettled
  <2> QED
    BY <2>1, <2>3 DEF MessageSafety, DefiniteAnswer, HostInsert
<1> QED
  BY <1>1, MessageSafetyHolds, PTL DEF Spec, FinalIsFinal
=============================================================================
