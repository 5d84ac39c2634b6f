--------------------- MODULE NotificationConsumerProofs ---------------------
(***************************************************************************)
(* Theorems about NotificationConsumer for every set of events and         *)
(* replicas, every assignment of kinds, every bound and every set of       *)
(* faults, checked by TLAPS.                                               *)
(***************************************************************************)
EXTENDS NotificationConsumer, SequenceTheorems, TLAPS

----------------------------------------------------------------------------
(* What the operations on an inbox do to its elements.                     *)

\* Pushing a delivery: consume() buffers it behind the others.
LEMMA PushElements ==
  ASSUME NEW s \in Seq(Delivery), NEW d \in Delivery
  PROVE  /\ Append(s, d) \in Seq(Delivery)
         /\ \A x : ElementOf(x, Append(s, d)) <=> ElementOf(x, s) \/ x = d
<1>1. /\ Append(s, d) \in Seq(Delivery) /\ Len(s) \in Nat
      /\ Len(Append(s, d)) = Len(s) + 1
      /\ \A i \in 1..Len(s) : Append(s, d)[i] = s[i]
      /\ Append(s, d)[Len(s) + 1] = d
  BY AppendProperties, LenProperties
<1>2. ASSUME NEW x PROVE ElementOf(x, Append(s, d)) <=> ElementOf(x, s) \/ x = d
  <2>1. ElementOf(x, Append(s, d)) => ElementOf(x, s) \/ x = d
    BY <1>1 DEF ElementOf
  <2>2. ElementOf(x, s) \/ x = d => ElementOf(x, Append(s, d))
    BY <1>1 DEF ElementOf
  <2> QED BY <2>1, <2>2
<1> QED BY <1>1, <1>2

\* Yielding the first delivery.
LEMMA YieldElements ==
  ASSUME NEW s \in Seq(Delivery), s # <<>>
  PROVE  /\ Head(s) \in Delivery
         /\ Tail(s) \in Seq(Delivery)
         /\ ElementOf(Head(s), s)
         /\ \A x : ElementOf(x, s) <=> ElementOf(x, Tail(s)) \/ x = Head(s)
<1>1. Head(s) \in Delivery /\ Tail(s) \in Seq(Delivery) /\ Len(s) \in Nat \ {0}
      /\ Head(s) = s[1] /\ Len(Tail(s)) = Len(s) - 1
      /\ \A i \in 1..Len(Tail(s)) : Tail(s)[i] = s[i+1]
  BY HeadTailProperties, EmptySeq
<1>2. ElementOf(Head(s), s)
  BY <1>1 DEF ElementOf
<1>3. ASSUME NEW x PROVE ElementOf(x, s) <=> ElementOf(x, Tail(s)) \/ x = Head(s)
  <2>1. ElementOf(x, Tail(s)) \/ x = Head(s) => ElementOf(x, s)
    BY <1>1, <1>2 DEF ElementOf
  <2>2. ASSUME NEW i \in 1..Len(s), s[i] = x
        PROVE  ElementOf(x, Tail(s)) \/ x = Head(s)
    <3>1. CASE i = 1
      BY <1>1, <2>2, <3>1
    <3>2. CASE i > 1
      <4>1. i - 1 \in 1..Len(Tail(s)) /\ Tail(s)[i - 1] = s[i]
        BY <1>1, <3>2
      <4> QED BY <4>1, <2>2 DEF ElementOf
    <3> QED BY <1>1, <3>1, <3>2
  <2> QED BY <2>1, <2>2 DEF ElementOf
<1> QED BY <1>1, <1>2, <1>3

\* Keeping a prefix, when the iterator dies.
LEMMA PrefixElements ==
  ASSUME NEW s \in Seq(Delivery), NEW n \in 0..Len(s)
  PROVE  /\ SubSeq(s, 1, n) \in Seq(Delivery)
         /\ \A x : ElementOf(x, SubSeq(s, 1, n)) => ElementOf(x, s)
<1>1. Len(s) \in Nat /\ \A i \in 1..n : s[i] \in Delivery
  BY LenProperties, ElementOfSeq
<1>2. SubSeq(s, 1, n) \in Seq(Delivery)
      /\ Len(SubSeq(s, 1, n)) = n
      /\ \A i \in 1..n : SubSeq(s, 1, n)[i] = s[i]
  BY <1>1, SubSeqProperties
<1> QED BY <1>1, <1>2 DEF ElementOf

----------------------------------------------------------------------------
(* Types.                                                                  *)

\* An event that waits for a delivery has deliveries left and an exhausted one has
\* none, and a replica in the middle of process(), and no other, has a delivery.
PhaseMatchesCount ==
    \A e \in Event :
        /\ phase[e] = "absent" => deliveries[e] = 0
        /\ phase[e] = "ready" => deliveries[e] < MaxDeliveries
        /\ phase[e] = "exhausted" => deliveries[e] = MaxDeliveries

BusyHasDelivery ==
    \A r \in Replica :
        IF pc[r] \in {"down", "idle"} THEN cur[r] = None ELSE cur[r] \in Delivery

TypeInv == TypeOK /\ PhaseMatchesCount /\ BusyHasDelivery

LEMMA TypeInit == Init => TypeInv
BY MaxDeliveriesAssumption, BoundsAssumption, EmptySeq
   DEF Init, BrokerInit, TypeInv, TypeOK, BrokerTypeOK, PhaseMatchesCount,
       BusyHasDelivery, Phases

\* What a settlement on its way does to the types.
LEMMA SendTypes ==
  ASSUME TypeInv, NEW v \in Verdicts, NEW d \in Delivery, Send(v, d)
  PROVE  BrokerTypeOK' /\ PhaseMatchesCount'
BY DEF TypeInv, TypeOK, BrokerTypeOK, PhaseMatchesCount, Send, Settlement

LEMMA TypeBroker == TypeInv /\ BrokerStep => TypeInv'
<1> SUFFICES ASSUME TypeInv, BrokerStep PROVE TypeInv'
  OBVIOUS
<1> USE MaxDeliveriesAssumption
<1> USE DEF TypeInv, TypeOK, BrokerTypeOK, PhaseMatchesCount, BusyHasDelivery,
            replicaVars, storeVars, faultVars, NoFault, Phases
<1>1. ASSUME NEW e \in Event, Publish(e) PROVE TypeInv'
  BY <1>1 DEF Publish, Store
<1>2. ASSUME NEW e \in Event, AckWait(e) PROVE TypeInv'
  <2>1. faultsLeft' \in 0..MaxFaults /\ faulted' \subseteq Faults
    BY <1>2, BoundsAssumption DEF AckWait, Fault
  <2> QED BY <1>2, <2>1 DEF AckWait, AckWaitExpires, AfterFailure
<1>3. ASSUME NEW r \in Replica, NEW e \in Event, Deliver(r, e) PROVE TypeInv'
  <2>1. NextDelivery(e) \in Delivery
    BY <1>3 DEF Deliver, Dispatch, NextDelivery, Delivery
  <2>2. inbox' \in [Replica -> Seq(Delivery)]
    BY <1>3, <2>1, PushElements DEF Deliver
  <2> QED BY <1>3, <2>2 DEF Deliver, Dispatch
<1>4. ASSUME NEW s \in wire, BrokerReceives(s) PROVE TypeInv'
  <2>1. s.delivery.event \in Event
    BY DEF Settlement, Delivery
  <2>2. phase' \in [Event -> Phases] /\ PhaseMatchesCount'
    BY <1>4, <2>1 DEF BrokerReceives, ReceiveSettlement, AfterFailure, Outstanding,
                      Settlement, Verdicts
  <2> QED BY <1>4, <2>2 DEF BrokerReceives, ReceiveSettlement
<1>5. ASSUME NEW s \in wire, BrokerIgnores(s) PROVE TypeInv'
  BY <1>5 DEF BrokerIgnores, DropSettlement
<1>6. ASSUME NEW s \in wire, SettlementLost(s) PROVE TypeInv'
  BY <1>6, BoundsAssumption DEF SettlementLost, DropSettlement, Fault
<1> QED BY <1>1, <1>2, <1>3, <1>4, <1>5, <1>6 DEF BrokerStep

\* process() returning with a settlement on the wire.
LEMMA SendReturnTypes ==
  ASSUME TypeInv, NEW r \in Replica, NEW v \in Verdicts,
         pc[r] \notin {"down", "idle"}, Send(v, cur[r]), Return(r)
  PROVE  BrokerTypeOK' /\ PhaseMatchesCount' /\ BusyHasDelivery'
         /\ pc' \in [Replica -> {"down", "idle", "lookup", "handle", "record",
                                 "ack", "deadLetter", "term"}]
         /\ cur' \in [Replica -> Delivery \union {None}]
         /\ open' = open /\ inbox' = inbox
<1>1. cur[r] \in Delivery
  BY DEF TypeInv, BusyHasDelivery
<1>2. BrokerTypeOK' /\ PhaseMatchesCount'
  BY <1>1, SendTypes
<1> QED BY <1>2 DEF TypeInv, TypeOK, BusyHasDelivery, Return, Goto

LEMMA TypeReplica ==
  ASSUME NEW r \in Replica, TypeInv, Proceed(r) \/ Fail(r)
  PROVE  TypeInv'
<1> USE DEF TypeInv, TypeOK, BusyHasDelivery, storeVars, faultVars, NoFault
<1>a. brokerVars' = brokerVars => BrokerTypeOK' /\ PhaseMatchesCount'
  BY DEF brokerVars, BrokerTypeOK, PhaseMatchesCount
<1>b. ASSUME NEW k, Fault(k) PROVE faultsLeft' \in 0..MaxFaults /\ faulted' \subseteq Faults
  BY <1>b, BoundsAssumption DEF Fault
<1>c. \A d \in Delivery : d.event \in Event
  BY DEF Delivery
<1>d. \A i \in Replica : cur[i] \in Delivery \union {None}
  OBVIOUS
<1>1. CASE Start(r)
  BY <1>1, <1>a DEF Start
<1>2. CASE Consume(r)
  BY <1>2, <1>a DEF Consume
<1>3. CASE TakeMalformed(r)
  BY <1>3, <1>a, YieldElements DEF TakeMalformed, Yield, Goto
<1>4. CASE TakeUnknown(r)
  <2>1. inbox[r] \in Seq(Delivery) /\ inbox[r] # <<>>
    BY <1>4 DEF TakeUnknown, Yield
  <2>2. Head(inbox[r]) \in Delivery /\ Tail(inbox[r]) \in Seq(Delivery)
    BY <2>1, YieldElements
  <2>3. BrokerTypeOK' /\ PhaseMatchesCount'
    BY <1>4, <2>2, SendTypes DEF TakeUnknown, Verdicts
  <2> QED BY <1>4, <2>2, <2>3 DEF TakeUnknown, Yield
<1>5. CASE TakeValid(r)
  BY <1>5, <1>a, YieldElements DEF TakeValid, Yield, Goto
<1>6. CASE LookupHit(r)
  BY <1>6, SendReturnTypes DEF LookupHit, Verdicts
<1>7. CASE LookupMiss(r)
  BY <1>7, <1>a DEF LookupMiss, Goto
<1>8. CASE CreateNotification(r)
  BY <1>8, <1>a DEF CreateNotification, WriteNotification, Goto
<1>9. CASE RecordEvent(r)
  BY <1>9, <1>a, <1>c DEF RecordEvent, WriteLedger, Goto
<1>10. CASE Ack(r)
  BY <1>10, SendReturnTypes DEF Ack, Verdicts
<1>11. CASE DeadLetter(r)
  BY <1>11, <1>a, <1>c DEF DeadLetter, Goto
<1>12. CASE Term(r)
  BY <1>12, SendReturnTypes DEF Term, Verdicts
<1>13. CASE Crash(r)
  BY <1>13, <1>a, <1>b, EmptySeq DEF Crash
<1>14. CASE Disconnect(r)
  BY <1>14, <1>a, <1>b, PrefixElements DEF Disconnect
<1>15. CASE LookupFails(r)
  BY <1>15, <1>a, <1>b DEF LookupFails, Return, Goto
<1>e. ASSUME HandlerThrew(r), pc[r] = "handle"
      PROVE  BrokerTypeOK' /\ PhaseMatchesCount' /\ BusyHasDelivery'
             /\ pc' \in [Replica -> {"down", "idle", "lookup", "handle", "record",
                                     "ack", "deadLetter", "term"}]
             /\ cur' \in [Replica -> Delivery \union {None}]
             /\ open' = open /\ inbox' = inbox
  <2>1. CASE FinalAttempt(cur[r])
    BY <1>e, <2>1, <1>a DEF HandlerThrew, Goto
  <2>2. CASE ~FinalAttempt(cur[r])
    BY <1>e, <2>2, SendReturnTypes DEF HandlerThrew, Verdicts
  <2> QED BY <2>1, <2>2
<1>16. CASE CreateFails(r)
  BY <1>16, <1>b, <1>e DEF CreateFails
<1>17. CASE CreateTimesOut(r)
  BY <1>17, <1>b, <1>e DEF CreateTimesOut, WriteNotification
<1>18. CASE RecordFails(r)
  BY <1>18, <1>b, SendReturnTypes DEF RecordFails, Verdicts
<1>19. CASE RecordTimesOut(r)
  BY <1>19, <1>b, <1>c, SendReturnTypes DEF RecordTimesOut, WriteLedger, Verdicts
<1>20. CASE DeadLetterFails(r)
  BY <1>20, <1>a, <1>b DEF DeadLetterFails, Goto
<1> QED BY <1>1, <1>2, <1>3, <1>4, <1>5, <1>6, <1>7, <1>8, <1>9, <1>10, <1>11, <1>12,
           <1>13, <1>14, <1>15, <1>16, <1>17, <1>18, <1>19, <1>20 DEF Proceed, Fail

LEMMA TypeStep == TypeInv /\ [Next]_vars => TypeInv'
<1>1. ASSUME TypeInv, UNCHANGED vars PROVE TypeInv'
  BY <1>1 DEF TypeInv, TypeOK, BrokerTypeOK, PhaseMatchesCount, BusyHasDelivery,
              vars, brokerVars, replicaVars, storeVars, faultVars
<1> QED BY <1>1, TypeBroker, TypeReplica DEF Next

\* The variables keep their types in every instance.
THEOREM TypeCorrect == SafeSpec => []TypeOK
<1>1. SafeSpec => []TypeInv
  BY TypeInit, TypeStep, PTL DEF SafeSpec
<1>2. TypeInv => TypeOK
  BY DEF TypeInv
<1> QED BY <1>1, <1>2, PTL

----------------------------------------------------------------------------
(* What an acknowledgement, a term and a ledger row mean.                  *)

\* A delivery that may be terminated.
Hopeless(d) ==
    Malformed(d.event) \/ (Valid(d.event) /\ d.count = MaxDeliveries)

\* What process() knows at each of its calls.
WorkInv ==
    \A r \in Replica :
        /\ pc[r] \in {"lookup", "handle", "record", "ack"} => Valid(cur[r].event)
        /\ pc[r] \in {"deadLetter", "term"} => Hopeless(cur[r])
        /\ pc[r] = "record" => Notified(cur[r].event)
        /\ pc[r] = "ack" => cur[r].event \in ledger

\* What a settlement on its way says of its event.
WireInv ==
    \A s \in wire :
        /\ s.verdict = "ack" =>
              Kind[s.delivery.event] = "unknownType" \/ s.delivery.event \in ledger
        /\ s.verdict = "term" => Hopeless(s.delivery)

\* No delivery is ahead of the broker's count of its event.
Counted(d) == d.count <= deliveries[d.event]

CountInv ==
    /\ \A r \in Replica : pc[r] \notin {"down", "idle"} => Counted(cur[r])
    /\ \A r \in Replica : \A d \in Delivery : ElementOf(d, inbox[r]) => Counted(d)
    /\ \A s \in wire : Counted(s.delivery)

SafeInv ==
    /\ WorkInv /\ WireInv /\ CountInv
    /\ LedgerMeansNotified /\ AckedMeansPersisted /\ TermMeansHopeless

LEMMA SafeInit == Init => SafeInv
BY DEF Init, BrokerInit, SafeInv, WorkInv, WireInv, CountInv, LedgerMeansNotified,
       AckedMeansPersisted, TermMeansHopeless, ElementOf

LEMMA SafeBroker == TypeInv /\ SafeInv /\ BrokerStep => SafeInv'
<1> SUFFICES ASSUME TypeInv, SafeInv, BrokerStep PROVE SafeInv'
  OBVIOUS
<1> USE DEF TypeInv, TypeOK, BrokerTypeOK, SafeInv, WorkInv, WireInv, CountInv, Counted,
            LedgerMeansNotified, AckedMeansPersisted, TermMeansHopeless, Hopeless,
            Notified, replicaVars, storeVars, Delivery, Settlement
<1>1. ASSUME NEW e \in Event, Publish(e) PROVE SafeInv'
  BY <1>1 DEF Publish, Store
<1>2. ASSUME NEW e \in Event, AckWait(e) PROVE SafeInv'
  BY <1>2 DEF AckWait, AckWaitExpires, AfterFailure
<1>3. ASSUME NEW r \in Replica, NEW e \in Event, Deliver(r, e) PROVE SafeInv'
  <2>1. NextDelivery(e) \in Delivery /\ deliveries'[e] = NextDelivery(e).count
    BY <1>3, MaxDeliveriesAssumption
       DEF PhaseMatchesCount, Deliver, Dispatch, NextDelivery
  <2>2. \A f \in Event : deliveries[f] <= deliveries'[f]
    BY <1>3 DEF Deliver, Dispatch
  <2>3. ASSUME NEW d, ElementOf(d, inbox[r])' PROVE ElementOf(d, inbox[r]) \/ d = NextDelivery(e)
    BY <1>3, <2>1, <2>3, PushElements DEF Deliver
  <2>4. \A i \in Replica \ {r} : inbox'[i] = inbox[i]
    BY <1>3 DEF Deliver
  <2>5. CountInv'
    <3>1. ASSUME NEW d \in Delivery, Counted(d) PROVE Counted(d)'
      <4>1. /\ d.event \in Event /\ d.count \in Nat
            /\ deliveries[d.event] \in Nat /\ deliveries'[d.event] \in Nat
        BY <1>3, MaxDeliveriesAssumption DEF Deliver, Dispatch
      <4> QED BY <2>2, <3>1, <4>1
    <3>2. ASSUME NEW i \in Replica, NEW d \in Delivery, ElementOf(d, inbox[i])'
          PROVE  Counted(d)'
      <4>1. CASE d = NextDelivery(e)
        BY <2>1, <4>1 DEF NextDelivery
      <4>2. CASE ElementOf(d, inbox[i])
        BY <3>1, <4>2
      <4> QED BY <2>3, <2>4, <3>2, <4>1, <4>2
    <3> QED BY <1>3, <3>1, <3>2 DEF Deliver, Dispatch, BusyHasDelivery
  <2> QED BY <1>3, <2>5 DEF Deliver, Dispatch
<1>4. ASSUME NEW s \in wire, BrokerReceives(s) PROVE SafeInv'
  <2> DEFINE e == s.delivery.event
  <2>1. e \in Event /\ s.delivery.count \in 1..MaxDeliveries
    OBVIOUS
  <2>2. \A f \in Event \ {e} : phase'[f] = phase[f]
    BY <1>4 DEF BrokerReceives, ReceiveSettlement
  <2>3. AckedMeansPersisted' /\ TermMeansHopeless'
    <3>1. CASE s.verdict = "ack"
      BY <1>4, <2>1, <2>2, <3>1 DEF BrokerReceives, ReceiveSettlement
    <3>2. CASE s.verdict = "term"
      BY <1>4, <2>1, <2>2, <3>2, MaxDeliveriesAssumption
         DEF BrokerReceives, ReceiveSettlement
    <3>3. CASE s.verdict = "nak"
      BY <1>4, <2>1, <2>2, <3>3 DEF BrokerReceives, ReceiveSettlement, AfterFailure
    <3> QED BY <3>1, <3>2, <3>3 DEF Verdicts
  <2> QED BY <1>4, <2>3 DEF BrokerReceives, ReceiveSettlement
<1>5. ASSUME NEW s \in wire, BrokerIgnores(s) PROVE SafeInv'
  BY <1>5 DEF BrokerIgnores, DropSettlement
<1>6. ASSUME NEW s \in wire, SettlementLost(s) PROVE SafeInv'
  BY <1>6 DEF SettlementLost, DropSettlement
<1> QED BY <1>1, <1>2, <1>3, <1>4, <1>5, <1>6 DEF BrokerStep

\* A kind is one thing only.
LEMMA KindsDiffer ==
  ASSUME NEW e \in Event
  PROVE  /\ Valid(e) => ~Malformed(e) /\ Kind[e] # "unknownType"
         /\ Malformed(e) => Kind[e] # "unknownType"
BY DEF Valid, Malformed, Malformation

\* process() returning with a settlement that is justified, having added rows at
\* most.
LEMMA SendReturnSafe ==
  ASSUME TypeInv, SafeInv, NEW r \in Replica, NEW v \in Verdicts,
         pc[r] \notin {"down", "idle"}, Send(v, cur[r]), Return(r),
         ledger \subseteq ledger', notifications \subseteq notifications',
         v = "ack" => cur[r].event \in ledger,
         v = "term" => Hopeless(cur[r])
  PROVE  WorkInv' /\ WireInv' /\ CountInv' /\ AckedMeansPersisted' /\ TermMeansHopeless'
<1> USE DEF TypeInv, TypeOK, BusyHasDelivery, SafeInv, Send, Return, Goto
<1>1. WorkInv'
  BY DEF WorkInv, Hopeless, Notified
<1>2. ASSUME NEW s \in wire'
      PROVE  s \in wire \/ (s.verdict = v /\ s.delivery = cur[r])
  OBVIOUS
<1>3. WireInv'
  BY <1>2 DEF WireInv, Hopeless
<1>4. CountInv'
  BY <1>2 DEF CountInv, Counted
<1>5. AckedMeansPersisted' /\ TermMeansHopeless'
  BY DEF AckedMeansPersisted, TermMeansHopeless, Notified
<1> QED BY <1>1, <1>3, <1>4, <1>5

LEMMA SafeReplica ==
  ASSUME NEW r \in Replica, TypeInv, SafeInv, Proceed(r) \/ Fail(r)
  PROVE  SafeInv'
<1> USE DEF TypeInv, TypeOK, BusyHasDelivery, BrokerTypeOK, SafeInv, WorkInv, WireInv,
            CountInv, Counted, LedgerMeansNotified, AckedMeansPersisted, TermMeansHopeless,
            Hopeless, Notified, brokerVars, storeVars, Goto, Return, Send
<1>a. \A d \in Delivery : d.event \in Event
  BY DEF Delivery
<1>1. CASE Start(r)
  BY <1>1 DEF Start
<1>2. CASE Consume(r)
  BY <1>2 DEF Consume
<1>3. CASE TakeMalformed(r)
  BY <1>3, YieldElements DEF TakeMalformed, Yield, Malformed
<1>4. CASE TakeUnknown(r)
  BY <1>4, YieldElements DEF TakeUnknown, Yield
<1>5. CASE TakeValid(r)
  BY <1>5, YieldElements DEF TakeValid, Yield, Valid
<1>6. CASE LookupHit(r)
  BY <1>6, SendReturnSafe DEF LookupHit, Verdicts
<1>7. CASE LookupMiss(r)
  BY <1>7 DEF LookupMiss
<1>8. CASE CreateNotification(r)
  BY <1>8 DEF CreateNotification, WriteNotification
<1>9. CASE RecordEvent(r)
  BY <1>9 DEF RecordEvent, WriteLedger
<1>10. CASE Ack(r)
  BY <1>10, SendReturnSafe DEF Ack, Verdicts
<1>11. CASE DeadLetter(r)
  BY <1>11 DEF DeadLetter
<1>12. CASE Term(r)
  BY <1>12, SendReturnSafe DEF Term, Verdicts
<1>13. CASE Crash(r)
  BY <1>13 DEF Crash, ElementOf
<1>14. CASE Disconnect(r)
  BY <1>14, PrefixElements DEF Disconnect
<1>15. CASE LookupFails(r)
  BY <1>15 DEF LookupFails
<1>b. ASSUME HandlerThrew(r), pc[r] = "handle", ledger' = ledger,
             notifications \subseteq notifications'
      PROVE  SafeInv'
  <2>1. cur[r].count \in 1..MaxDeliveries
    BY <1>b DEF Delivery
  <2>2. CASE FinalAttempt(cur[r])
    <3>1. cur[r].count = MaxDeliveries
      BY <2>1, <2>2, MaxDeliveriesAssumption DEF FinalAttempt
    <3>2. /\ pc' = [pc EXCEPT ![r] = "deadLetter"]
          /\ UNCHANGED <<brokerVars, cur, open, inbox>>
      BY <1>b, <2>2 DEF HandlerThrew
    <3>3. Valid(cur[r].event)
      BY <1>b
    <3>4. WorkInv'
      BY <1>b, <3>1, <3>2, <3>3
    <3> QED BY <1>b, <3>2, <3>4
  <2>3. CASE ~FinalAttempt(cur[r])
    <3>1. WorkInv' /\ WireInv' /\ CountInv' /\ AckedMeansPersisted' /\ TermMeansHopeless'
      BY <1>b, <2>3, SendReturnSafe DEF HandlerThrew, Verdicts
    <3> QED BY <1>b, <3>1
  <2> QED BY <2>2, <2>3
<1>16. CASE CreateFails(r)
  BY <1>16, <1>b DEF CreateFails
<1>17. CASE CreateTimesOut(r)
  BY <1>17, <1>b DEF CreateTimesOut, WriteNotification
<1>18. CASE RecordFails(r)
  BY <1>18, SendReturnSafe DEF RecordFails, Verdicts
<1>19. CASE RecordTimesOut(r)
  <2>1. LedgerMeansNotified'
    BY <1>19 DEF RecordTimesOut, WriteLedger
  <2> QED BY <1>19, <2>1, SendReturnSafe DEF RecordTimesOut, WriteLedger, Verdicts
<1>20. CASE DeadLetterFails(r)
  BY <1>20 DEF DeadLetterFails
<1> QED BY <1>1, <1>2, <1>3, <1>4, <1>5, <1>6, <1>7, <1>8, <1>9, <1>10, <1>11, <1>12,
           <1>13, <1>14, <1>15, <1>16, <1>17, <1>18, <1>19, <1>20 DEF Proceed, Fail

LEMMA SafeStep == TypeInv /\ SafeInv /\ [Next]_vars => SafeInv'
<1>1. ASSUME SafeInv, UNCHANGED vars PROVE SafeInv'
  BY <1>1 DEF SafeInv, WorkInv, WireInv, CountInv, Counted, Hopeless, Notified,
              LedgerMeansNotified, AckedMeansPersisted, TermMeansHopeless,
              vars, brokerVars, replicaVars, storeVars
<1> QED BY <1>1, SafeBroker, SafeReplica DEF Next

LEMMA SafeInvariant == SafeSpec => [](TypeInv /\ SafeInv)
<1>1. Init => TypeInv /\ SafeInv
  BY TypeInit, SafeInit
<1>2. TypeInv /\ SafeInv /\ [Next]_vars => (TypeInv /\ SafeInv)'
  BY TypeStep, SafeStep
<1> QED BY <1>1, <1>2, PTL DEF SafeSpec

\* A ledger row, on whose word a redelivery is dropped, stands for a notification.
THEOREM LedgerIsTruthful == SafeSpec => []LedgerMeansNotified
<1>1. SafeInv => LedgerMeansNotified
  BY DEF SafeInv
<1> QED BY <1>1, SafeInvariant, PTL

\* An acknowledged event is persisted: consumer.js sends an ack only behind the
\* ledger row, and the row stands for a notification.
THEOREM AckedIsPersisted == SafeSpec => []AckedMeansPersisted
<1>1. SafeInv => AckedMeansPersisted
  BY DEF SafeInv
<1> QED BY <1>1, SafeInvariant, PTL

\* No retry is given up: a terminated event is malformed or had its last delivery.
THEOREM TermIsHopeless == SafeSpec => []TermMeansHopeless
<1>1. SafeInv => TermMeansHopeless
  BY DEF SafeInv
<1> QED BY <1>1, SafeInvariant, PTL

----------------------------------------------------------------------------
(* Nothing is dropped silently.                                            *)

Losing == {"crash", "disconnect", "lookupFails", "deadLetterFails"}

\* A replica is handling delivery d, or has it in its inbox.
Owned(d) == \E r \in Replica : cur[r] = d \/ ElementOf(d, inbox[r])

HasTrace(e) == Notified(e) \/ e \in deadLetters

\* After its last delivery a well-formed event has left a trace unless a replica
\* owns that delivery; and a replica terminates it behind the dead-letter copy.
TraceInv ==
    DEAD_LETTER \in StreamSubjects /\ Without(Losing) =>
        /\ \A e \in Event : Valid(e) /\ deliveries[e] = MaxDeliveries =>
              HasTrace(e) \/ Owned(CurrentDelivery(e))
        /\ \A r \in Replica :
              pc[r] = "term" /\ Valid(cur[r].event) => cur[r].event \in deadLetters

LEMMA TraceInit == Init => TraceInv
BY MaxDeliveriesAssumption DEF Init, BrokerInit, TraceInv

\* Steps that leave owners and counts alone keep the traces.
LEMMA TraceKept ==
  ASSUME TypeInv, TraceInv, faulted \subseteq faulted',
         deliveries' = deliveries, cur' = cur, inbox' = inbox,
         notifications \subseteq notifications', deadLetters \subseteq deadLetters',
         \A r \in Replica : pc'[r] = "term" => pc[r] = "term"
  PROVE  TraceInv'
BY DEF TraceInv, Without, HasTrace, Notified, Owned, CurrentDelivery

LEMMA TraceBroker == TypeInv /\ TraceInv /\ BrokerStep => TraceInv'
<1> SUFFICES ASSUME TypeInv, TraceInv, BrokerStep PROVE TraceInv'
  OBVIOUS
<1> USE DEF replicaVars, storeVars, faultVars, NoFault
<1>1. ASSUME NEW e \in Event, Publish(e) PROVE TraceInv'
  BY <1>1, TraceKept DEF Publish, Store
<1>2. ASSUME NEW e \in Event, AckWait(e) PROVE TraceInv'
  BY <1>2, TraceKept DEF AckWait, AckWaitExpires, Fault
<1>3. ASSUME NEW r \in Replica, NEW e \in Event, Deliver(r, e) PROVE TraceInv'
  <2> USE DEF TypeInv, TypeOK, BrokerTypeOK
  <2>0. deliveries[e] + 1 \in 1..MaxDeliveries /\ deliveries'[e] = deliveries[e] + 1
    BY <1>3, MaxDeliveriesAssumption DEF PhaseMatchesCount, Deliver, Dispatch
  <2>1. /\ NextDelivery(e) \in Delivery
        /\ CurrentDelivery(e)' = NextDelivery(e)
        /\ \A i \in Replica : inbox[i] \in Seq(Delivery)
        /\ inbox'[r] = Append(inbox[r], NextDelivery(e))
        /\ \A i \in Replica \ {r} : inbox'[i] = inbox[i]
    BY <1>3, <2>0 DEF Deliver, NextDelivery, CurrentDelivery, Delivery
  <2>2. Owned(CurrentDelivery(e))'
    <3>1. ElementOf(NextDelivery(e), inbox'[r])
      BY <2>1, PushElements
    <3> QED BY <2>1, <3>1 DEF Owned
  <2>3. ASSUME NEW f \in Event \ {e}, Owned(CurrentDelivery(f))
        PROVE  Owned(CurrentDelivery(f))'
    <3>1. CurrentDelivery(f)' = CurrentDelivery(f)
      BY <1>3 DEF Deliver, Dispatch, CurrentDelivery
    <3>2. PICK i \in Replica : cur[i] = CurrentDelivery(f)
                                \/ ElementOf(CurrentDelivery(f), inbox[i])
      BY <2>3 DEF Owned
    <3>3. cur'[i] = CurrentDelivery(f) \/ ElementOf(CurrentDelivery(f), inbox'[i])
      <4>1. CASE i = r
        BY <1>3, <2>1, <3>2, <4>1, PushElements DEF Deliver
      <4>2. CASE i # r
        BY <1>3, <2>1, <3>2, <4>2 DEF Deliver
      <4> QED BY <4>1, <4>2
    <3> QED BY <3>1, <3>3 DEF Owned
  <2>4. \A f \in Event \ {e} : deliveries'[f] = deliveries[f]
    BY <1>3 DEF Deliver, Dispatch
  <2> QED BY <1>3, <2>2, <2>3, <2>4 DEF TraceInv, Without, HasTrace, Notified, Deliver
<1>4. ASSUME NEW s \in wire, BrokerReceives(s) PROVE TraceInv'
  BY <1>4, TraceKept DEF BrokerReceives, ReceiveSettlement
<1>5. ASSUME NEW s \in wire, BrokerIgnores(s) PROVE TraceInv'
  BY <1>5, TraceKept DEF BrokerIgnores, DropSettlement
<1>6. ASSUME NEW s \in wire, SettlementLost(s) PROVE TraceInv'
  BY <1>6, TraceKept DEF SettlementLost, DropSettlement, Fault
<1> QED BY <1>1, <1>2, <1>3, <1>4, <1>5, <1>6 DEF BrokerStep

\* A replica that takes its next delivery still owns it.
LEMMA TraceTaken ==
  ASSUME TypeInv, TraceInv, NEW r \in Replica, pc[r] = "idle", inbox[r] # <<>>,
         inbox' = [inbox EXCEPT ![r] = Tail(@)],
         \/ cur' = [cur EXCEPT ![r] = Head(inbox[r])]
         \/ cur' = cur /\ ~Valid(Head(inbox[r]).event),
         deliveries' = deliveries, notifications' = notifications,
         deadLetters' = deadLetters, faulted' = faulted,
         \A i \in Replica : pc'[i] = "term" => pc[i] = "term"
  PROVE  TraceInv'
<1> USE DEF TypeInv, TypeOK
<1>1. inbox[r] \in Seq(Delivery) /\ cur[r] = None
  BY DEF BusyHasDelivery
<1>2. ASSUME NEW e \in Event, deliveries[e] = MaxDeliveries, Valid(e),
             Owned(CurrentDelivery(e))
      PROVE  Owned(CurrentDelivery(e))'
  <2> DEFINE d == CurrentDelivery(e)
  <2>1. PICK i \in Replica : cur[i] = d \/ ElementOf(d, inbox[i])
    BY <1>2 DEF Owned
  <2>2. CurrentDelivery(e)' = d /\ d # None /\ d.event = e
    BY <1>2, MaxDeliveriesAssumption DEF CurrentDelivery, None
  <2>3. CASE i # r
    BY <2>1, <2>2, <2>3 DEF Owned
  <2>4. CASE i = r
    <3>1. ElementOf(d, inbox[r])
      BY <1>1, <2>1, <2>2, <2>4
    <3>2. CASE d = Head(inbox[r])
      BY <1>2, <2>2, <3>2 DEF Owned
    <3>3. CASE d # Head(inbox[r])
      <4>1. ElementOf(d, inbox'[r])
        BY <1>1, <3>1, <3>3, YieldElements
      <4> QED BY <2>2, <4>1 DEF Owned
    <3> QED BY <3>2, <3>3
  <2> QED BY <2>3, <2>4
<1>3. \A i \in Replica : pc'[i] = "term" /\ Valid(cur'[i].event) =>
         pc[i] = "term" /\ cur'[i] = cur[i]
  <2>1. \A i \in Replica : pc'[i] = "term" => i # r
    OBVIOUS
  <2> QED BY <2>1
<1> QED BY <1>2, <1>3 DEF TraceInv, Without, HasTrace, Notified

\* A replica may let go of a delivery that is not its event's last, or whose
\* event has left a trace.
LEMMA TraceReleased ==
  ASSUME TypeInv, TraceInv, NEW r \in Replica, pc[r] \notin {"down", "idle"}, Return(r),
         deliveries' = deliveries, notifications \subseteq notifications',
         deadLetters \subseteq deadLetters', faulted \subseteq faulted',
         \/ ~Valid(cur[r].event)
         \/ ~FinalAttempt(cur[r])
         \/ DEAD_LETTER \in StreamSubjects /\ Without(Losing)' => HasTrace(cur[r].event)
  PROVE  TraceInv'
<1> USE DEF TypeInv, TypeOK
<1>1. ASSUME NEW e \in Event, deliveries[e] = MaxDeliveries, Valid(e),
             DEAD_LETTER \in StreamSubjects, Without(Losing)',
             Owned(CurrentDelivery(e))
      PROVE  HasTrace(e)' \/ Owned(CurrentDelivery(e))'
  <2> DEFINE d == CurrentDelivery(e)
  <2>1. PICK i \in Replica : cur[i] = d \/ ElementOf(d, inbox[i])
    BY <1>1 DEF Owned
  <2>2. CurrentDelivery(e)' = d /\ d.event = e /\ d.count = MaxDeliveries
    BY <1>1 DEF CurrentDelivery
  <2>3. CASE i = r /\ cur[i] = d
    <3>1. FinalAttempt(d)
      BY <2>2, MaxDeliveriesAssumption DEF FinalAttempt
    <3> QED BY <1>1, <2>2, <2>3, <3>1 DEF HasTrace, Notified
  <2>4. CASE i # r \/ cur[i] # d
    BY <2>1, <2>2, <2>4 DEF Owned, Return
  <2> QED BY <2>3, <2>4
<1>2. \A i \in Replica : pc'[i] = "term" => pc[i] = "term" /\ cur'[i] = cur[i]
  BY DEF Return, Goto
<1> QED BY <1>1, <1>2 DEF TraceInv, Without, HasTrace, Notified

LEMMA TraceReplica ==
  ASSUME NEW r \in Replica, TypeInv, SafeInv, TraceInv, Proceed(r) \/ Fail(r)
  PROVE  TraceInv'
<1> USE DEF brokerVars, storeVars, faultVars, NoFault, Goto, Fault, Send
<1>a. pc \in [Replica -> {"down", "idle", "lookup", "handle", "record", "ack",
                          "deadLetter", "term"}]
  BY DEF TypeInv, TypeOK
<1>b. \A i \in Replica : pc[i] \in {"record", "ack"} => HasTrace(cur[i].event)
  BY DEF SafeInv, WorkInv, LedgerMeansNotified, HasTrace
<1>1. CASE Start(r)
  BY <1>1, <1>a, TraceKept DEF Start
<1>2. CASE Consume(r)
  BY <1>2, TraceKept DEF Consume
<1>3. CASE TakeMalformed(r)
  BY <1>3, <1>a, TraceTaken DEF TakeMalformed, Yield
<1>4. CASE TakeUnknown(r)
  BY <1>4, <1>a, TraceTaken DEF TakeUnknown, Yield, Valid
<1>5. CASE TakeValid(r)
  BY <1>5, <1>a, TraceTaken DEF TakeValid, Yield
<1>6. CASE LookupHit(r)
  <2>1. HasTrace(cur[r].event)
    BY <1>6 DEF LookupHit, SafeInv, LedgerMeansNotified, HasTrace
  <2> QED BY <1>6, <2>1, TraceReleased DEF LookupHit
<1>7. CASE LookupMiss(r)
  BY <1>7, <1>a, TraceKept DEF LookupMiss
<1>8. CASE CreateNotification(r)
  BY <1>8, <1>a, TraceKept DEF CreateNotification, WriteNotification
<1>9. CASE RecordEvent(r)
  BY <1>9, <1>a, TraceKept DEF RecordEvent, WriteLedger
<1>10. CASE Ack(r)
  BY <1>10, <1>b, TraceReleased DEF Ack
<1>11. CASE DeadLetter(r)
  <2>1. CanCopy(cur[r].event) <=> DEAD_LETTER \in StreamSubjects /\ Kind[cur[r].event] # "notJson"
    BY DEF CanCopy
  <2> QED BY <1>11, <1>a, <2>1 DEF DeadLetter, TraceInv, Without, HasTrace, Notified, Owned,
              CurrentDelivery, Valid
<1>12. CASE Term(r)
  <2>1. Valid(cur[r].event) /\ DEAD_LETTER \in StreamSubjects /\ Without(Losing)
          => HasTrace(cur[r].event)
    BY <1>12 DEF Term, TraceInv, HasTrace
  <2> QED BY <1>12, <2>1, TraceReleased DEF Term, Without
<1>13. CASE Crash(r)
  BY <1>13 DEF Crash, TraceInv, Without, Losing
<1>14. CASE Disconnect(r)
  BY <1>14 DEF Disconnect, TraceInv, Without, Losing
<1>15. CASE LookupFails(r)
  BY <1>15 DEF LookupFails, TraceInv, Without, Losing
<1>c. ASSUME HandlerThrew(r), pc[r] = "handle", notifications \subseteq notifications',
             deadLetters' = deadLetters, faulted \subseteq faulted'
      PROVE  TraceInv'
  <2>1. CASE FinalAttempt(cur[r])
    BY <1>c, <1>a, <2>1, TraceKept DEF HandlerThrew
  <2>2. CASE ~FinalAttempt(cur[r])
    BY <1>c, <2>2, TraceReleased DEF HandlerThrew
  <2> QED BY <2>1, <2>2
<1>16. CASE CreateFails(r)
  BY <1>16, <1>c DEF CreateFails
<1>17. CASE CreateTimesOut(r)
  BY <1>17, <1>c DEF CreateTimesOut, WriteNotification
<1>18. CASE RecordFails(r)
  BY <1>18, <1>b, TraceReleased DEF RecordFails
<1>19. CASE RecordTimesOut(r)
  BY <1>19, <1>b, TraceReleased DEF RecordTimesOut, WriteLedger
<1>20. CASE DeadLetterFails(r)
  BY <1>20 DEF DeadLetterFails, TraceInv, Without, Losing
<1> QED BY <1>1, <1>2, <1>3, <1>4, <1>5, <1>6, <1>7, <1>8, <1>9, <1>10, <1>11, <1>12,
           <1>13, <1>14, <1>15, <1>16, <1>17, <1>18, <1>19, <1>20 DEF Proceed, Fail

LEMMA TraceStep == TypeInv /\ SafeInv /\ TraceInv /\ [Next]_vars => TraceInv'
<1>1. ASSUME TraceInv, UNCHANGED vars PROVE TraceInv'
  BY <1>1 DEF TraceInv, Without, HasTrace, Notified, Owned, CurrentDelivery,
              vars, brokerVars, replicaVars, storeVars, faultVars
<1> QED BY <1>1, TraceBroker, TraceReplica DEF Next

\* No well-formed event disappears while only handlers, ledger writes and
\* settlements fail and events.deadletter is captured.
THEOREM NothingDroppedSilently == SafeSpec => []NoSilentDrop
<1>1. Init => TypeInv /\ SafeInv /\ TraceInv
  BY TypeInit, SafeInit, TraceInit
<1>2. TypeInv /\ SafeInv /\ TraceInv /\ [Next]_vars => (TypeInv /\ SafeInv /\ TraceInv)'
  BY TypeStep, SafeStep, TraceStep
<1>3. TypeInv /\ SafeInv /\ TraceInv => NoSilentDrop
  <2> SUFFICES ASSUME TypeInv, SafeInv, TraceInv, NEW e \in Event,
                      DEAD_LETTER \in StreamSubjects, Without(Losing), Valid(e),
                      phase[e] \in {"termed", "exhausted"},
                      ~Held(CurrentDelivery(e))
               PROVE  Notified(e) \/ e \in deadLetters
    BY DEF NoSilentDrop, LeavesTrace, Losing
  <2>1. deliveries[e] = MaxDeliveries
    BY KindsDiffer DEF TypeInv, PhaseMatchesCount, SafeInv, TermMeansHopeless
  <2>2. ~Owned(CurrentDelivery(e))
    BY DEF Held, Owned
  <2> QED BY <2>1, <2>2 DEF TraceInv, HasTrace
<1> QED BY <1>1, <1>2, <1>3, PTL DEF SafeSpec

----------------------------------------------------------------------------
(* Every behaviour of NotificationConsumer, faults and crashes included,   *)
(* is a behaviour of EventDelivery under StatusOf.  Safety only: that each *)
(* pending event is brought to an end is checked by TLC.                   *)

\* How a step of the consumer or the broker changes the store and the broker's
\* view: the cases the refinement distinguishes.
Stutters == UNCHANGED <<phase, deliveries, notifications>>

Writes(r) ==
    /\ pc[r] = "handle"
    /\ notifications' = notifications \union {cur[r]}
    /\ UNCHANGED <<phase, deliveries>>

LEMMA ReplicaEffects ==
  ASSUME NEW r \in Replica, Proceed(r) \/ Fail(r)
  PROVE  Stutters \/ Writes(r)
<1>1. HandlerThrew(r) => UNCHANGED <<phase, deliveries>>
  BY DEF HandlerThrew, Send, brokerVars
<1> QED
  BY <1>1
  DEF Proceed, Fail, Start, Consume, TakeMalformed, TakeUnknown, TakeValid, Yield,
      LookupHit, LookupMiss, CreateNotification, WriteNotification, RecordEvent,
      WriteLedger, Ack, DeadLetter, Term, Crash, Disconnect, LookupFails, CreateFails,
      CreateTimesOut, RecordFails, RecordTimesOut, DeadLetterFails, storeVars,
      brokerVars, Send, Stutters, Writes

\* Nothing is published: the initial states correspond.
LEMMA PromiseInit == Init => Promise!Init
<1> SUFFICES ASSUME Init PROVE Promise!Init
  OBVIOUS
<1>1. [e \in Event |-> StatusOf(e)] = [e \in Event |-> "unpublished"]
  <2>1. ASSUME NEW e \in Event PROVE StatusOf(e) = "unpublished"
    <3>1. phase[e] = "absent" /\ ~Outstanding(e)
      BY DEF Init, BrokerInit, Outstanding
    <3> QED BY <3>1 DEF StatusOf
  <2> QED BY <2>1
<1>2. {e \in Event : Notified(e)} = {}
  BY DEF Init, Notified
<1>3. deliveries = [e \in Event |-> 0]
  BY DEF Init, BrokerInit
<1> QED BY <1>1, <1>2, <1>3 DEF Promise!Init

LEMMA PromiseStutters == Stutters => UNCHANGED Promise!vars
BY DEF Stutters, Promise!vars, StatusOf, Outstanding, Notified

\* A replica's step writes a notification for the abstract event, or nothing.
LEMMA PromiseReplica ==
  ASSUME TypeInv, SafeInv, NEW r \in Replica, Proceed(r) \/ Fail(r)
  PROVE  Promise!Next \/ UNCHANGED Promise!vars
<1>1. CASE Stutters
  BY <1>1, PromiseStutters
<1>2. CASE Writes(r)
  <2>1. PICK e \in Event : e = cur[r].event
    BY <1>2 DEF Writes, TypeInv, BusyHasDelivery, Delivery
  <2>2. Valid(e) /\ ~Malformed(e) /\ Kind[e] # "unknownType"
    BY <1>2, <2>1, KindsDiffer DEF Writes, SafeInv, WorkInv
  <2>3. deliveries[e] > 0
    <3>1. cur[r] \in Delivery /\ Counted(cur[r])
      BY <1>2 DEF Writes, TypeInv, BusyHasDelivery, SafeInv, CountInv
    <3>2. cur[r].count \in 1..MaxDeliveries /\ deliveries[e] \in Nat
      BY <3>1 DEF Delivery, TypeInv, TypeOK, BrokerTypeOK
    <3> QED BY <2>1, <3>1, <3>2, MaxDeliveriesAssumption DEF Counted
  <2>4. {f \in Event : Notified(f)}' = {f \in Event : Notified(f)} \union {e}
    BY <1>2, <2>1 DEF Writes, Notified
  <2>5. \A f \in Event : StatusOf(f)' = StatusOf(f)
    BY <1>2 DEF Writes, StatusOf, Outstanding
  <2>6. Promise!Notify(e)
    BY <1>2, <2>2, <2>3, <2>4, <2>5 DEF Writes, Promise!Notify
  <2> QED BY <2>6 DEF Promise!Next
<1> QED BY <1>1, <1>2, ReplicaEffects

\* The broker's phase of an event and its abstract status, now and after a step.
LEMMA StatusByPhase ==
  ASSUME NEW e \in Event
  PROVE  /\ phase[e] = "absent" => StatusOf(e) = "unpublished"
         /\ Outstanding(e) => StatusOf(e) = "pending"
         /\ phase'[e] \in {"ready", "inflight"} => StatusOf(e)' = "pending"
         /\ phase'[e] = "acked" => StatusOf(e)' = "done"
         /\ phase'[e] \in {"termed", "exhausted"} => StatusOf(e)' = "gaveUp"
         /\ phase'[e] = phase[e] => StatusOf(e)' = StatusOf(e)
BY DEF StatusOf, Outstanding

\* A step of the broker that moves one event is a step of that event alone.
LEMMA StatusMoves ==
  ASSUME NEW e \in Event, NEW to, StatusOf(e)' = to, phase \in [Event -> Phases],
         phase' \in [Event -> Phases], \A f \in Event \ {e} : phase'[f] = phase[f]
  PROVE  [f \in Event |-> StatusOf(f)'] =
           [[f \in Event |-> StatusOf(f)] EXCEPT ![e] = to]
<1>1. \A f \in Event \ {e} : StatusOf(f)' = StatusOf(f)
  BY StatusByPhase
<1> QED BY <1>1

\* The delivery of an event failed: it stays pending, or it is given up after its
\* last attempt.
LEMMA PromiseFailure ==
  ASSUME TypeInv, TypeInv', NEW e \in Event, Outstanding(e),
         phase' = [phase EXCEPT ![e] = AfterFailure(e)],
         UNCHANGED <<deliveries, notifications>>
  PROVE  Promise!Next \/ UNCHANGED Promise!vars
<1>1. /\ phase \in [Event -> Phases] /\ phase' \in [Event -> Phases]
      /\ deliveries[e] \in 0..MaxDeliveries
      /\ \A f \in Event \ {e} : phase'[f] = phase[f]
  BY DEF TypeInv, TypeOK, BrokerTypeOK
<1>2. {f \in Event : Notified(f)}' = {f \in Event : Notified(f)}
  BY DEF Notified
<1>3. CASE deliveries[e] < MaxDeliveries
  <2>1. phase'[e] = "ready"
    BY <1>1, <1>3 DEF AfterFailure
  <2>2. \A f \in Event : StatusOf(f)' = StatusOf(f)
    BY <1>1, <2>1, StatusByPhase
  <2> QED BY <1>2, <2>2 DEF Promise!vars
<1>4. CASE deliveries[e] = MaxDeliveries
  <2>1. phase'[e] = "exhausted"
    BY <1>1, <1>4 DEF AfterFailure
  <2>2. StatusOf(e) = "pending" /\ StatusOf(e)' = "gaveUp"
    BY <2>1, StatusByPhase
  <2>3. [f \in Event |-> StatusOf(f)'] =
          [[f \in Event |-> StatusOf(f)] EXCEPT ![e] = "gaveUp"]
    BY <1>1, <2>2, StatusMoves
  <2>4. Promise!GiveUp(e)
    BY <1>2, <1>4, <2>2, <2>3 DEF Promise!GiveUp
  <2> QED BY <2>4 DEF Promise!Next, Promise!Settle
<1> QED BY <1>1, <1>3, <1>4, MaxDeliveriesAssumption

LEMMA PromiseBroker ==
  ASSUME TypeInv, TypeInv', SafeInv, BrokerStep
  PROVE  Promise!Next \/ UNCHANGED Promise!vars
<1>1. phase \in [Event -> Phases] /\ phase' \in [Event -> Phases]
  BY DEF TypeInv, TypeOK, BrokerTypeOK
<1>2. ASSUME NEW e \in Event, Publish(e) PROVE Promise!Next
  <2>1. StatusOf(e) = "unpublished" /\ StatusOf(e)' = "pending"
    BY <1>1, <1>2, StatusByPhase DEF Publish, Store
  <2>2. [f \in Event |-> StatusOf(f)'] =
          [[f \in Event |-> StatusOf(f)] EXCEPT ![e] = "pending"]
    BY <1>1, <1>2, <2>1, StatusMoves DEF Publish, Store
  <2>3. Promise!Publish(e)
    BY <1>2, <2>1, <2>2 DEF Publish, Store, storeVars, Promise!Publish, Notified
  <2> QED BY <2>3 DEF Promise!Next
<1>3. ASSUME NEW r \in Replica, NEW e \in Event, Deliver(r, e) PROVE Promise!Next
  <2>1. phase[e] = "ready" /\ phase'[e] = "inflight" /\ deliveries[e] < MaxDeliveries
    BY <1>1, <1>3 DEF Deliver, Dispatch, TypeInv, PhaseMatchesCount
  <2>2. StatusOf(e) = "pending" /\ StatusOf(e)' = "pending"
    BY <2>1, StatusByPhase DEF Outstanding
  <2>3. \A f \in Event : StatusOf(f)' = StatusOf(f)
    BY <1>1, <1>3, <2>2, StatusByPhase DEF Deliver, Dispatch
  <2>4. Promise!Attempt(e)
    BY <1>3, <2>1, <2>2, <2>3
       DEF Deliver, Dispatch, storeVars, Promise!Attempt, Notified
  <2> QED BY <2>4 DEF Promise!Next
<1>4. ASSUME NEW s \in wire, BrokerReceives(s)
      PROVE  Promise!Next \/ UNCHANGED Promise!vars
  <2> DEFINE e == s.delivery.event
  <2>1. e \in Event /\ s.verdict \in Verdicts /\ s.delivery.count \in 1..MaxDeliveries
        /\ deliveries[e] \in 0..MaxDeliveries
    BY DEF TypeInv, TypeOK, BrokerTypeOK, Settlement, Delivery
  <2>2. Outstanding(e) /\ StatusOf(e) = "pending"
    BY <1>4, <2>1, StatusByPhase DEF BrokerReceives, ReceiveSettlement
  <2>3. UNCHANGED <<deliveries, notifications>>
        /\ \A f \in Event \ {e} : phase'[f] = phase[f]
    BY <1>1, <1>4 DEF BrokerReceives, ReceiveSettlement, storeVars
  <2>4. {f \in Event : Notified(f)}' = {f \in Event : Notified(f)}
    BY <2>3 DEF Notified
  <2>5. CASE s.verdict = "ack"
    <3>1. phase'[e] = "acked"
      BY <1>1, <1>4, <2>1, <2>5 DEF BrokerReceives, ReceiveSettlement
    <3>2. StatusOf(e)' = "done"
      BY <2>1, <3>1, StatusByPhase
    <3>3. [f \in Event |-> StatusOf(f)'] =
            [[f \in Event |-> StatusOf(f)] EXCEPT ![e] = "done"]
      BY <1>1, <2>1, <2>3, <3>2, StatusMoves
    <3>4. Kind[e] = "unknownType" \/ Notified(e)
      BY <2>5 DEF SafeInv, WireInv, LedgerMeansNotified
    <3>5. Promise!Finish(e)
      BY <2>1, <2>2, <2>3, <2>4, <3>3, <3>4 DEF Promise!Finish
    <3> QED BY <2>1, <3>5 DEF Promise!Next, Promise!Settle
  <2>6. CASE s.verdict = "term"
    <3>1. phase'[e] = "termed"
      BY <1>1, <1>4, <2>1, <2>6 DEF BrokerReceives, ReceiveSettlement
    <3>2. StatusOf(e)' = "gaveUp"
      BY <2>1, <3>1, StatusByPhase
    <3>3. [f \in Event |-> StatusOf(f)'] =
            [[f \in Event |-> StatusOf(f)] EXCEPT ![e] = "gaveUp"]
      BY <1>1, <2>1, <2>3, <3>2, StatusMoves
    <3>4. Malformed(e) \/ deliveries[e] = MaxDeliveries
      <4>1. Hopeless(s.delivery) /\ Counted(s.delivery)
        BY <2>6 DEF SafeInv, WireInv, CountInv
      <4> QED BY <2>1, <4>1, MaxDeliveriesAssumption DEF Hopeless, Counted
    <3>5. Promise!GiveUp(e)
      BY <2>1, <2>2, <2>3, <2>4, <3>3, <3>4 DEF Promise!GiveUp
    <3> QED BY <2>1, <3>5 DEF Promise!Next, Promise!Settle
  <2>7. CASE s.verdict = "nak"
    <3>1. phase' = [phase EXCEPT ![e] = AfterFailure(e)]
      BY <1>4, <2>7 DEF BrokerReceives, ReceiveSettlement
    <3> QED BY <2>1, <2>2, <2>3, <3>1, PromiseFailure
  <2> QED BY <2>1, <2>5, <2>6, <2>7 DEF Verdicts
<1>5. ASSUME NEW s \in wire, BrokerIgnores(s) \/ SettlementLost(s)
      PROVE  UNCHANGED Promise!vars
  <2>1. Stutters
    BY <1>5 DEF BrokerIgnores, SettlementLost, DropSettlement, storeVars, Stutters
  <2> QED BY <2>1, PromiseStutters
<1>6. ASSUME NEW e \in Event, AckWait(e) PROVE Promise!Next \/ UNCHANGED Promise!vars
  <2>1. Outstanding(e) /\ phase' = [phase EXCEPT ![e] = AfterFailure(e)]
        /\ UNCHANGED <<deliveries, notifications>>
    BY <1>6 DEF AckWait, AckWaitExpires, Outstanding, storeVars
  <2> QED BY <2>1, PromiseFailure
<1> QED BY <1>2, <1>3, <1>4, <1>5, <1>6 DEF BrokerStep

LEMMA PromiseStep ==
  TypeInv /\ TypeInv' /\ SafeInv /\ [Next]_vars => [Promise!Next]_(Promise!vars)
<1>1. CASE UNCHANGED vars
  BY <1>1, PromiseStutters DEF vars, brokerVars, storeVars, Stutters
<1> QED BY <1>1, PromiseBroker, PromiseReplica DEF Next

\* Every behaviour of the consumer, with any faults, any number of replicas and
\* any bound, is one EventDelivery allows: what is done or given up stays so, a
\* well-formed event is given up only after its last attempt, and it is done only
\* with its notification (the safety part of KeepsPromise).
THEOREM ImplementsPromise == SafeSpec => Promise!SafeSpec
<1>1. Init => Promise!Init
  BY PromiseInit
<1>2. TypeInv /\ TypeInv' /\ SafeInv /\ [Next]_vars => [Promise!Next]_(Promise!vars)
  BY PromiseStep
<1> QED BY <1>1, <1>2, SafeInvariant, PTL DEF SafeSpec, Promise!SafeSpec

=============================================================================
