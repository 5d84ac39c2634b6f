----------------------- MODULE NotificationOnceProofs -----------------------
(***************************************************************************)
(* Why redelivery notifies nobody twice.  Without the "slow" fault at most *)
(* one party (a replica, or a settlement on its way) holds a delivery of   *)
(* an event; with a single replica process() itself is the only handler.   *)
(* Either way nobody can pass the ledger lookup while somebody else is     *)
(* between the notification and its ledger row.                            *)
(***************************************************************************)
EXTENDS NotificationConsumerProofs

\* A replica is handling delivery d, or has it in its inbox.
Owns(r, d) == cur[r] = d \/ ElementOf(d, inbox[r])

\* d is the delivery its event is waiting for.
Current(d) == phase[d.event] = "inflight" /\ d.count = deliveries[d.event]

Distinct(s) == \A i, j \in 1..Len(s) : s[i] = s[j] => i = j

\* One holder per delivery, and only of current deliveries.
SoleInv ==
    Without({"slow"}) =>
        /\ \A r \in Replica, d \in Delivery : Owns(r, d) => Current(d)
        /\ \A s \in wire : Current(s.delivery)
        /\ \A r1, r2 \in Replica, d \in Delivery :
              Owns(r1, d) /\ Owns(r2, d) => r1 = r2
        /\ \A r \in Replica, s \in wire : ~Owns(r, s.delivery)
        /\ \A s1, s2 \in wire : s1.delivery = s2.delivery => s1 = s2
        /\ \A r \in Replica : Distinct(inbox[r]) /\ ~ElementOf(cur[r], inbox[r])

----------------------------------------------------------------------------
(* Sequences without repetition.                                           *)

\* Pushing an element that is not there.
LEMMA PushDistinct ==
  ASSUME NEW s \in Seq(Delivery), NEW d \in Delivery, Distinct(s), ~ElementOf(d, s)
  PROVE  Distinct(Append(s, d))
<1>1. /\ Len(s) \in Nat /\ Len(Append(s, d)) = Len(s) + 1
      /\ \A i \in 1..Len(s) : Append(s, d)[i] = s[i]
      /\ Append(s, d)[Len(s) + 1] = d
  BY AppendProperties, LenProperties
<1> QED BY <1>1 DEF Distinct, ElementOf

\* Yielding the first element.
LEMMA YieldDistinct ==
  ASSUME NEW s \in Seq(Delivery), s # <<>>, Distinct(s)
  PROVE  Distinct(Tail(s)) /\ ~ElementOf(Head(s), Tail(s))
<1>1. /\ Len(s) \in Nat \ {0} /\ Head(s) = s[1] /\ Len(Tail(s)) = Len(s) - 1
      /\ \A i \in 1..Len(Tail(s)) : Tail(s)[i] = s[i+1]
  BY HeadTailProperties, EmptySeq
<1> QED BY <1>1 DEF Distinct, ElementOf

\* Keeping a prefix.
LEMMA PrefixDistinct ==
  ASSUME NEW s \in Seq(Delivery), NEW n \in 0..Len(s), Distinct(s)
  PROVE  Distinct(SubSeq(s, 1, n))
<1>1. Len(s) \in Nat /\ \A i \in 1..n : s[i] \in Delivery
  BY LenProperties, ElementOfSeq
<1>2. /\ Len(SubSeq(s, 1, n)) = n
      /\ \A i \in 1..n : SubSeq(s, 1, n)[i] = s[i]
  BY <1>1, SubSeqProperties
<1> QED BY <1>1, <1>2 DEF Distinct

\* The elements of an inbox are deliveries.
LEMMA InboxElements ==
  ASSUME NEW s \in Seq(Delivery), NEW d, ElementOf(d, s)
  PROVE  d \in Delivery
BY ElementOfSeq DEF ElementOf

LEMMA NoneIsNoDelivery == None \notin Delivery
BY DEF None, Delivery

----------------------------------------------------------------------------
(* One holder per delivery.                                                *)

LEMMA SoleInit == Init => SoleInv
<1> SUFFICES ASSUME Init PROVE SoleInv
  OBVIOUS
<1>1. \A r \in Replica : inbox[r] = <<>> /\ cur[r] = None /\ wire = {}
  BY DEF Init, BrokerInit
<1>2. \A r \in Replica, d \in Delivery : ~Owns(r, d)
  BY <1>1, NoneIsNoDelivery DEF Owns, ElementOf
<1> QED BY <1>1, <1>2 DEF SoleInv, Distinct, ElementOf, Init, BrokerInit

\* Holders that only let go of deliveries.
LEMMA SoleShrinks ==
  ASSUME SoleInv, faulted \subseteq faulted', phase' = phase, deliveries' = deliveries,
         wire' \subseteq wire,
         \A r \in Replica, d \in Delivery : Owns(r, d)' => Owns(r, d),
         wire \subseteq Settlement,
         Without({"slow"}) => \A r \in Replica :
              Distinct(inbox'[r]) /\ ~ElementOf(cur'[r], inbox'[r])
  PROVE  SoleInv'
<1> SUFFICES ASSUME Without({"slow"})' PROVE SoleInv'
  BY DEF SoleInv
<1>1. Without({"slow"}) /\ \A s \in wire : s.delivery \in Delivery
  BY DEF Without, Settlement
<1> QED BY <1>1 DEF SoleInv, Current

\* A replica that turns a delivery it owns into a settlement.
LEMMA SoleSends ==
  ASSUME SoleInv, faulted \subseteq faulted', NEW r \in Replica, NEW v \in Verdicts,
         NEW d \in Delivery, Send(v, d), Owns(r, d), ~Owns(r, d)',
         \A i \in Replica, c \in Delivery : Owns(i, c)' => Owns(i, c),
         wire \subseteq Settlement,
         Without({"slow"}) => \A i \in Replica :
              Distinct(inbox'[i]) /\ ~ElementOf(cur'[i], inbox'[i])
  PROVE  SoleInv'
<1> SUFFICES ASSUME Without({"slow"})' PROVE SoleInv'
  BY DEF SoleInv
<1>1. Without({"slow"}) /\ \A s \in wire : s.delivery \in Delivery
  BY DEF Without, Settlement
<1>2. phase' = phase /\ deliveries' = deliveries
      /\ wire' = wire \union {[verdict |-> v, delivery |-> d]}
  BY DEF Send
<1>3. \A i \in Replica : ~Owns(i, d)'
  BY <1>1 DEF SoleInv
<1>4. \A s \in wire : s.delivery # d
  BY <1>1 DEF SoleInv
<1>5. \A s \in wire' : Current(s.delivery)'
  BY <1>1, <1>2 DEF SoleInv, Current
<1>6. \A i \in Replica, s \in wire' : ~Owns(i, s.delivery)'
  BY <1>1, <1>2, <1>3 DEF SoleInv
<1>7. \A s1, s2 \in wire' : s1.delivery = s2.delivery => s1 = s2
  BY <1>1, <1>2, <1>4 DEF SoleInv
<1> QED BY <1>1, <1>2, <1>5, <1>6, <1>7 DEF SoleInv, Current

LEMMA SoleBroker == TypeInv /\ SoleInv /\ BrokerStep => SoleInv'
<1> SUFFICES ASSUME TypeInv, SoleInv, BrokerStep PROVE SoleInv'
  OBVIOUS
<1> USE DEF replicaVars, storeVars, faultVars, NoFault, TypeInv, TypeOK, BrokerTypeOK
<1>a. \A s \in wire : s.delivery \in Delivery /\ s.delivery.event \in Event
  BY DEF Settlement, Delivery
<1>b. \A d \in Delivery : d.event \in Event
  BY DEF Delivery
<1>c. ASSUME cur' = cur, inbox' = inbox, faulted' = faulted, deliveries' = deliveries,
             wire' \subseteq wire, NEW e \in Event,
             \A f \in Event \ {e} : phase'[f] = phase[f],
             Without({"slow"}) =>
                /\ \A r \in Replica, d \in Delivery : Owns(r, d) => d.event # e
                /\ \A s \in wire' : s.delivery.event # e
      PROVE  SoleInv'
  BY <1>a, <1>b, <1>c DEF SoleInv, Without, Current, Owns
<1>1. ASSUME NEW e \in Event, Publish(e) PROVE SoleInv'
  <2>1. /\ cur' = cur /\ inbox' = inbox /\ faulted' = faulted /\ deliveries' = deliveries
        /\ wire' = wire /\ phase[e] = "absent"
        /\ \A f \in Event \ {e} : phase'[f] = phase[f]
    BY <1>1 DEF Publish, Store
  <2>2. ASSUME NEW d \in Delivery, Current(d) PROVE d.event # e
    BY <2>1, <2>2 DEF Current
  <2>3. Without({"slow"}) =>
          /\ \A r \in Replica, d \in Delivery : Owns(r, d) => d.event # e
          /\ \A s \in wire' : s.delivery.event # e
    BY <1>a, <2>1, <2>2 DEF SoleInv
  <2> QED BY <1>c, <2>1, <2>3
<1>2. ASSUME NEW e \in Event, AckWait(e) PROVE SoleInv'
  <2>1. CASE Held(CurrentDelivery(e))
    BY <1>2, <2>1 DEF AckWait, Fault, SoleInv, Without
  <2>2. CASE ~Held(CurrentDelivery(e))
    <3>1. ASSUME NEW d \in Delivery, Current(d), d.event = e PROVE d = CurrentDelivery(e)
      BY <3>1 DEF Current, CurrentDelivery, Delivery
    <3>2. Without({"slow"}) =>
            /\ \A r \in Replica, d \in Delivery : Owns(r, d) => d.event # e
            /\ \A s \in wire : s.delivery.event # e
      BY <1>a, <2>2, <3>1 DEF SoleInv, Owns, Held
    <3> QED BY <1>2, <1>c, <2>2, <3>2 DEF AckWait, AckWaitExpires
  <2> QED BY <2>1, <2>2
<1>3. ASSUME NEW r \in Replica, NEW e \in Event, Deliver(r, e) PROVE SoleInv'
  <2>0. PICK n : n = NextDelivery(e)
    OBVIOUS
  <2>1. /\ n \in Delivery /\ n.event = e /\ n.count = deliveries'[e]
        /\ phase[e] = "ready" /\ phase'[e] = "inflight"
        /\ \A f \in Event \ {e} : phase'[f] = phase[f] /\ deliveries'[f] = deliveries[f]
        /\ cur' = cur /\ wire' = wire /\ faulted' = faulted
    <3>1. deliveries[e] + 1 \in 1..MaxDeliveries
      BY <1>3, MaxDeliveriesAssumption DEF PhaseMatchesCount, Deliver, Dispatch
    <3> QED BY <1>3, <2>0, <3>1 DEF Deliver, Dispatch, NextDelivery, Delivery
  <2>2. /\ inbox'[r] = Append(inbox[r], n)
        /\ \A i \in Replica \ {r} : inbox'[i] = inbox[i]
        /\ \A i \in Replica : inbox[i] \in Seq(Delivery)
    BY <1>3, <2>0 DEF Deliver
  <2> SUFFICES ASSUME Without({"slow"}) PROVE SoleInv'
    BY <2>1 DEF SoleInv, Without
  <2>3. /\ \A i \in Replica, d \in Delivery : Owns(i, d) => d.event # e
        /\ \A s \in wire : s.delivery.event # e
    BY <2>1 DEF SoleInv, Current
  <2>4. \A i \in Replica, d \in Delivery : Owns(i, d)' <=> Owns(i, d) \/ (i = r /\ d = n)
    <3>1. \A d : ElementOf(d, inbox'[r]) <=> ElementOf(d, inbox[r]) \/ d = n
      BY <2>1, <2>2, PushElements
    <3> QED BY <2>1, <2>2, <3>1 DEF Owns
  <2>5. \A d \in Delivery : Current(d) /\ d.event # e => Current(d)'
    BY <2>1, <1>b DEF Current
  <2>6. Current(n)'
    BY <2>1 DEF Current
  <2>7. \A i \in Replica, d \in Delivery : Owns(i, d)' => Current(d)'
    BY <2>3, <2>4, <2>5, <2>6 DEF SoleInv
  <2>8. \A s \in wire' : Current(s.delivery)'
    BY <1>a, <2>1, <2>3, <2>5 DEF SoleInv
  <2>9. \A r1, r2 \in Replica, d \in Delivery : Owns(r1, d)' /\ Owns(r2, d)' => r1 = r2
    BY <2>1, <2>3, <2>4 DEF SoleInv
  <2>10. \A i \in Replica, s \in wire' : ~Owns(i, s.delivery)'
    BY <1>a, <2>1, <2>3, <2>4 DEF SoleInv
  <2>11. \A s1, s2 \in wire' : s1.delivery = s2.delivery => s1 = s2
    BY <2>1 DEF SoleInv
  <2>12. ~ElementOf(n, inbox[r]) /\ cur[r] # n
    BY <2>1, <2>3 DEF Owns
  <2>13. Distinct(inbox'[r]) /\ ~ElementOf(cur[r], inbox'[r])
    <3>1. Distinct(inbox'[r])
      BY <2>1, <2>2, <2>12, PushDistinct DEF SoleInv
    <3>2. ~ElementOf(cur[r], inbox'[r])
      BY <2>1, <2>2, <2>12, PushElements DEF SoleInv
    <3> QED BY <3>1, <3>2
  <2>14. \A i \in Replica : Distinct(inbox'[i]) /\ ~ElementOf(cur'[i], inbox'[i])
    BY <2>1, <2>2, <2>13 DEF SoleInv
  <2> QED BY <2>7, <2>8, <2>9, <2>10, <2>11, <2>14 DEF SoleInv
<1>4. ASSUME NEW s \in wire, BrokerReceives(s) PROVE SoleInv'
  <2> DEFINE e == s.delivery.event
  <2>1. Without({"slow"}) =>
          /\ \A r \in Replica, d \in Delivery : Owns(r, d) => d.event # e
          /\ \A t \in wire \ {s} : t.delivery.event # e
    <3> SUFFICES ASSUME Without({"slow"})
                 PROVE  /\ \A r \in Replica, d \in Delivery : Owns(r, d) => d.event # e
                        /\ \A t \in wire \ {s} : t.delivery.event # e
      OBVIOUS
    <3>1. Current(s.delivery)
      BY DEF SoleInv
    <3>2. ASSUME NEW d \in Delivery, Current(d), d.event = e PROVE d = s.delivery
      <4>1. \A c \in Delivery : c = [event |-> c.event, count |-> c.count]
        BY DEF Delivery
      <4>2. d.count = s.delivery.count
        BY <3>1, <3>2 DEF Current
      <4> QED BY <1>a, <3>2, <4>1, <4>2
    <3>3. \A r \in Replica, d \in Delivery : Owns(r, d) => d.event # e
      BY <3>2 DEF SoleInv
    <3>4. \A t \in wire \ {s} : t.delivery.event # e
      BY <1>a, <3>2 DEF SoleInv
    <3> QED BY <3>3, <3>4
  <2>2. /\ cur' = cur /\ inbox' = inbox /\ faulted' = faulted /\ deliveries' = deliveries
        /\ wire' = wire \ {s}
        /\ \A f \in Event \ {e} : phase'[f] = phase[f]
    BY <1>4, <1>a DEF BrokerReceives, ReceiveSettlement
  <2> QED BY <1>a, <1>c, <2>1, <2>2
<1>d. ASSUME cur' = cur, inbox' = inbox, faulted \subseteq faulted', NEW s \in wire,
             DropSettlement(s)
      PROVE  SoleInv'
  BY <1>d, SoleShrinks DEF DropSettlement, Owns, SoleInv
<1>5. ASSUME NEW s \in wire, BrokerIgnores(s) PROVE SoleInv'
  BY <1>5, <1>d DEF BrokerIgnores
<1>6. ASSUME NEW s \in wire, SettlementLost(s) PROVE SoleInv'
  BY <1>6, <1>d DEF SettlementLost, Fault
<1> QED BY <1>1, <1>2, <1>3, <1>4, <1>5, <1>6 DEF BrokerStep

\* A step that moves no delivery.
LEMMA SoleKept ==
  ASSUME TypeInv, SoleInv, faulted \subseteq faulted', UNCHANGED <<brokerVars, cur, inbox>>
  PROVE  SoleInv'
BY SoleShrinks DEF brokerVars, TypeInv, TypeOK, BrokerTypeOK, Owns, SoleInv

\* A step of replica r that only forgets deliveries.
LEMMA SoleForgets ==
  ASSUME TypeInv, SoleInv, NEW r \in Replica, faulted \subseteq faulted',
         UNCHANGED brokerVars,
         \A i \in Replica \ {r} : cur'[i] = cur[i] /\ inbox'[i] = inbox[i],
         cur'[r] \in {cur[r], None},
         \A d : ElementOf(d, inbox'[r]) => ElementOf(d, inbox[r]),
         Distinct(inbox[r]) => Distinct(inbox'[r])
  PROVE  SoleInv'
<1>1. \A i \in Replica, d \in Delivery : Owns(i, d)' => Owns(i, d)
  BY NoneIsNoDelivery DEF Owns
<1>2. ~ElementOf(None, inbox[r])
  BY InboxElements, NoneIsNoDelivery DEF TypeInv, TypeOK
<1>3. Without({"slow"}) => \A i \in Replica :
          Distinct(inbox'[i]) /\ ~ElementOf(cur'[i], inbox'[i])
  BY <1>2 DEF SoleInv
<1> QED BY <1>1, <1>3, SoleShrinks DEF brokerVars, TypeInv, TypeOK, BrokerTypeOK

\* process() returning with a settlement.
LEMMA SoleReturns ==
  ASSUME TypeInv, SoleInv, NEW r \in Replica, NEW v \in Verdicts, faulted \subseteq faulted',
         pc[r] \notin {"down", "idle"}, Send(v, cur[r]), Return(r)
  PROVE  SoleInv'
<1>0. PICK d : d = cur[r]
  OBVIOUS
<1>1. /\ d \in Delivery /\ inbox' = inbox /\ cur'[r] = None
      /\ \A i \in Replica \ {r} : cur'[i] = cur[i]
  BY <1>0 DEF TypeInv, TypeOK, BusyHasDelivery, Return
<1>2. \A i \in Replica, c \in Delivery : Owns(i, c)' => Owns(i, c)
  BY <1>1, NoneIsNoDelivery DEF Owns
<1>3. ~ElementOf(None, inbox[r])
  BY InboxElements, NoneIsNoDelivery DEF TypeInv, TypeOK
<1>4. Without({"slow"}) => \A i \in Replica :
          Distinct(inbox'[i]) /\ ~ElementOf(cur'[i], inbox'[i])
  BY <1>1, <1>3 DEF SoleInv
<1>5. CASE Without({"slow"})
  <2>1. Owns(r, d) /\ ~Owns(r, d)'
    BY <1>0, <1>1, <1>5, NoneIsNoDelivery DEF Owns, SoleInv
  <2> QED BY <1>0, <1>1, <1>2, <1>4, <2>1, SoleSends DEF TypeInv, TypeOK, BrokerTypeOK
<1>6. CASE ~Without({"slow"})
  BY <1>6 DEF SoleInv, Without
<1> QED BY <1>5, <1>6

\* The iterator yields a delivery, which moves to process() or onto the wire.
LEMMA SoleYields ==
  ASSUME TypeInv, SoleInv, NEW r \in Replica, faulted' = faulted,
         pc[r] = "idle", inbox[r] # <<>>, inbox' = [inbox EXCEPT ![r] = Tail(@)],
         \/ UNCHANGED brokerVars /\ cur' = [cur EXCEPT ![r] = Head(inbox[r])]
         \/ Send("ack", Head(inbox[r])) /\ cur' = cur
  PROVE  SoleInv'
<1>0. PICK d : d = Head(inbox[r])
  OBVIOUS
<1>1. /\ d \in Delivery /\ cur[r] = None /\ inbox'[r] = Tail(inbox[r])
      /\ Tail(inbox[r]) \in Seq(Delivery)
      /\ \A i \in Replica \ {r} : inbox'[i] = inbox[i]
      /\ \A c : ElementOf(c, inbox[r]) <=> ElementOf(c, inbox'[r]) \/ c = d
  BY <1>0, YieldElements DEF TypeInv, TypeOK, BusyHasDelivery
<1>2. Without({"slow"}) => Distinct(inbox'[r]) /\ ~ElementOf(d, inbox'[r])
  BY <1>0, <1>1, YieldDistinct DEF TypeInv, TypeOK, SoleInv
<1>3. ~ElementOf(None, inbox'[r])
  BY <1>1, InboxElements, NoneIsNoDelivery
<1>4. CASE UNCHANGED brokerVars /\ cur' = [cur EXCEPT ![r] = Head(inbox[r])]
  <2>1. cur'[r] = d /\ \A i \in Replica \ {r} : cur'[i] = cur[i]
    BY <1>0, <1>4 DEF TypeInv, TypeOK
  <2>2. \A i \in Replica, c \in Delivery : Owns(i, c)' => Owns(i, c)
    BY <1>1, <2>1 DEF Owns
  <2>3. Without({"slow"}) => \A i \in Replica :
            Distinct(inbox'[i]) /\ ~ElementOf(cur'[i], inbox'[i])
    BY <1>1, <1>2, <2>1 DEF SoleInv
  <2> QED BY <1>4, <2>2, <2>3, SoleShrinks DEF brokerVars, TypeInv, TypeOK, BrokerTypeOK
<1>5. CASE Send("ack", Head(inbox[r])) /\ cur' = cur
  <2>1. \A i \in Replica, c \in Delivery : Owns(i, c)' => Owns(i, c)
    BY <1>1, <1>5 DEF Owns
  <2>2. Owns(r, d)
    BY <1>1 DEF Owns
  <2>3. Without({"slow"}) => \A i \in Replica :
            Distinct(inbox'[i]) /\ ~ElementOf(cur'[i], inbox'[i])
    BY <1>1, <1>2, <1>3, <1>5 DEF SoleInv
  <2>4. CASE Without({"slow"})
    <3>1. ~Owns(r, d)'
      BY <1>1, <1>2, <1>5, <2>4, NoneIsNoDelivery DEF Owns
    <3> QED BY <1>0, <1>1, <1>5, <2>1, <2>2, <2>3, <3>1, SoleSends
            DEF TypeInv, TypeOK, BrokerTypeOK, Verdicts
  <2>5. CASE ~Without({"slow"})
    BY <2>5 DEF SoleInv, Without
  <2> QED BY <2>4, <2>5
<1> QED BY <1>4, <1>5

LEMMA SoleReplica ==
  ASSUME NEW r \in Replica, TypeInv, SoleInv, Proceed(r) \/ Fail(r)
  PROVE  SoleInv'
<1> USE DEF storeVars, faultVars, NoFault, Fault, Verdicts
<1>1. CASE Start(r)
  BY <1>1, SoleKept DEF Start
<1>2. CASE Consume(r)
  BY <1>2, SoleKept DEF Consume
<1>3. CASE TakeMalformed(r)
  BY <1>3, SoleYields DEF TakeMalformed, Yield
<1>4. CASE TakeUnknown(r)
  BY <1>4, SoleYields DEF TakeUnknown, Yield
<1>5. CASE TakeValid(r)
  BY <1>5, SoleYields DEF TakeValid, Yield
<1>6. CASE LookupHit(r)
  BY <1>6, SoleReturns DEF LookupHit
<1>7. CASE LookupMiss(r)
  BY <1>7, SoleKept DEF LookupMiss
<1>8. CASE CreateNotification(r)
  BY <1>8, SoleKept DEF CreateNotification
<1>9. CASE RecordEvent(r)
  BY <1>9, SoleKept DEF RecordEvent
<1>10. CASE Ack(r)
  BY <1>10, SoleReturns DEF Ack
<1>11. CASE DeadLetter(r)
  BY <1>11, SoleKept DEF DeadLetter
<1>12. CASE Term(r)
  BY <1>12, SoleReturns DEF Term
<1>13. CASE Crash(r)
  <2>1. Distinct(<<>>) /\ \A d : ~ElementOf(d, <<>>)
    BY DEF Distinct, ElementOf
  <2>2. /\ cur'[r] = None /\ inbox'[r] = <<>>
        /\ \A i \in Replica \ {r} : cur'[i] = cur[i] /\ inbox'[i] = inbox[i]
    BY <1>13 DEF Crash, TypeInv, TypeOK
  <2> QED BY <1>13, <2>1, <2>2, SoleForgets DEF Crash
<1>14. CASE Disconnect(r)
  <2>1. PICK n \in 0..Len(inbox[r]) : inbox' = [inbox EXCEPT ![r] = SubSeq(@, 1, n)]
    BY <1>14 DEF Disconnect
  <2>2. inbox'[r] = SubSeq(inbox[r], 1, n) /\ inbox[r] \in Seq(Delivery)
        /\ \A i \in Replica \ {r} : inbox'[i] = inbox[i]
    BY <2>1 DEF TypeInv, TypeOK
  <2> QED BY <1>14, <2>2, PrefixElements, PrefixDistinct, SoleForgets DEF Disconnect
<1>15. CASE LookupFails(r)
  <2>1. cur'[r] = None /\ \A i \in Replica \ {r} : cur'[i] = cur[i]
    BY <1>15 DEF LookupFails, Return, TypeInv, TypeOK
  <2> QED BY <1>15, <2>1, SoleForgets DEF LookupFails, Return
<1>a. ASSUME HandlerThrew(r), pc[r] = "handle", faulted \subseteq faulted' PROVE SoleInv'
  <2>1. CASE FinalAttempt(cur[r])
    BY <1>a, <2>1, SoleKept DEF HandlerThrew
  <2>2. CASE ~FinalAttempt(cur[r])
    BY <1>a, <2>2, SoleReturns DEF HandlerThrew
  <2> QED BY <2>1, <2>2
<1>16. CASE CreateFails(r)
  BY <1>16, <1>a DEF CreateFails
<1>17. CASE CreateTimesOut(r)
  BY <1>17, <1>a DEF CreateTimesOut
<1>18. CASE RecordFails(r)
  BY <1>18, SoleReturns DEF RecordFails
<1>19. CASE RecordTimesOut(r)
  BY <1>19, SoleReturns DEF RecordTimesOut
<1>20. CASE DeadLetterFails(r)
  BY <1>20, SoleKept DEF DeadLetterFails
<1> QED BY <1>1, <1>2, <1>3, <1>4, <1>5, <1>6, <1>7, <1>8, <1>9, <1>10, <1>11, <1>12,
           <1>13, <1>14, <1>15, <1>16, <1>17, <1>18, <1>19, <1>20 DEF Proceed, Fail

LEMMA SoleStep == TypeInv /\ SoleInv /\ [Next]_vars => SoleInv'
<1>1. ASSUME SoleInv, UNCHANGED vars PROVE SoleInv'
  BY <1>1 DEF SoleInv, Without, Owns, Current, vars, brokerVars, replicaVars, faultVars
<1> QED BY <1>1, SoleBroker, SoleReplica DEF Next

----------------------------------------------------------------------------
(* One notification per event.                                             *)

Busy(r) == pc[r] \notin {"down", "idle"}

\* As long as nothing that duplicates happened: the row of an event is followed
\* by its ledger row, and who is about to write a row finds none.
OnceInv ==
    Without(Duplicating) =>
        /\ \A d \in notifications :
              d.event \in ledger
                \/ \E r \in Replica : pc[r] = "record" /\ cur[r].event = d.event
        /\ \A r \in Replica : pc[r] = "handle" => ~Notified(cur[r].event)
        /\ NotifiedOnce

\* No two replicas handle the same event.
LEMMA SoleHandler ==
  ASSUME TypeInv, SoleInv, Without(Duplicating),
         NEW r1 \in Replica, NEW r2 \in Replica, Busy(r1), Busy(r2),
         cur[r1].event = cur[r2].event
  PROVE  r1 = r2
<1>1. CASE Without({"slow"})
  <2>1. cur[r1] \in Delivery /\ cur[r2] \in Delivery
    BY DEF TypeInv, BusyHasDelivery, Busy
  <2>2. Owns(r1, cur[r1]) /\ Owns(r2, cur[r2])
    BY DEF Owns
  <2>3. Current(cur[r1]) /\ Current(cur[r2])
    BY <1>1, <2>1, <2>2 DEF SoleInv
  <2>4. \A c \in Delivery : c = [event |-> c.event, count |-> c.count]
    BY DEF Delivery
  <2>5. cur[r1] = cur[r2]
    BY <2>1, <2>3, <2>4 DEF Current
  <2> QED BY <1>1, <2>1, <2>2, <2>5 DEF SoleInv
<1>2. CASE ~Without({"slow"})
  BY <1>2 DEF Without, Duplicating
<1> QED BY <1>1, <1>2

LEMMA OnceInit == Init => OnceInv
BY DEF Init, OnceInv, NotifiedOnce

\* A step that neither writes a notification nor leaves the record call.
LEMMA OnceKept ==
  ASSUME OnceInv, faulted \subseteq faulted', notifications' = notifications,
         ledger \subseteq ledger',
         \A r \in Replica : pc'[r] = "handle" => pc[r] = "handle" /\ cur'[r] = cur[r],
         \A r \in Replica : pc[r] = "record" =>
            cur[r].event \in ledger' \/ (pc'[r] = "record" /\ cur'[r] = cur[r])
  PROVE  OnceInv'
<1> SUFFICES ASSUME Without(Duplicating)' PROVE OnceInv'
  BY DEF OnceInv
<1>1. Without(Duplicating)
  BY DEF Without, Duplicating
<1>2. ASSUME NEW d \in notifications
      PROVE  d.event \in ledger'
               \/ \E r \in Replica : pc'[r] = "record" /\ cur'[r].event = d.event
  BY <1>1 DEF OnceInv
<1>3. \A r \in Replica : pc'[r] = "handle" => ~Notified(cur[r].event)'
  BY <1>1 DEF OnceInv, Notified
<1> QED BY <1>1, <1>2, <1>3 DEF OnceInv, NotifiedOnce

LEMMA OnceBroker == OnceInv /\ BrokerStep => OnceInv'
<1> SUFFICES ASSUME OnceInv, BrokerStep PROVE OnceInv'
  OBVIOUS
<1>1. /\ faulted \subseteq faulted'
      /\ UNCHANGED <<pc, cur, ledger, notifications>>
  BY DEF BrokerStep, Publish, AckWait, Deliver, BrokerReceives, BrokerIgnores,
         SettlementLost, Fault, NoFault, faultVars, replicaVars, storeVars
<1> QED BY <1>1, OnceKept

LEMMA OnceReplica ==
  ASSUME NEW r \in Replica, TypeInv, SoleInv, OnceInv, Proceed(r) \/ Fail(r)
  PROVE  OnceInv'
<1> USE DEF storeVars, faultVars, NoFault, Fault, Goto
<1>a. pc \in [Replica -> {"down", "idle", "lookup", "handle", "record", "ack",
                          "deadLetter", "term"}]
      /\ cur \in [Replica -> Delivery \union {None}]
  BY DEF TypeInv, TypeOK
<1>b. ASSUME Return(r), notifications' = notifications, faulted \subseteq faulted',
             ledger \subseteq ledger', pc[r] # "record" \/ cur[r].event \in ledger'
      PROVE  OnceInv'
  <2>1. /\ pc'[r] = "idle"
        /\ \A i \in Replica \ {r} : pc'[i] = pc[i] /\ cur'[i] = cur[i]
    BY <1>a, <1>b DEF Return
  <2> QED BY <1>b, <2>1, OnceKept
<1>1. CASE Start(r)
  BY <1>1, <1>a, OnceKept DEF Start
<1>2. CASE Consume(r)
  BY <1>2, OnceKept DEF Consume
<1>3. CASE TakeMalformed(r)
  BY <1>3, <1>a, OnceKept DEF TakeMalformed, Yield
<1>4. CASE TakeUnknown(r)
  BY <1>4, OnceKept DEF TakeUnknown, Yield
<1>5. CASE TakeValid(r)
  BY <1>5, <1>a, OnceKept DEF TakeValid, Yield
<1>6. CASE LookupHit(r)
  BY <1>6, <1>b DEF LookupHit
<1>7. CASE LookupMiss(r)
  <2> SUFFICES ASSUME Without(Duplicating) PROVE OnceInv'
    BY <1>7 DEF OnceInv, Without, LookupMiss, Duplicating
  <2>1. /\ pc[r] = "lookup" /\ cur[r].event \notin ledger
        /\ pc' = [pc EXCEPT ![r] = "handle"]
        /\ UNCHANGED <<cur, ledger, notifications>>
    BY <1>7 DEF LookupMiss
  <2>2. ASSUME NEW d \in notifications, d.event = cur[r].event PROVE FALSE
    <3>1. PICK i \in Replica : pc[i] = "record" /\ cur[i].event = d.event
      BY <2>1, <2>2 DEF OnceInv
    <3> QED BY <2>1, <2>2, <3>1, SoleHandler DEF Busy
  <2>3. \A d \in notifications : d.event \in ledger'
           \/ \E i \in Replica : pc'[i] = "record" /\ cur'[i].event = d.event
    BY <1>a, <2>1 DEF OnceInv
  <2>4. \A i \in Replica : pc'[i] = "handle" => ~Notified(cur[i].event)'
    BY <1>a, <2>1, <2>2 DEF OnceInv, Notified
  <2> QED BY <2>1, <2>3, <2>4 DEF OnceInv, NotifiedOnce
<1>8. CASE CreateNotification(r)
  <2> SUFFICES ASSUME Without(Duplicating) PROVE OnceInv'
    BY <1>8 DEF OnceInv, Without, CreateNotification, Duplicating
  <2>1. /\ pc[r] = "handle" /\ pc' = [pc EXCEPT ![r] = "record"]
        /\ UNCHANGED <<cur, ledger>>
        /\ notifications' = notifications \union {cur[r]}
    BY <1>8 DEF CreateNotification, WriteNotification
  <2>2. \A d \in notifications : d.event # cur[r].event
    BY <2>1 DEF OnceInv, Notified
  <2>3. \A i \in Replica : pc[i] = "handle" /\ cur[i].event = cur[r].event => i = r
    BY <2>1, SoleHandler DEF Busy
  <2>4. \A d \in notifications' : d.event \in ledger'
           \/ \E i \in Replica : pc'[i] = "record" /\ cur'[i].event = d.event
    BY <1>a, <2>1 DEF OnceInv
  <2>5. \A i \in Replica : pc'[i] = "handle" => ~Notified(cur[i].event)'
    BY <1>a, <2>1, <2>3 DEF OnceInv, Notified
  <2>6. NotifiedOnce'
    BY <2>1, <2>2 DEF OnceInv, NotifiedOnce
  <2> QED BY <2>1, <2>4, <2>5, <2>6 DEF OnceInv
<1>9. CASE RecordEvent(r)
  BY <1>9, <1>a, OnceKept DEF RecordEvent, WriteLedger
<1>10. CASE Ack(r)
  BY <1>10, <1>b DEF Ack
<1>11. CASE DeadLetter(r)
  BY <1>11, <1>a, OnceKept DEF DeadLetter
<1>12. CASE Term(r)
  BY <1>12, <1>b DEF Term
<1>13. CASE Crash(r)
  BY <1>13 DEF Crash, OnceInv, Without, Duplicating
<1>14. CASE Disconnect(r)
  BY <1>14, OnceKept DEF Disconnect
<1>15. CASE LookupFails(r)
  BY <1>15, <1>b DEF LookupFails
<1>16. CASE CreateFails(r)
  <2>1. CASE FinalAttempt(cur[r])
    BY <1>16, <1>a, <2>1, OnceKept DEF CreateFails, HandlerThrew
  <2>2. CASE ~FinalAttempt(cur[r])
    BY <1>16, <1>b, <2>2 DEF CreateFails, HandlerThrew
  <2> QED BY <2>1, <2>2
<1>17. CASE CreateTimesOut(r)
  BY <1>17 DEF CreateTimesOut, OnceInv, Without, Duplicating
<1>18. CASE RecordFails(r)
  BY <1>18 DEF RecordFails, OnceInv, Without, Duplicating
<1>19. CASE RecordTimesOut(r)
  BY <1>19, <1>b DEF RecordTimesOut, WriteLedger
<1>20. CASE DeadLetterFails(r)
  BY <1>20, <1>a, OnceKept DEF DeadLetterFails
<1> QED BY <1>1, <1>2, <1>3, <1>4, <1>5, <1>6, <1>7, <1>8, <1>9, <1>10, <1>11, <1>12,
           <1>13, <1>14, <1>15, <1>16, <1>17, <1>18, <1>19, <1>20 DEF Proceed, Fail

LEMMA OnceStep == TypeInv /\ SoleInv /\ OnceInv /\ [Next]_vars => OnceInv'
<1>1. ASSUME OnceInv, UNCHANGED vars PROVE OnceInv'
  BY <1>1 DEF OnceInv, Without, Notified, NotifiedOnce, vars, replicaVars, storeVars, faultVars
<1> QED BY <1>1, OnceBroker, OnceReplica DEF Next

LEMMA OnceInvariant == SafeSpec => [](TypeInv /\ SafeInv /\ SoleInv /\ OnceInv)
<1>1. Init => TypeInv /\ SafeInv /\ SoleInv /\ OnceInv
  BY TypeInit, SafeInit, SoleInit, OnceInit
<1>2. TypeInv /\ SafeInv /\ SoleInv /\ OnceInv /\ [Next]_vars
        => (TypeInv /\ SafeInv /\ SoleInv /\ OnceInv)'
  BY TypeStep, SafeStep, SoleStep, OnceStep
<1> QED BY <1>1, <1>2, PTL DEF SafeSpec

\* Redelivery alone never writes a second notification of an event.
THEOREM NoSecondNotification == SafeSpec => []AtMostOneNotification
<1>1. OnceInv => AtMostOneNotification
  BY DEF OnceInv, AtMostOneNotification
<1> QED BY <1>1, OnceInvariant, PTL

\* Only the handler writes notifications, for the delivery in hand.
LEMMA NotificationWrites ==
  ASSUME [Next]_vars
  PROVE  \/ notifications' = notifications
         \/ \E r \in Replica :
               pc[r] = "handle" /\ notifications' = notifications \union {cur[r]}
<1>1. \A r \in Replica : Proceed(r) \/ Fail(r) =>
        \/ notifications' = notifications
        \/ pc[r] = "handle" /\ notifications' = notifications \union {cur[r]}
  BY DEF Proceed, Fail, Start, Consume, TakeMalformed, TakeUnknown, TakeValid, Yield,
         LookupHit, LookupMiss, CreateNotification, WriteNotification, RecordEvent,
         WriteLedger, Ack, DeadLetter, Term, Crash, Disconnect, LookupFails, CreateFails,
         CreateTimesOut, RecordFails, RecordTimesOut, DeadLetterFails, storeVars
<1>2. BrokerStep => notifications' = notifications
  BY DEF BrokerStep, Publish, AckWait, Deliver, BrokerReceives, BrokerIgnores,
         SettlementLost, storeVars
<1> QED BY <1>1, <1>2 DEF Next, vars, storeVars

\* With every delivery answered in time no row is written for a settled event.
THEOREM SettledIsOver == SafeSpec => NoWorkAfterSettlement
<1>1. ASSUME TypeInv, SoleInv, [Next]_vars, Without({"slow"}),
             NEW d \in notifications' \ notifications
      PROVE  phase[d.event] \notin Settled
  <2>1. PICK r \in Replica : pc[r] = "handle" /\ notifications' = notifications \union {cur[r]}
    BY <1>1, NotificationWrites
  <2>2. d = cur[r] /\ d \in Delivery
    BY <1>1, <2>1 DEF TypeInv, BusyHasDelivery
  <2>3. Current(d)
    BY <1>1, <2>2 DEF SoleInv, Owns
  <2> QED BY <2>3 DEF Current, Settled
<1>2. TypeInv /\ SoleInv /\ [Next]_vars =>
        [Without({"slow"}) =>
           \A d \in notifications' \ notifications : phase[d.event] \notin Settled]_vars
  BY <1>1
<1> QED BY <1>2, OnceInvariant, PTL DEF SafeSpec, NoWorkAfterSettlement

----------------------------------------------------------------------------
(* Dead letters.                                                           *)

\* What writes a row without reporting it, or lets two parties hold an event.
Misreporting == {"crash", "createTimesOut", "recordFails", "slow"}

\* A well-formed event with a copy on events.deadletter is over: its last delivery
\* is in nobody's inbox, and whoever still has it in hand is about to terminate it.
Over(e) ==
    /\ deliveries[e] = MaxDeliveries
    /\ \A r \in Replica :
          /\ ~ElementOf(CurrentDelivery(e), inbox[r])
          /\ pc[r] \in {"lookup", "handle", "record", "ack"} => cur[r].event # e

DeadInv ==
    Without(Misreporting) =>
        /\ \A d \in notifications : Valid(d.event)
        /\ \A r \in Replica :
              pc[r] \in {"deadLetter", "term"} => ~Notified(cur[r].event)
        /\ \A e \in deadLetters : ~Notified(e) /\ (Valid(e) => Over(e))

LEMMA DeadInit == Init => DeadInv
BY DEF Init, DeadInv

\* A step that writes no row and no copy, starts handling nothing and takes no
\* delivery.
LEMMA DeadKept ==
  ASSUME TypeInv, DeadInv, faulted \subseteq faulted', deliveries' = deliveries,
         notifications' = notifications, deadLetters' = deadLetters,
         \A r \in Replica :
            /\ \A d \in Delivery : ElementOf(d, inbox'[r]) => ElementOf(d, inbox[r])
            /\ pc'[r] \in {"down", "idle"} \/ (cur'[r] = cur[r] /\ Busy(r)),
         \A r \in Replica : pc[r] \in {"lookup", "handle", "record", "ack"} =>
            pc'[r] \notin {"deadLetter", "term"} \/ ~Notified(cur[r].event),
         \A r \in Replica : pc'[r] \in {"lookup", "handle", "record", "ack"} =>
            pc[r] \in {"lookup", "handle", "record", "ack"}
  PROVE  DeadInv'
<1> SUFFICES ASSUME Without(Misreporting)' PROVE DeadInv'
  BY DEF DeadInv
<1>1. Without(Misreporting)
  BY DEF Without
<1>2. \A e \in Event : deliveries[e] = MaxDeliveries => CurrentDelivery(e) \in Delivery
  BY MaxDeliveriesAssumption DEF CurrentDelivery, Delivery
<1>3. \A e : CurrentDelivery(e)' = CurrentDelivery(e) /\ Notified(e)' = Notified(e)
  BY DEF CurrentDelivery, Notified
<1>4. ASSUME NEW e \in deadLetters, Valid(e)
      PROVE  Over(e)'
  <2>1. e \in Event /\ Over(e)
    BY <1>1, <1>4 DEF DeadInv, TypeInv, TypeOK
  <2> QED BY <1>2, <1>3, <2>1 DEF Over
<1>5. \A r \in Replica : pc'[r] \in {"deadLetter", "term"} => ~Notified(cur[r].event)'
  <2> SUFFICES ASSUME NEW r \in Replica, pc'[r] \in {"deadLetter", "term"}
               PROVE  ~Notified(cur[r].event) /\ cur'[r] = cur[r]
    BY DEF Notified
  <2>1. pc[r] \in {"lookup", "handle", "record", "ack", "deadLetter", "term"}
    BY DEF TypeInv, TypeOK, Busy
  <2> QED BY <1>1, <2>1 DEF DeadInv
<1>6. \A e \in deadLetters' : ~Notified(e)'
  BY <1>1, <1>3 DEF DeadInv
<1>7. \A d \in notifications' : Valid(d.event)
  BY <1>1 DEF DeadInv
<1> QED BY <1>4, <1>5, <1>6, <1>7 DEF DeadInv

LEMMA DeadBroker == TypeInv /\ DeadInv /\ BrokerStep => DeadInv'
<1> SUFFICES ASSUME TypeInv, DeadInv, BrokerStep PROVE DeadInv'
  OBVIOUS
<1> USE DEF NoFault, Fault, faultVars, replicaVars, storeVars
<1>1. CASE UNCHANGED <<deliveries, replicaVars, storeVars>> /\ faulted \subseteq faulted'
  BY <1>1, DeadKept DEF TypeInv, TypeOK, Busy
<1>2. ASSUME NEW r \in Replica, NEW e \in Event, Deliver(r, e) PROVE DeadInv'
  <2>1. /\ deliveries[e] # MaxDeliveries /\ UNCHANGED <<pc, cur, storeVars, faultVars>>
        /\ \A f \in Event \ {e} : deliveries'[f] = deliveries[f]
        /\ inbox' = [inbox EXCEPT ![r] = Append(@, NextDelivery(e))]
    BY <1>2 DEF Deliver, Dispatch, TypeInv, PhaseMatchesCount, TypeOK, BrokerTypeOK
  <2>2. NextDelivery(e) \in Delivery /\ inbox \in [Replica -> Seq(Delivery)]
    <3>1. deliveries[e] \in 0..MaxDeliveries /\ inbox \in [Replica -> Seq(Delivery)]
      BY DEF TypeInv, TypeOK, BrokerTypeOK
    <3>2. deliveries[e] + 1 \in 1..MaxDeliveries
      BY <2>1, <3>1, MaxDeliveriesAssumption
    <3> QED BY <3>1, <3>2 DEF NextDelivery, Delivery
  <2>3. ASSUME NEW f \in deadLetters, Valid(f), Over(f), f \in Event
        PROVE  Over(f)'
    <3>1. f # e
      BY <2>1, <2>3 DEF Over
    <3>2. CurrentDelivery(f)' = CurrentDelivery(f) /\ CurrentDelivery(f) # NextDelivery(e)
      BY <2>1, <2>3, <3>1 DEF CurrentDelivery, NextDelivery
    <3>3. \A i \in Replica : ~ElementOf(CurrentDelivery(f), inbox'[i])
      <4>1. CurrentDelivery(f) \in Delivery
        BY <2>3, MaxDeliveriesAssumption DEF Over, CurrentDelivery, Delivery
      <4> QED BY <2>1, <2>2, <2>3, <3>2, <4>1, PushElements DEF Over
    <3> QED BY <2>1, <2>3, <3>1, <3>2, <3>3 DEF Over
  <2> QED BY <2>1, <2>3 DEF DeadInv, Without, Notified, TypeInv, TypeOK
<1> QED
  BY <1>1, <1>2 DEF BrokerStep, Publish, AckWait, BrokerReceives, BrokerIgnores, SettlementLost,
                    Store, AckWaitExpires, ReceiveSettlement, DropSettlement

\* Taking the next delivery.
LEMMA DeadTaken ==
  ASSUME TypeInv, SafeInv, SoleInv, DeadInv, NEW r \in Replica, pc[r] = "idle",
         inbox[r] # <<>>, inbox' = [inbox EXCEPT ![r] = Tail(@)],
         deliveries' = deliveries, UNCHANGED storeVars, faulted' = faulted,
         \A i \in Replica \ {r} : pc'[i] = pc[i] /\ cur'[i] = cur[i],
         \/ pc'[r] = "idle"
         \/ cur'[r] = Head(inbox[r]) /\ pc'[r] = "lookup" /\ Valid(Head(inbox[r]).event)
         \/ cur'[r] = Head(inbox[r]) /\ pc'[r] = "deadLetter" /\ Malformed(Head(inbox[r]).event)
  PROVE  DeadInv'
<1> SUFFICES ASSUME Without(Misreporting)' PROVE DeadInv'
  BY DEF DeadInv
<1>1. Without(Misreporting) /\ Without({"slow"})
  BY DEF Without, Misreporting
<1>2. /\ inbox[r] \in Seq(Delivery) /\ inbox \in [Replica -> Seq(Delivery)]
      /\ Head(inbox[r]) \in Delivery /\ ElementOf(Head(inbox[r]), inbox[r])
      /\ \A d \in Delivery : ElementOf(d, inbox'[r]) => ElementOf(d, inbox[r])
  BY YieldElements DEF TypeInv, TypeOK
<1>3. Current(Head(inbox[r]))
  BY <1>1, <1>2 DEF SoleInv, Owns
<1>4. Head(inbox[r]) = CurrentDelivery(Head(inbox[r]).event)
  BY <1>2, <1>3 DEF Current, CurrentDelivery, Delivery
<1>5. \A e : CurrentDelivery(e)' = CurrentDelivery(e) /\ Notified(e)' = Notified(e)
  BY DEF CurrentDelivery, Notified, storeVars
<1>6. ASSUME NEW e \in deadLetters, Valid(e)
      PROVE  Over(e)'
  <2>1. e \in Event /\ Over(e)
    BY <1>1, <1>6 DEF DeadInv, TypeInv, TypeOK
  <2>2. CurrentDelivery(e) \in Delivery
    BY <2>1, MaxDeliveriesAssumption DEF Over, CurrentDelivery, Delivery
  <2>3. Head(inbox[r]).event # e
    BY <1>2, <1>4, <2>1 DEF Over
  <2>4. \A i \in Replica : ~ElementOf(CurrentDelivery(e), inbox'[i])
    BY <1>2, <2>1, <2>2 DEF Over
  <2>5. \A i \in Replica : pc'[i] \in {"lookup", "handle", "record", "ack"} => cur'[i].event # e
    BY <2>1, <2>3 DEF Over
  <2> QED BY <1>5, <2>1, <2>4, <2>5 DEF Over
<1>7. \A e : Malformed(e) => ~Notified(e)
  BY <1>1 DEF DeadInv, Notified, Valid, Malformed, Malformation
<1>8. \A i \in Replica : pc'[i] \in {"deadLetter", "term"} => ~Notified(cur[i].event)'
  <2>1. ASSUME NEW i \in Replica, pc'[i] \in {"deadLetter", "term"}, NEW e, e = cur'[i].event
        PROVE  ~Notified(e)
    BY <1>1, <1>7, <2>1 DEF DeadInv
  <2> QED BY <1>5, <2>1 DEF Notified, storeVars
<1> QED BY <1>1, <1>5, <1>6, <1>8 DEF DeadInv, storeVars

LEMMA DeadReplica ==
  ASSUME NEW r \in Replica, TypeInv, SafeInv, SoleInv, OnceInv, DeadInv, Proceed(r) \/ Fail(r)
  PROVE  DeadInv'
<1> USE DEF faultVars, NoFault, Fault, Goto
<1>a. /\ pc \in [Replica -> {"down", "idle", "lookup", "handle", "record", "ack",
                             "deadLetter", "term"}]
      /\ cur \in [Replica -> Delivery \union {None}]
      /\ inbox \in [Replica -> Seq(Delivery)]
  BY DEF TypeInv, TypeOK
<1>b. ASSUME Return(r), UNCHANGED <<deliveries, notifications, deadLetters>>,
             faulted \subseteq faulted'
      PROVE  DeadInv'
  <2>1. /\ pc'[r] = "idle" /\ inbox' = inbox
        /\ \A i \in Replica \ {r} : pc'[i] = pc[i] /\ cur'[i] = cur[i]
    BY <1>a, <1>b DEF Return
  <2> QED BY <1>a, <1>b, <2>1, DeadKept DEF Busy
<1>c. ASSUME NEW step \in {"lookup", "handle", "record", "ack", "term"}, Goto(r, step),
             Busy(r), step # "term" => pc[r] \in {"lookup", "handle", "record", "ack"},
             step = "term" => pc[r] = "deadLetter",
             UNCHANGED <<deliveries, cur, inbox, notifications, deadLetters>>,
             faulted \subseteq faulted'
      PROVE  DeadInv'
  BY <1>a, <1>c, DeadKept DEF Busy
<1>1. CASE Start(r) \/ Consume(r)
  BY <1>1, <1>a, DeadKept DEF Start, Consume, brokerVars, storeVars, Busy
<1>3. CASE TakeMalformed(r)
  BY <1>3, <1>a, DeadTaken DEF TakeMalformed, Yield, Malformed, brokerVars
<1>4. CASE TakeUnknown(r)
  BY <1>4, <1>a, DeadTaken DEF TakeUnknown, Yield, Send
<1>5. CASE TakeValid(r)
  BY <1>5, <1>a, DeadTaken DEF TakeValid, Yield, Valid, brokerVars
<1>6. CASE LookupHit(r) \/ Ack(r) \/ Term(r) \/ LookupFails(r) \/ RecordTimesOut(r)
  BY <1>6, <1>b DEF LookupHit, Ack, Term, LookupFails, RecordTimesOut, WriteLedger, Send,
                    brokerVars, storeVars
<1>7. CASE LookupMiss(r)
  BY <1>7, <1>c DEF LookupMiss, brokerVars, storeVars, Busy
<1>9. CASE RecordEvent(r)
  BY <1>9, <1>c DEF RecordEvent, WriteLedger, brokerVars, Busy
<1>20. CASE DeadLetterFails(r)
  BY <1>20, <1>c DEF DeadLetterFails, brokerVars, storeVars, Busy
<1>13. CASE Crash(r) \/ CreateTimesOut(r) \/ RecordFails(r)
  BY <1>13 DEF Crash, CreateTimesOut, RecordFails, DeadInv, Without, Misreporting
<1>14. CASE Disconnect(r)
  <2>1. /\ UNCHANGED <<pc, cur, deliveries, notifications, deadLetters>>
        /\ faulted \subseteq faulted'
        /\ \A i \in Replica, d \in Delivery : ElementOf(d, inbox'[i]) => ElementOf(d, inbox[i])
    BY <1>14, <1>a, PrefixElements DEF Disconnect, brokerVars, storeVars
  <2> QED BY <1>a, <2>1, DeadKept DEF Busy
<1>8. CASE CreateNotification(r)
  <2> SUFFICES ASSUME Without(Misreporting) PROVE DeadInv'
    BY <1>8 DEF DeadInv, Without, CreateNotification
  <2>1. /\ pc[r] = "handle" /\ pc' = [pc EXCEPT ![r] = "record"]
        /\ UNCHANGED <<cur, inbox, deliveries, deadLetters>>
        /\ notifications' = notifications \union {cur[r]}
    BY <1>8 DEF CreateNotification, WriteNotification, brokerVars
  <2>2. Valid(cur[r].event)
    BY <2>1 DEF SafeInv, WorkInv
  <2>3. Without(Duplicating)
    BY DEF Without, Misreporting, Duplicating
  <2>4. \A i \in Replica : Busy(i) /\ cur[i].event = cur[r].event => i = r
    BY <2>1, <2>3, SoleHandler DEF Busy
  <2>5. \A e : Notified(e)' => Notified(e) \/ e = cur[r].event
    BY <2>1 DEF Notified
  <2>6. cur[r].event \notin deadLetters
    BY <2>1, <2>2 DEF DeadInv, Over
  <2>7. \A e \in deadLetters' : ~Notified(e)' /\ (Valid(e) => Over(e)')
    <3>1. \A e \in deadLetters : Valid(e) => Over(e)'
      BY <1>a, <2>1 DEF DeadInv, Over, CurrentDelivery
    <3> QED BY <2>1, <2>5, <2>6, <3>1 DEF DeadInv
  <2>8. \A i \in Replica : pc'[i] \in {"deadLetter", "term"} => ~Notified(cur[i].event)'
    <3>1. \A i \in Replica : pc'[i] \in {"deadLetter", "term"} =>
             i # r /\ pc[i] \in {"deadLetter", "term"} /\ Busy(i)
      BY <1>a, <2>1 DEF Busy
    <3>2. \A i \in Replica : pc'[i] \in {"deadLetter", "term"} =>
             ~Notified(cur[i].event) /\ cur[i].event # cur[r].event
      BY <2>4, <3>1 DEF DeadInv
    <3> QED BY <2>1, <3>2 DEF Notified
  <2>9. \A d \in notifications' : Valid(d.event)
    BY <2>1, <2>2 DEF DeadInv
  <2> QED BY <2>7, <2>8, <2>9 DEF DeadInv
<1>11. CASE DeadLetter(r)
  <2> SUFFICES ASSUME Without(Misreporting) PROVE DeadInv'
    BY <1>11 DEF DeadInv, Without, DeadLetter
  <2>1. /\ pc[r] = "deadLetter" /\ pc' = [pc EXCEPT ![r] = "term"]
        /\ UNCHANGED <<cur, inbox, deliveries, notifications>>
        /\ deadLetters' \subseteq deadLetters \union {cur[r].event}
    BY <1>11 DEF DeadLetter, brokerVars
  <2>2. ~Notified(cur[r].event) /\ cur[r] \in Delivery
    BY <2>1 DEF DeadInv, TypeInv, BusyHasDelivery
  <2>3. ASSUME Valid(cur[r].event)
        PROVE  Over(cur[r].event)
    <3>1. Without({"slow"}) /\ Without(Duplicating)
      BY DEF Without, Misreporting, Duplicating
    <3>2. Owns(r, cur[r]) /\ Current(cur[r])
      BY <2>2, <3>1 DEF SoleInv, Owns
    <3>3. cur[r].count = MaxDeliveries
      BY <2>1, <2>3, KindsDiffer DEF SafeInv, WorkInv, Hopeless, Valid, Malformed, Malformation
    <3>4. cur[r] = CurrentDelivery(cur[r].event)
      BY <2>2, <3>2 DEF Current, CurrentDelivery, Delivery
    <3>5. \A i \in Replica : ~ElementOf(cur[r], inbox[i])
      BY <2>2, <3>1, <3>2 DEF SoleInv, Owns
    <3>6. \A i \in Replica :
            pc[i] \in {"lookup", "handle", "record", "ack"} => cur[i].event # cur[r].event
      BY <2>1, <3>1, SoleHandler DEF Busy
    <3> QED BY <3>2, <3>3, <3>4, <3>5, <3>6 DEF Over, Current
  <2>4. \A e \in deadLetters' : ~Notified(e) /\ (Valid(e) => Over(e))
    BY <2>1, <2>2, <2>3 DEF DeadInv
  <2>5. \A e : Over(e) => Over(e)'
    BY <1>a, <2>1 DEF Over, CurrentDelivery
  <2>6. \A e : Notified(e)' <=> Notified(e)
    BY <2>1 DEF Notified
  <2>7. \A i \in Replica : pc'[i] \in {"deadLetter", "term"} => ~Notified(cur[i].event)'
    <3>1. \A i \in Replica : pc'[i] \in {"deadLetter", "term"} => ~Notified(cur[i].event)
      BY <1>a, <2>1, <2>2 DEF DeadInv
    <3> QED BY <2>1, <3>1 DEF Notified
  <2>8. \A d \in notifications' : Valid(d.event)
    BY <2>1 DEF DeadInv
  <2> QED BY <2>4, <2>5, <2>6, <2>7, <2>8 DEF DeadInv
<1>16. CASE CreateFails(r)
  <2>1. CASE ~FinalAttempt(cur[r])
    BY <1>16, <1>b, <2>1 DEF CreateFails, HandlerThrew, Send, storeVars
  <2>2. CASE FinalAttempt(cur[r])
    <3> SUFFICES ASSUME Without(Misreporting) PROVE DeadInv'
      BY <1>16 DEF DeadInv, Without, CreateFails
    <3>1. /\ pc[r] = "handle" /\ pc' = [pc EXCEPT ![r] = "deadLetter"]
          /\ UNCHANGED <<brokerVars, cur, inbox, storeVars>> /\ faulted \subseteq faulted'
      BY <1>16, <2>2 DEF CreateFails, HandlerThrew
    <3>2. ~Notified(cur[r].event)
      BY <3>1 DEF OnceInv, Without, Misreporting, Duplicating
    <3> QED BY <1>a, <3>1, <3>2, DeadKept DEF Busy, brokerVars, storeVars
  <2> QED BY <2>1, <2>2
<1> QED BY <1>1, <1>3, <1>4, <1>5, <1>6, <1>7, <1>8, <1>9, <1>11, <1>13, <1>14, <1>16, <1>20
        DEF Proceed, Fail

LEMMA DeadStep ==
  TypeInv /\ SafeInv /\ SoleInv /\ OnceInv /\ DeadInv /\ [Next]_vars => DeadInv'
<1>1. ASSUME DeadInv, UNCHANGED vars PROVE DeadInv'
  BY <1>1 DEF DeadInv, Without, Notified, Over, CurrentDelivery, vars, brokerVars, replicaVars,
              storeVars, faultVars
<1> QED BY <1>1, DeadBroker, DeadReplica DEF Next

\* Whoever replays events.deadletter notifies nobody a second time, as long as
\* every row that was written was also reported and every delivery was answered in
\* time.
THEOREM ReplayIsSafe == SafeSpec => []DeadLetterMeansUnnotified
<1>1. DeadInv => DeadLetterMeansUnnotified
  BY DEF DeadInv, DeadLetterMeansUnnotified, Misreporting
<1> QED BY <1>1, DeadInit, DeadStep, OnceInvariant, PTL DEF SafeSpec

----------------------------------------------------------------------------
(* Notifications are of published events.                                  *)

Published(e) == phase[e] # "absent"

LEMMA PublishedStays ==
  ASSUME TypeInv, [Next]_vars, NEW e \in Event, Published(e)
  PROVE  Published(e)'
<1>1. \A r \in Replica : Proceed(r) \/ Fail(r) => phase' = phase
  BY DEF Proceed, Fail, Start, Consume, TakeMalformed, TakeUnknown, TakeValid, Yield,
         LookupHit, LookupMiss, CreateNotification, RecordEvent, Ack, DeadLetter, Term,
         Crash, Disconnect, LookupFails, CreateFails, CreateTimesOut, RecordFails,
         RecordTimesOut, DeadLetterFails, HandlerThrew, Send, brokerVars
<1>2. BrokerStep => Published(e)'
  BY DEF BrokerStep, Publish, AckWait, Deliver, BrokerReceives, BrokerIgnores,
         SettlementLost, Store, AckWaitExpires, Dispatch, ReceiveSettlement,
         DropSettlement, AfterFailure, TypeInv, TypeOK, BrokerTypeOK, Published,
         Settlement, Verdicts
<1> QED BY <1>1, <1>2 DEF Next, vars, brokerVars, Published

LEMMA NotifiedArePublished == SafeSpec => [](\A d \in notifications : Published(d.event))
<1>1. Init => \A d \in notifications : Published(d.event)
  BY DEF Init
<1>2. ASSUME TypeInv, SafeInv, [Next]_vars, \A d \in notifications : Published(d.event)
      PROVE  (\A d \in notifications : Published(d.event))'
  <2>1. ASSUME NEW r \in Replica, pc[r] = "handle" PROVE Published(cur[r].event)
    <3>1. cur[r] \in Delivery /\ Counted(cur[r])
      BY <1>2, <2>1 DEF TypeInv, BusyHasDelivery, SafeInv, CountInv
    <3>2. cur[r].event \in Event /\ cur[r].count \in 1..MaxDeliveries
          /\ deliveries[cur[r].event] \in Nat
      BY <1>2, <3>1 DEF Delivery, TypeInv, TypeOK, BrokerTypeOK
    <3>3. deliveries[cur[r].event] # 0
      BY <3>1, <3>2, MaxDeliveriesAssumption DEF Counted
    <3> QED BY <1>2, <3>2, <3>3 DEF TypeInv, PhaseMatchesCount, Published
  <2>2. \A d \in notifications' : d \in Delivery /\ Published(d.event)
    BY <1>2, <2>1, NotificationWrites DEF TypeInv, TypeOK, BusyHasDelivery
  <2> QED BY <1>2, <2>2, PublishedStays DEF Delivery
<1> QED BY <1>1, <1>2, SafeInvariant, PTL DEF SafeSpec

=============================================================================
