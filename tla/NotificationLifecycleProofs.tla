--------------------- MODULE NotificationLifecycleProofs ---------------------
(***************************************************************************)
(* Theorems about the whole process of notification-service for every      *)
(* bound, and one about the consumer alone that shares their argument: how *)
(* many faults and exits an event survives, how many rows an exit costs,   *)
(* and what a walk through the pages of the list may miss.                 *)
(*                                                                         *)
(* Why fewer faults, and exits, than deliveries cost no event.  Every      *)
(* delivery of an event that came to nothing, and every nak of it that is  *)
(* still on its way, is charged to a fault or an exit of its own.  Nobody  *)
(* can spoil the delivery that somebody holds for nothing: it is given up  *)
(* by a fault or an exit, answered by a nak that a fault has paid for, or  *)
(* overtaken by an earlier nak.                                            *)
(***************************************************************************)
EXTENDS NotificationLifecycle, NotificationOnceProofs, FiniteSetTheorems

NaksOf(e) == {s \in wire : s.verdict = "nak" /\ s.delivery.event = e}

Charge(e) == deliveries[e] + Cardinality(NaksOf(e))

\* The delivery the event waits for is out, and somebody may still act on it.
Alive(e) == phase[e] = "inflight" /\ Held(CurrentDelivery(e))

\* paid[e] is what was paid for event e so far.
Excused(paid, e) == Malformed(e) \/ MaxDeliveries <= paid[e]

\* The delivery somebody holds is not charged yet; all others are.
ChargeInv(paid) ==
    /\ IsFiniteSet(wire)
    /\ \A e \in Event :
          /\ phase[e] = "inflight" => deliveries[e] > 0
          /\ Charge(e) <= paid[e] + 1
          /\ phase[e] \in {"absent", "ready", "inflight"} /\ ~Alive(e) => Charge(e) <= paid[e]
          /\ phase[e] \in {"termed", "exhausted"} => Excused(paid, e)
    /\ \A r \in Replica : pc[r] \in {"deadLetter", "term"} => Excused(paid, cur[r].event)
    /\ \A s \in wire : s.verdict = "term" => Excused(paid, s.delivery.event)

\* A step pays at least n for every event.
Pays(p, q, n) == \A e \in Event : p[e] \in Int /\ q[e] \in Int /\ q[e] >= p[e] + n

----------------------------------------------------------------------------
(* Counting.                                                               *)

LEMMA ChargeTypes ==
  ASSUME TypeInv, IsFiniteSet(wire), NEW e \in Event
  PROVE  Charge(e) \in Nat /\ deliveries[e] \in Nat /\ Cardinality(NaksOf(e)) \in Nat
         /\ IsFiniteSet(NaksOf(e)) /\ Charge(e) >= deliveries[e]
<1>1. NaksOf(e) \in SUBSET wire
  BY DEF NaksOf
<1>2. IsFiniteSet(NaksOf(e))
  BY <1>1, FS_Subset
<1>3. Cardinality(NaksOf(e)) \in Nat
  BY <1>2, FS_CardinalityType
<1> QED BY <1>2, <1>3, MaxDeliveriesAssumption DEF Charge, TypeInv, TypeOK, BrokerTypeOK

\* A settlement is sent: only a nak costs.
LEMMA SendCharges ==
  ASSUME TypeInv, IsFiniteSet(wire), NEW v, NEW d, Send(v, d)
  PROVE  /\ IsFiniteSet(wire')
         /\ \A e \in Event : Charge(e)' \in Nat /\ Charge(e)' <= Charge(e) + 1
         /\ v # "nak" => \A e \in Event : Charge(e)' = Charge(e)
<1> DEFINE s == [verdict |-> v, delivery |-> d]
<1>1. wire' = wire \union {s} /\ deliveries' = deliveries
  BY DEF Send
<1>2. IsFiniteSet(wire')
  BY <1>1, FS_AddElement
<1>3. ASSUME NEW e \in Event
      PROVE  /\ Charge(e)' \in Nat /\ Charge(e)' <= Charge(e) + 1
             /\ v # "nak" => Charge(e)' = Charge(e)
  <2>1. NaksOf(e)' = NaksOf(e) \/ (v = "nak" /\ NaksOf(e)' = NaksOf(e) \union {s})
    BY <1>1 DEF NaksOf
  <2>2. Cardinality(NaksOf(e) \union {s}) \in {Cardinality(NaksOf(e)), Cardinality(NaksOf(e)) + 1}
    BY ChargeTypes, FS_AddElement
  <2>3. \/ Cardinality(NaksOf(e)') = Cardinality(NaksOf(e))
        \/ v = "nak" /\ Cardinality(NaksOf(e)') = Cardinality(NaksOf(e)) + 1
    BY <2>1, <2>2
  <2> HIDE DEF s
  <2> QED BY <1>1, <2>3, ChargeTypes DEF Charge
<1> QED BY <1>2, <1>3

\* A settlement leaves the wire: its nak is no longer pending.
LEMMA DropCharges ==
  ASSUME TypeInv, IsFiniteSet(wire), NEW s \in wire, wire' = wire \ {s}, deliveries' = deliveries
  PROVE  /\ IsFiniteSet(wire')
         /\ \A e \in Event : Charge(e)' \in Nat /\ Charge(e)' <= Charge(e)
         /\ s.verdict = "nak" /\ s.delivery.event \in Event
              => Charge(s.delivery.event)' = Charge(s.delivery.event) - 1
<1>1. IsFiniteSet(wire')
  BY FS_RemoveElement
<1>2. ASSUME NEW e \in Event
      PROVE  /\ Charge(e)' \in Nat /\ Charge(e)' <= Charge(e)
             /\ s.verdict = "nak" /\ s.delivery.event = e => Charge(e)' = Charge(e) - 1
  <2>1. NaksOf(e)' = NaksOf(e) \ {s} /\ (s \in NaksOf(e) <=> s.verdict = "nak" /\ s.delivery.event = e)
    BY DEF NaksOf
  <2>2. Cardinality(NaksOf(e)') =
            IF s \in NaksOf(e) THEN Cardinality(NaksOf(e)) - 1 ELSE Cardinality(NaksOf(e))
    BY <2>1, ChargeTypes, FS_RemoveElement
  <2>3. s \in NaksOf(e) => Cardinality(NaksOf(e)) > 0
    BY ChargeTypes, FS_EmptySet
  <2> QED BY <2>1, <2>2, <2>3, ChargeTypes DEF Charge
<1> QED BY <1>1, <1>2

\* Nothing about the broker's books changes.
LEMMA SameCharges ==
  ASSUME wire' = wire, deliveries' = deliveries
  PROVE  /\ IsFiniteSet(wire) => IsFiniteSet(wire')
         /\ \A e : Charge(e)' = Charge(e) /\ CurrentDelivery(e)' = CurrentDelivery(e)
BY DEF Charge, NaksOf, CurrentDelivery

----------------------------------------------------------------------------
(* What is paid.                                                           *)

LEMMA PaysTypes ==
  ASSUME TypeInv, NEW p, NEW q, ChargeInv(p), NEW n \in {0, 1}, Pays(p, q, n)
  PROVE  /\ \A e \in Event : Excused(p, e) => Excused(q, e)
         /\ Pays(p, q, 0)
         /\ \A r \in Replica : pc[r] \in {"deadLetter", "term"} =>
               cur[r].event \in Event /\ Excused(q, cur[r].event)
         /\ \A s \in wire : s.verdict = "term" => Excused(q, s.delivery.event)
<1>1. \A e \in Event : Excused(p, e) => Excused(q, e)
  BY MaxDeliveriesAssumption DEF Excused, Pays
<1>2. \A r \in Replica : pc[r] \in {"deadLetter", "term"} => cur[r].event \in Event
  BY DEF TypeInv, BusyHasDelivery, Delivery
<1>3. \A s \in wire : s.delivery.event \in Event
  BY DEF TypeInv, TypeOK, BrokerTypeOK, Settlement, Delivery
<1>4. ASSUME NEW e \in Event PROVE q[e] >= p[e] + 0 /\ p[e] \in Int /\ q[e] \in Int
  BY DEF Pays
<1>5. Pays(p, q, 0)
  BY <1>4 DEF Pays
<1> QED BY <1>1, <1>2, <1>3, <1>5 DEF ChargeInv

LEMMA ChargeInit ==
  ASSUME Init, NEW p, \A e \in Event : p[e] = 0
  PROVE  ChargeInv(p)
<1>1. \A e \in Event : NaksOf(e) = {} /\ deliveries[e] = 0 /\ phase[e] = "absent"
  BY DEF Init, BrokerInit, NaksOf
<1>2. IsFiniteSet(wire) /\ Cardinality({}) = 0
  BY FS_EmptySet DEF Init, BrokerInit
<1>3. \A e \in Event : Charge(e) = 0
  <2>1. \A e \in Event : Cardinality(NaksOf(e)) = 0
    BY <1>1, <1>2, Zenon
  <2>2. 0 + 0 = 0
    OBVIOUS
  <2> QED BY <1>1, <2>1, <2>2, Zenon DEF Charge
<1> QED BY <1>1, <1>2, <1>3 DEF Init, BrokerInit, ChargeInv

\* A delivery that is let go, and a nak that is sent, must be paid for by the
\* step.
LEMMA PaidFor ==
  ASSUME TypeInv, NEW p, NEW q, ChargeInv(p), Pays(p, q, 0),
         phase' = phase, deliveries' = deliveries, IsFiniteSet(wire'),
         \A e \in Event : Charge(e)' \in Nat /\ Charge(e)' - Charge(e) <= q[e] - p[e],
         \A e \in Event : Alive(e) => Alive(e)' \/ Charge(e)' - Charge(e) < q[e] - p[e],
         \A r \in Replica : pc'[r] \in {"deadLetter", "term"} => Excused(q, cur'[r].event),
         \A s \in wire' \ wire : s.verdict = "term" => Excused(q, s.delivery.event)
  PROVE  ChargeInv(q)'
<1>1. ASSUME NEW e \in Event
      PROVE  /\ Charge(e)' <= q[e] + 1
             /\ phase[e] \in {"absent", "ready", "inflight"} /\ ~Alive(e)' => Charge(e)' <= q[e]
  <2>1. /\ Charge(e) \in Nat /\ Charge(e) <= p[e] + 1
        /\ p[e] \in Int /\ q[e] \in Int /\ q[e] >= p[e]
    BY ChargeTypes DEF ChargeInv, Pays
  <2>2. CASE Alive(e)' \/ phase[e] \notin {"absent", "ready", "inflight"}
    BY <2>1, <2>2
  <2>3. CASE ~Alive(e) /\ phase[e] \in {"absent", "ready", "inflight"}
    BY <2>1, <2>3 DEF ChargeInv
  <2>4. CASE Charge(e)' - Charge(e) < q[e] - p[e]
    BY <2>1, <2>4
  <2> QED BY <2>2, <2>3, <2>4
<1>2. \A s \in wire' : s.verdict = "term" => Excused(q, s.delivery.event)
  BY PaysTypes
<1>3. \A e \in Event :
          /\ phase'[e] = "inflight" => deliveries'[e] > 0
          /\ phase'[e] \in {"termed", "exhausted"} => Excused(q, e)
  BY PaysTypes DEF ChargeInv
<1>4. \A e \in Event :
          phase'[e] \in {"absent", "ready", "inflight"} /\ ~Alive(e)' => Charge(e)' <= q[e]
  BY <1>1
<1>5. \A e \in Event : Charge(e)' <= q[e] + 1
  BY <1>1
<1> QED BY <1>2, <1>3, <1>4, <1>5 DEF ChargeInv

\* Replicas that only let go of deliveries, each of which is paid for.
LEMMA ChargeReleased ==
  ASSUME TypeInv, NEW p, NEW q, ChargeInv(p), Pays(p, q, 0), UNCHANGED brokerVars,
         \A e \in Event : Alive(e) => Alive(e)' \/ q[e] > p[e],
         \A r \in Replica : pc'[r] \in {"deadLetter", "term"} =>
             Excused(q, cur'[r].event) \/ (pc[r] \in {"deadLetter", "term"} /\ cur'[r] = cur[r])
  PROVE  ChargeInv(q)'
<1>1. phase' = phase /\ deliveries' = deliveries /\ wire' = wire
  BY DEF brokerVars
<1>2. IsFiniteSet(wire) /\ \A e \in Event : Charge(e) \in Nat /\ Charge(e)' = Charge(e)
  BY <1>1, ChargeTypes, SameCharges DEF ChargeInv
<1>3. \A r \in Replica : pc'[r] \in {"deadLetter", "term"} => Excused(q, cur'[r].event)
  BY PaysTypes
<1>4. \A e \in Event : Charge(e)' \in Nat /\ Charge(e)' - Charge(e) <= q[e] - p[e]
  BY <1>2 DEF Pays
<1>5. \A e \in Event : Alive(e) => Alive(e)' \/ Charge(e)' - Charge(e) < q[e] - p[e]
  BY <1>2 DEF Pays
<1> QED BY <1>1, <1>2, <1>3, <1>4, <1>5, PaidFor

----------------------------------------------------------------------------
(* Who holds the current delivery.                                         *)

LEMMA AliveSame ==
  ASSUME phase' = phase, deliveries' = deliveries, cur' = cur, inbox' = inbox, wire' = wire
  PROVE  \A e \in Event : Alive(e) => Alive(e)'
BY DEF Alive, Held, CurrentDelivery

\* process() takes the next delivery in hand, or answers it at once.
LEMMA AliveTaken ==
  ASSUME TypeInv, NEW p, ChargeInv(p), NEW r \in Replica, pc[r] = "idle", inbox[r] # <<>>,
         inbox' = [inbox EXCEPT ![r] = Tail(@)],
         \/ cur' = [cur EXCEPT ![r] = Head(inbox[r])]
         \/ (cur' = cur /\ \E s \in wire' : s.delivery = Head(inbox[r])),
         phase' = phase, deliveries' = deliveries, wire \subseteq wire'
  PROVE  \A e \in Event : Alive(e) => Alive(e)'
<1> SUFFICES ASSUME NEW e \in Event, Alive(e) PROVE Held(CurrentDelivery(e))'
  BY DEF Alive
<1> DEFINE d == CurrentDelivery(e)
<1>1. d' = d /\ d # None
  BY MaxDeliveriesAssumption DEF CurrentDelivery, None, ChargeInv, Alive
<1>2. inbox[r] \in Seq(Delivery) /\ cur[r] = None
  BY DEF TypeInv, TypeOK, BusyHasDelivery
<1>3. CASE \E s \in wire : s.delivery = d
  BY <1>1, <1>3 DEF Held
<1>4. ASSUME NEW i \in Replica \ {r}, cur[i] = d \/ ElementOf(d, inbox[i])
      PROVE  Held(d)'
  <2>1. cur'[i] = cur[i] /\ inbox'[i] = inbox[i]
    BY DEF TypeInv, TypeOK
  <2> QED BY <1>1, <1>4, <2>1 DEF Held
<1>5. CASE cur[r] = d \/ ElementOf(d, inbox[r])
  <2>1. ElementOf(d, Tail(inbox[r])) \/ d = Head(inbox[r])
    BY <1>1, <1>2, <1>5, YieldElements
  <2>2. /\ inbox'[r] = Tail(inbox[r])
        /\ cur'[r] = Head(inbox[r]) \/ \E s \in wire' : s.delivery = Head(inbox[r])
    BY DEF TypeInv, TypeOK
  <2> QED BY <1>1, <2>1, <2>2 DEF Held
<1> QED BY <1>3, <1>4, <1>5, <1>1 DEF Alive, Held

\* process() answers the delivery in hand.
LEMMA AliveAnswered ==
  ASSUME TypeInv, NEW r \in Replica, NEW v, Send(v, cur[r]), Return(r)
  PROVE  \A e \in Event : Alive(e) => Alive(e)'
<1> SUFFICES ASSUME NEW e \in Event, Alive(e) PROVE Held(CurrentDelivery(e))'
  BY DEF Alive, Send
<1> DEFINE d == CurrentDelivery(e)
<1> DEFINE answer == [verdict |-> v, delivery |-> cur[r]]
<1>1. d' = d /\ wire \subseteq wire' /\ \E s \in wire' : s.delivery = cur[r]
  <2>1. answer \in wire' /\ wire \subseteq wire' /\ answer.delivery = cur[r]
    BY DEF Send
  <2>2. d' = d
    BY DEF CurrentDelivery, Send
  <2> HIDE DEF answer
  <2> QED BY <2>1, <2>2
<1>2. ASSUME NEW i \in Replica, cur[i] = d, i # r PROVE cur'[i] = d
  BY <1>2 DEF Return, TypeInv, TypeOK
<1>3. inbox' = inbox
  BY DEF Return
<1>4. (\E s \in wire' : s.delivery = d) \/ \E i \in Replica : cur'[i] = d \/ ElementOf(d, inbox'[i])
  <2>1. CASE \E s \in wire : s.delivery = d
    BY <1>1, <2>1
  <2>2. ASSUME NEW i \in Replica, cur[i] = d \/ ElementOf(d, inbox[i])
        PROVE  (\E s \in wire' : s.delivery = d) \/ cur'[i] = d \/ ElementOf(d, inbox'[i])
    BY <1>1, <1>2, <1>3, <2>2
  <2> QED BY <2>1, <2>2 DEF Alive, Held
<1> QED BY <1>1, <1>4 DEF Held
----------------------------------------------------------------------------
(* The steps of a replica.                                                 *)

\* An answer: a nak is sent by a handler or a ledger write that failed, a term
\* for an event that is excused.
LEMMA ChargeAnswered ==
  ASSUME TypeInv, NEW p, NEW q, ChargeInv(p), NEW n \in {0, 1}, Pays(p, q, n),
         NEW r \in Replica, NEW v, Send(v, cur[r]), Return(r),
         v = "nak" => n = 1,
         v = "term" => Excused(q, cur[r].event)
  PROVE  ChargeInv(q)'
<1>1. phase' = phase /\ deliveries' = deliveries /\ IsFiniteSet(wire)
  BY DEF Send, ChargeInv
<1>2. /\ IsFiniteSet(wire')
      /\ \A e \in Event : Charge(e)' \in Nat /\ Charge(e)' <= Charge(e) + 1
      /\ v # "nak" => \A e \in Event : Charge(e)' = Charge(e)
  BY <1>1, SendCharges
<1>3. \A e \in Event : Charge(e) \in Nat
  BY <1>1, ChargeTypes
<1>4. \A e \in Event : Charge(e)' \in Nat /\ Charge(e)' - Charge(e) <= q[e] - p[e]
  BY <1>2, <1>3 DEF Pays
<1>5. \A i \in Replica : pc'[i] \in {"deadLetter", "term"} =>
          pc[i] \in {"deadLetter", "term"} /\ cur'[i] = cur[i]
  BY DEF Return, Goto, TypeInv, TypeOK
<1>6. \A i \in Replica : pc'[i] \in {"deadLetter", "term"} => Excused(q, cur'[i].event)
  BY <1>5, PaysTypes
<1>7. \A s \in wire' \ wire : s.verdict = v /\ s.delivery = cur[r]
  BY DEF Send
<1>8. \A s \in wire' \ wire : s.verdict = "term" => Excused(q, s.delivery.event)
  BY <1>7
<1>9. Pays(p, q, 0)
  BY PaysTypes
<1> QED BY <1>1, <1>2, <1>4, <1>6, <1>8, <1>9, AliveAnswered, PaidFor

\* The next message is taken; only a malformed one is sent to the dead letters.
LEMMA ChargeTaken ==
  ASSUME TypeInv, NEW p, NEW q, ChargeInv(p), Pays(p, q, 0), NEW r \in Replica,
         TakeMalformed(r) \/ TakeUnknown(r) \/ TakeValid(r)
  PROVE  ChargeInv(q)'
<1>1. pc[r] = "idle" /\ inbox[r] # <<>> /\ inbox' = [inbox EXCEPT ![r] = Tail(@)]
  BY DEF TakeMalformed, TakeUnknown, TakeValid, Yield
<1>2. /\ phase' = phase /\ deliveries' = deliveries /\ IsFiniteSet(wire)
      /\ wire' = wire \/ Send("ack", Head(inbox[r]))
  BY DEF TakeMalformed, TakeUnknown, TakeValid, brokerVars, Send, ChargeInv
<1>3. IsFiniteSet(wire') /\ \A e \in Event : Charge(e) \in Nat /\ Charge(e)' = Charge(e)
  BY <1>2, ChargeTypes, SameCharges, SendCharges
<1>4. \A e \in Event : Alive(e) => Alive(e)'
  <2>1. CASE TakeMalformed(r) \/ TakeValid(r)
    <3>1. wire' = wire /\ cur' = [cur EXCEPT ![r] = Head(inbox[r])]
      BY <2>1 DEF TakeMalformed, TakeValid, brokerVars
    <3> QED BY <1>1, <1>2, <3>1, AliveTaken
  <2>2. CASE TakeUnknown(r)
    <3> DEFINE s == [verdict |-> "ack", delivery |-> Head(inbox[r])]
    <3>1. cur' = cur /\ wire' = wire \union {s} /\ s.delivery = Head(inbox[r])
      BY <2>2 DEF TakeUnknown, Send
    <3> HIDE DEF s
    <3> QED BY <1>1, <1>2, <3>1, AliveTaken
  <2> QED BY <2>1, <2>2
<1>5. \A i \in Replica : pc'[i] \in {"deadLetter", "term"} =>
          (pc[i] \in {"deadLetter", "term"} /\ cur'[i] = cur[i]) \/ Malformed(cur'[i].event)
  BY <1>1 DEF TakeMalformed, TakeUnknown, TakeValid, Yield, Goto, Malformed, TypeInv, TypeOK
<1>6. \A i \in Replica : pc'[i] \in {"deadLetter", "term"} => Excused(q, cur'[i].event)
  BY <1>5, PaysTypes DEF Excused
<1>7. \A s \in wire' \ wire : s.verdict # "term"
  BY <1>2 DEF Send
<1>8. \A e \in Event : Charge(e)' \in Nat /\ Charge(e)' - Charge(e) <= q[e] - p[e]
  BY <1>3 DEF Pays
<1> QED BY <1>2, <1>3, <1>4, <1>6, <1>7, <1>8, PaidFor

\* The final delivery fails in the handler only after as many payments.
LEMMA FinalFailure ==
  ASSUME TypeInv, SafeInv, NEW p, NEW q, ChargeInv(p), Pays(p, q, 1),
         NEW r \in Replica, pc[r] = "handle", FinalAttempt(cur[r])
  PROVE  Excused(q, cur[r].event)
<1> DEFINE e == cur[r].event
<1>1. e \in Event /\ cur[r].count \in 1..MaxDeliveries /\ cur[r].count <= deliveries[e]
  BY DEF TypeInv, BusyHasDelivery, Delivery, SafeInv, CountInv, Counted
<1>2. deliveries[e] \in 0..MaxDeliveries /\ deliveries[e] >= MaxDeliveries
  BY <1>1, MaxDeliveriesAssumption DEF FinalAttempt, TypeInv, TypeOK, BrokerTypeOK
<1>3. Charge(e) \in Nat /\ Charge(e) >= deliveries[e] /\ Charge(e) <= p[e] + 1
  BY <1>1, ChargeTypes DEF ChargeInv
<1> HIDE DEF e
<1>4. MaxDeliveries <= q[e]
  BY <1>1, <1>2, <1>3, MaxDeliveriesAssumption DEF Pays
<1> QED BY <1>4 DEF Excused, e

LEMMA ChargeReplica ==
  ASSUME NEW r \in Replica, TypeInv, SafeInv, NEW p, NEW q, ChargeInv(p), Pays(p, q, 0),
         Proceed(r) \/ Fail(r), ~NoFault => Pays(p, q, 1)
  PROVE  ChargeInv(q)'
<1>a. pc \in [Replica -> {"down", "idle", "lookup", "handle", "record", "ack", "deadLetter", "term"}]
  BY DEF TypeInv, TypeOK
<1>b. ASSUME NEW k, Fault(k) PROVE Pays(p, q, 1)
  <2>1. \A n \in 0..MaxFaults : n - 1 # n
    BY BoundsAssumption
  <2>2. ~NoFault
    BY <1>b, <2>1 DEF Fault, NoFault, faultVars, TypeInv, TypeOK
  <2> QED BY <2>2
<1>c. pc[r] \in {"deadLetter", "term"} => Excused(q, cur[r].event)
  BY PaysTypes
<1>1. CASE Start(r) \/ Consume(r) \/ LookupMiss(r) \/ CreateNotification(r) \/ RecordEvent(r)
            \/ DeadLetter(r) \/ DeadLetterFails(r)
  <2>1. /\ UNCHANGED brokerVars /\ cur' = cur /\ inbox' = inbox
        /\ \A i \in Replica : pc'[i] \in {"deadLetter", "term"} => pc[i] \in {"deadLetter", "term"}
    BY <1>1, <1>a DEF Start, Consume, LookupMiss, CreateNotification, RecordEvent, DeadLetter,
                      DeadLetterFails, Goto
  <2> QED BY <2>1, AliveSame, ChargeReleased DEF brokerVars
<1>2. CASE TakeMalformed(r) \/ TakeUnknown(r) \/ TakeValid(r)
  BY <1>2, ChargeTaken
<1>3. CASE LookupHit(r) \/ Ack(r)
  BY <1>3, ChargeAnswered DEF LookupHit, Ack
<1>4. CASE Term(r)
  BY <1>4, <1>c, ChargeAnswered DEF Term
<1>5. CASE Crash(r) \/ Disconnect(r) \/ LookupFails(r)
  <2>1. Pays(p, q, 1)
    BY <1>5, <1>b DEF Crash, Disconnect, LookupFails
  <2>2. /\ UNCHANGED brokerVars
        /\ \A i \in Replica : pc'[i] \in {"deadLetter", "term"} =>
              pc[i] \in {"deadLetter", "term"} /\ cur'[i] = cur[i]
    BY <1>5, <1>a DEF Crash, Disconnect, LookupFails, Return, Goto, TypeInv, TypeOK
  <2>3. ASSUME NEW e \in Event PROVE q[e] > p[e]
    BY <2>1 DEF Pays
  <2> QED BY <2>2, <2>3, ChargeReleased
<1>6. CASE CreateFails(r) \/ CreateTimesOut(r)
  <2>1. Pays(p, q, 1) /\ pc[r] = "handle" /\ HandlerThrew(r)
    BY <1>6, <1>b DEF CreateFails, CreateTimesOut
  <2>2. CASE FinalAttempt(cur[r])
    <3>1. UNCHANGED brokerVars /\ cur' = cur /\ inbox' = inbox /\ pc' = [pc EXCEPT ![r] = "deadLetter"]
      BY <2>1, <2>2 DEF HandlerThrew, Goto
    <3>2. Excused(q, cur[r].event)
      BY <2>1, <2>2, FinalFailure
    <3>3. \A i \in Replica : pc'[i] \in {"deadLetter", "term"} =>
              pc[i] \in {"deadLetter", "term"} \/ i = r
      BY <1>a, <3>1
    <3> QED BY <3>1, <3>2, <3>3, AliveSame, ChargeReleased DEF brokerVars
  <2>3. CASE ~FinalAttempt(cur[r])
    BY <2>1, <2>3, ChargeAnswered DEF HandlerThrew
  <2> QED BY <2>2, <2>3
<1>7. CASE RecordFails(r) \/ RecordTimesOut(r)
  BY <1>7, <1>b, ChargeAnswered DEF RecordFails, RecordTimesOut
<1> QED BY <1>1, <1>2, <1>3, <1>4, <1>5, <1>6, <1>7 DEF Proceed, Fail

----------------------------------------------------------------------------
(* The steps of the broker.                                                *)

LEMMA ChargeDelivered ==
  ASSUME TypeInv, NEW p, NEW q, ChargeInv(p), Pays(p, q, 0),
         NEW r \in Replica, NEW e \in Event, Deliver(r, e)
  PROVE  ChargeInv(q)'
<1>1. /\ phase[e] = "ready" /\ phase' = [phase EXCEPT ![e] = "inflight"]
      /\ deliveries' = [deliveries EXCEPT ![e] = @ + 1] /\ UNCHANGED <<wire, pc, cur>>
  BY DEF Deliver, Dispatch
<1>2. /\ deliveries \in [Event -> 0..MaxDeliveries] /\ phase \in [Event -> Phases]
      /\ deliveries[e] + 1 \in 1..MaxDeliveries
  BY <1>1, MaxDeliveriesAssumption DEF TypeInv, TypeOK, BrokerTypeOK, PhaseMatchesCount
<1>3. /\ \A f : NaksOf(f)' = NaksOf(f)
      /\ \A f \in Event : Cardinality(NaksOf(f)) \in Nat /\ Charge(f) \in Nat
  BY <1>1, ChargeTypes DEF NaksOf, ChargeInv
<1>4. /\ phase'[e] = "inflight" /\ deliveries'[e] = deliveries[e] + 1
      /\ \A f \in Event \ {e} : phase'[f] = phase[f] /\ deliveries'[f] = deliveries[f]
  BY <1>1, <1>2
<1>5. Charge(e)' = Charge(e) + 1 /\ \A f \in Event \ {e} : Charge(f)' = Charge(f)
  BY <1>2, <1>3, <1>4 DEF Charge
<1>6. Charge(e) <= p[e]
  BY <1>1 DEF ChargeInv, Alive
<1>7. /\ inbox[r] \in Seq(Delivery) /\ NextDelivery(e) \in Delivery
      /\ inbox'[r] = Append(inbox[r], NextDelivery(e))
      /\ \A i \in Replica \ {r} : inbox'[i] = inbox[i]
      /\ CurrentDelivery(e)' = NextDelivery(e)
  BY <1>2, <1>4 DEF Deliver, TypeInv, TypeOK, NextDelivery, Delivery, CurrentDelivery
<1>8. Alive(e)'
  <2>1. ElementOf(NextDelivery(e), inbox'[r])
    BY <1>7, PushElements
  <2> QED BY <1>4, <1>7, <2>1 DEF Alive, Held
<1>9. ASSUME NEW f \in Event \ {e}, Alive(f) PROVE Alive(f)'
  <2> DEFINE d == CurrentDelivery(f)
  <2>1. d' = d /\ cur' = cur /\ wire' = wire
    BY <1>1, <1>4 DEF CurrentDelivery
  <2>2. \A i \in Replica : ElementOf(d, inbox[i]) => ElementOf(d, inbox'[i])
    <3>1. ElementOf(d, inbox[r]) => ElementOf(d, inbox'[r])
      BY <1>7, PushElements
    <3> QED BY <1>7, <3>1
  <2>3. Held(d)'
    BY <1>9, <2>1, <2>2 DEF Alive, Held
  <2> QED BY <1>4, <1>9, <2>3 DEF Alive
<1>10. ASSUME NEW f \in Event
       PROVE  /\ phase'[f] = "inflight" => deliveries'[f] > 0
              /\ Charge(f)' <= q[f] + 1
              /\ phase'[f] \in {"absent", "ready", "inflight"} /\ ~Alive(f)' => Charge(f)' <= q[f]
              /\ phase'[f] \in {"termed", "exhausted"} => Excused(q, f)
  <2>1. q[f] \in Int /\ p[f] \in Int /\ q[f] >= p[f] /\ Charge(f) \in Nat
    BY <1>3 DEF Pays
  <2>2. CASE f = e
    BY <1>2, <1>4, <1>5, <1>6, <1>8, <2>1, <2>2
  <2>3. CASE f # e
    <3>1. phase'[f] = phase[f] /\ deliveries'[f] = deliveries[f] /\ Charge(f)' = Charge(f)
      BY <1>4, <1>5, <2>3
    <3>2. phase[f] \in {"termed", "exhausted"} => Excused(q, f)
      BY PaysTypes DEF ChargeInv
    <3> QED BY <1>9, <2>1, <2>3, <3>1, <3>2 DEF ChargeInv
  <2> QED BY <2>2, <2>3
<1>11. /\ IsFiniteSet(wire')
       /\ \A i \in Replica : pc'[i] \in {"deadLetter", "term"} => Excused(q, cur'[i].event)
       /\ \A s \in wire' : s.verdict = "term" => Excused(q, s.delivery.event)
  BY <1>1, PaysTypes DEF ChargeInv
<1> QED BY <1>10, <1>11 DEF ChargeInv

\* A settlement that leaves the wire without effect: nobody answers with it, or
\* its loss is a fault.
LEMMA ChargeDropped ==
  ASSUME TypeInv, NEW p, NEW q, ChargeInv(p), Pays(p, q, 0), NEW s \in wire, DropSettlement(s),
         UNCHANGED <<pc, cur, inbox>>, Ignorable(s) \/ Pays(p, q, 1)
  PROVE  ChargeInv(q)'
<1>1. phase' = phase /\ deliveries' = deliveries /\ wire' = wire \ {s} /\ IsFiniteSet(wire)
  BY DEF DropSettlement, ChargeInv
<1>2. IsFiniteSet(wire') /\ \A e \in Event : Charge(e)' \in Nat /\ Charge(e)' <= Charge(e)
  BY <1>1, DropCharges
<1>3. \A e \in Event : Charge(e) \in Nat
  BY <1>1, ChargeTypes
<1>4. \A e \in Event : Charge(e)' \in Nat /\ Charge(e)' - Charge(e) <= q[e] - p[e]
  BY <1>2, <1>3 DEF Pays
<1>5. ASSUME NEW e \in Event, Alive(e)
      PROVE  Alive(e)' \/ Charge(e)' - Charge(e) < q[e] - p[e]
  <2>1. CASE Pays(p, q, 1)
    BY <1>2, <1>3, <2>1 DEF Pays
  <2>2. CASE Ignorable(s)
    <3>1. s.delivery # CurrentDelivery(e)
      <4>1. s.delivery.count \in Nat /\ deliveries[e] \in Nat
        BY MaxDeliveriesAssumption DEF TypeInv, TypeOK, BrokerTypeOK, Settlement, Delivery
      <4> QED BY <1>5, <2>2, <4>1 DEF Ignorable, Outstanding, CurrentDelivery, Alive
    <3>2. CurrentDelivery(e)' = CurrentDelivery(e)
      BY <1>1 DEF CurrentDelivery
    <3> QED BY <1>1, <1>5, <3>1, <3>2 DEF Alive, Held
  <2> QED BY <2>1, <2>2
<1>6. \A i \in Replica : pc'[i] \in {"deadLetter", "term"} => Excused(q, cur'[i].event)
  BY PaysTypes
<1>7. wire' \ wire = {}
  BY <1>1
<1> QED BY <1>1, <1>2, <1>4, <1>5, <1>6, <1>7, PaidFor

\* The broker acts on a settlement: a nak that counts for a failed delivery is no
\* longer pending.
LEMMA ChargeReceived ==
  ASSUME TypeInv, NEW p, NEW q, ChargeInv(p), Pays(p, q, 0), NEW s \in wire, BrokerReceives(s)
  PROVE  ChargeInv(q)'
<1> DEFINE e == s.delivery.event
<1>1. /\ e \in Event /\ s.verdict \in Verdicts /\ Outstanding(e)
      /\ phase \in [Event -> Phases] /\ deliveries \in [Event -> 0..MaxDeliveries]
  BY DEF TypeInv, TypeOK, BrokerTypeOK, Settlement, Delivery, BrokerReceives, ReceiveSettlement
<1>2. /\ wire' = wire \ {s} /\ UNCHANGED <<deliveries, pc, cur, inbox>> /\ IsFiniteSet(wire)
  BY DEF BrokerReceives, ReceiveSettlement, replicaVars, ChargeInv
<1>3. /\ phase'[e] = CASE s.verdict = "ack" -> "acked"
                       [] s.verdict = "term" -> "termed"
                       [] s.verdict = "nak" -> AfterFailure(e)
      /\ \A f \in Event \ {e} : phase'[f] = phase[f]
  BY <1>1 DEF BrokerReceives, ReceiveSettlement
<1>4. /\ IsFiniteSet(wire')
      /\ \A f \in Event : Charge(f)' \in Nat /\ Charge(f)' <= Charge(f) /\ Charge(f) \in Nat
      /\ s.verdict = "nak" => Charge(e)' = Charge(e) - 1
  BY <1>1, <1>2, DropCharges, ChargeTypes
<1>p. \A f \in Event : p[f] \in Int /\ q[f] \in Int /\ q[f] >= p[f]
  BY DEF Pays
<1>5. Charge(e)' <= q[e] + 1 /\ (s.verdict = "nak" => Charge(e)' <= q[e])
  <2>1. Charge(e) <= p[e] + 1
    BY <1>1 DEF ChargeInv
  <2> HIDE DEF e
  <2> QED BY <1>1, <1>4, <1>p, <2>1
<1>6. phase'[e] = "exhausted" => MaxDeliveries <= q[e]
  <2>1. SUFFICES ASSUME phase'[e] = "exhausted" PROVE MaxDeliveries <= q[e]
    OBVIOUS
  <2>2. s.verdict = "nak" /\ deliveries[e] >= MaxDeliveries
    BY <1>1, <1>3, <2>1, MaxDeliveriesAssumption DEF AfterFailure, Verdicts
  <2>3. Charge(e) - 1 <= q[e] /\ Charge(e) >= deliveries[e]
    BY <1>1, <1>2, <1>4, <1>5, <2>2, ChargeTypes
  <2>4. NaksOf(e) # {}
    BY <2>2 DEF NaksOf
  <2>5. Cardinality(NaksOf(e)) > 0 /\ deliveries[e] \in Nat /\ Cardinality(NaksOf(e)) \in Nat
    BY <1>1, <1>2, <2>4, ChargeTypes, FS_EmptySet
  <2>6. Charge(e) >= deliveries[e] + 1
    BY <2>5 DEF Charge
  <2> HIDE DEF e
  <2> QED BY <1>1, <1>4, <1>p, <2>2, <2>3, <2>5, <2>6, MaxDeliveriesAssumption
<1>7. phase'[e] = "termed" => Excused(q, e)
  BY <1>1, <1>3, PaysTypes DEF Verdicts, AfterFailure
<1>8. /\ phase'[e] \in {"absent", "ready", "inflight"} => s.verdict = "nak"
      /\ phase'[e] # "inflight"
  BY <1>1, <1>3 DEF Verdicts, AfterFailure
<1>9. ASSUME NEW f \in Event \ {e}, Alive(f) PROVE Alive(f)'
  <2>1. CurrentDelivery(f)' = CurrentDelivery(f) /\ s.delivery # CurrentDelivery(f)
    BY <1>2 DEF CurrentDelivery
  <2> QED BY <1>2, <1>3, <1>9, <2>1 DEF Alive, Held
<1> HIDE DEF e
<1>10. ASSUME NEW f \in Event
       PROVE  /\ phase'[f] = "inflight" => deliveries'[f] > 0
              /\ Charge(f)' <= q[f] + 1
              /\ phase'[f] \in {"absent", "ready", "inflight"} /\ ~Alive(f)' => Charge(f)' <= q[f]
              /\ phase'[f] \in {"termed", "exhausted"} => Excused(q, f)
  <2>1. CASE f = e
    BY <1>5, <1>6, <1>7, <1>8, <2>1 DEF Excused
  <2>2. CASE f # e
    <3>1. phase'[f] = phase[f] /\ deliveries'[f] = deliveries[f]
      BY <1>2, <1>3, <2>2
    <3>2. phase[f] \in {"termed", "exhausted"} => Excused(q, f)
      BY PaysTypes DEF ChargeInv
    <3>3. phase'[f] \in {"absent", "ready", "inflight"} /\ ~Alive(f)' => Charge(f) <= p[f]
      BY <1>9, <2>2, <3>1 DEF ChargeInv
    <3>4. Charge(f) <= p[f] + 1 /\ (phase[f] = "inflight" => deliveries[f] > 0)
      BY DEF ChargeInv
    <3> QED BY <1>4, <1>p, <3>1, <3>2, <3>3, <3>4
  <2> QED BY <2>1, <2>2
<1>11. /\ \A i \in Replica : pc'[i] \in {"deadLetter", "term"} => Excused(q, cur'[i].event)
       /\ \A x \in wire' : x.verdict = "term" => Excused(q, x.delivery.event)
  BY <1>2, PaysTypes
<1> QED BY <1>4, <1>10, <1>11 DEF ChargeInv

\* The wait for an answer ends: nobody holds the delivery, or it is a fault.
LEMMA ChargeExpired ==
  ASSUME TypeInv, NEW p, NEW q, ChargeInv(p), Pays(p, q, 0), NEW e \in Event, AckWait(e),
         ~Alive(e) \/ Pays(p, q, 1)
  PROVE  ChargeInv(q)'
<1>1. /\ phase \in [Event -> Phases] /\ deliveries[e] \in 0..MaxDeliveries
      /\ phase[e] = "inflight" /\ phase' = [phase EXCEPT ![e] = AfterFailure(e)]
      /\ UNCHANGED <<deliveries, wire, pc, cur, inbox>>
  BY DEF TypeInv, TypeOK, BrokerTypeOK, AckWait, AckWaitExpires, replicaVars
<1>2. \A f \in Event : p[f] \in Int /\ q[f] \in Int /\ q[f] >= p[f]
  BY DEF Pays
<1>3. /\ IsFiniteSet(wire')
      /\ \A f \in Event : Charge(f)' = Charge(f) /\ Charge(f) \in Nat
      /\ Charge(e) >= deliveries[e]
  BY <1>1, SameCharges, ChargeTypes DEF ChargeInv
<1>4. Charge(e) <= q[e]
  <2>1. CASE ~Alive(e)
    BY <1>1, <1>2, <1>3, <2>1 DEF ChargeInv
  <2>2. CASE Pays(p, q, 1)
    BY <1>3, <2>2 DEF Pays, ChargeInv
  <2> QED BY <2>1, <2>2
<1>5. phase'[e] = AfterFailure(e) /\ \A f \in Event \ {e} : phase'[f] = phase[f]
  BY <1>1
<1>6. phase'[e] = "exhausted" => MaxDeliveries <= q[e]
  BY <1>1, <1>2, <1>3, <1>4, <1>5, MaxDeliveriesAssumption DEF AfterFailure
<1>7. \A f \in Event \ {e} : Alive(f) => Alive(f)'
  BY <1>1, <1>5 DEF Alive, Held, CurrentDelivery
<1>8. ASSUME NEW f \in Event
      PROVE  /\ phase'[f] = "inflight" => deliveries'[f] > 0
             /\ Charge(f)' <= q[f] + 1
             /\ phase'[f] \in {"absent", "ready", "inflight"} /\ ~Alive(f)' => Charge(f)' <= q[f]
             /\ phase'[f] \in {"termed", "exhausted"} => Excused(q, f)
  <2>1. CASE f = e
    BY <1>2, <1>3, <1>4, <1>5, <1>6, <2>1 DEF AfterFailure, Excused
  <2>2. CASE f # e
    <3>1. phase'[f] = phase[f] /\ deliveries'[f] = deliveries[f] /\ Charge(f)' = Charge(f)
      BY <1>1, <1>3, <1>5, <2>2
    <3>2. phase[f] \in {"termed", "exhausted"} => Excused(q, f)
      BY PaysTypes DEF ChargeInv
    <3> QED BY <1>2, <1>3, <1>7, <2>2, <3>1, <3>2 DEF ChargeInv
  <2> QED BY <2>1, <2>2
<1>9. /\ \A i \in Replica : pc'[i] \in {"deadLetter", "term"} => Excused(q, cur'[i].event)
      /\ \A s \in wire' : s.verdict = "term" => Excused(q, s.delivery.event)
  BY <1>1, PaysTypes
<1> QED BY <1>3, <1>8, <1>9 DEF ChargeInv

\* The first publication.
LEMMA ChargePublished ==
  ASSUME TypeInv, NEW p, NEW q, ChargeInv(p), Pays(p, q, 0), NEW e \in Event, Publish(e)
  PROVE  ChargeInv(q)'
<1>1. /\ phase \in [Event -> Phases] /\ phase[e] = "absent"
      /\ phase' = [phase EXCEPT ![e] = "ready"]
      /\ UNCHANGED <<deliveries, wire, pc, cur, inbox>>
  BY DEF Publish, Store, TypeInv, TypeOK, BrokerTypeOK, replicaVars
<1>2. /\ IsFiniteSet(wire') /\ \A f \in Event : Charge(f)' = Charge(f) /\ Charge(f) \in Nat
  BY <1>1, SameCharges, ChargeTypes DEF ChargeInv
<1>3. \A f \in Event \ {e} : Alive(f) => Alive(f)'
  BY <1>1 DEF Alive, Held, CurrentDelivery
<1>4. ASSUME NEW f \in Event
      PROVE  /\ phase'[f] = "inflight" => deliveries'[f] > 0
             /\ Charge(f)' <= q[f] + 1
             /\ phase'[f] \in {"absent", "ready", "inflight"} /\ ~Alive(f)' => Charge(f)' <= q[f]
             /\ phase'[f] \in {"termed", "exhausted"} => Excused(q, f)
  <2>1. p[f] \in Int /\ q[f] \in Int /\ q[f] >= p[f]
    BY DEF Pays
  <2>2. phase[f] \in {"termed", "exhausted"} => Excused(q, f)
    BY PaysTypes DEF ChargeInv
  <2> QED BY <1>1, <1>2, <1>3, <2>1, <2>2 DEF ChargeInv, Alive
<1>5. /\ \A i \in Replica : pc'[i] \in {"deadLetter", "term"} => Excused(q, cur'[i].event)
      /\ \A s \in wire' : s.verdict = "term" => Excused(q, s.delivery.event)
  BY <1>1, PaysTypes
<1> QED BY <1>2, <1>4, <1>5 DEF ChargeInv

\* A step of consumer and broker that pays one for a fault keeps the account.
LEMMA ChargeStep ==
  ASSUME TypeInv, SafeInv, NEW p, NEW q, ChargeInv(p), Pays(p, q, 0), [Next]_vars,
         ~NoFault => Pays(p, q, 1)
  PROVE  ChargeInv(q)'
<1>1. ASSUME NEW k, Fault(k) PROVE Pays(p, q, 1)
  <2>1. \A n \in 0..MaxFaults : n - 1 # n
    BY BoundsAssumption
  <2>2. ~NoFault
    BY <1>1, <2>1 DEF Fault, NoFault, faultVars, TypeInv, TypeOK
  <2> QED BY <2>2
<1>2. CASE UNCHANGED vars
  <2>1. UNCHANGED brokerVars /\ pc' = pc /\ cur' = cur /\ inbox' = inbox
    BY <1>2 DEF vars, replicaVars
  <2> QED BY <2>1, AliveSame, ChargeReleased DEF brokerVars
<1>3. ASSUME NEW s \in wire, BrokerIgnores(s) \/ SettlementLost(s) PROVE ChargeInv(q)'
  <2>1. /\ DropSettlement(s) /\ UNCHANGED <<pc, cur, inbox>>
        /\ Ignorable(s) \/ Pays(p, q, 1)
    BY <1>1, <1>3 DEF BrokerIgnores, SettlementLost, replicaVars
  <2> QED BY <2>1, ChargeDropped
<1>4. ASSUME NEW e \in Event, AckWait(e) PROVE ChargeInv(q)'
  <2>1. ~Alive(e) \/ Pays(p, q, 1)
    BY <1>1, <1>4 DEF AckWait, Alive
  <2> QED BY <1>4, <2>1, ChargeExpired
<1> QED BY <1>2, <1>3, <1>4, ChargePublished, ChargeDelivered, ChargeReceived,
           ChargeReplica DEF Next, BrokerStep

----------------------------------------------------------------------------
(* The consumer alone pays with faults.                                    *)

Spent == MaxFaults - faultsLeft

FaultsPaid == [e \in Event |-> Spent]

LEMMA SpentTypes ==
  /\ TypeInv => Spent \in Nat
  /\ TypeInv' => Spent' \in Nat
<1>1. \A n \in 0..MaxFaults : MaxFaults - n \in Nat
  BY BoundsAssumption
<1>2. (TypeInv => faultsLeft \in 0..MaxFaults) /\ (TypeInv' => faultsLeft' \in 0..MaxFaults)
  BY DEF TypeInv, TypeOK
<1> QED BY <1>1, <1>2 DEF Spent

LEMMA FaultSpends == ASSUME TypeInv, NEW k, Fault(k) PROVE Spent' = Spent + 1
<1>1. \A n \in 0..MaxFaults : MaxFaults - (n - 1) = (MaxFaults - n) + 1
  BY BoundsAssumption
<1>2. faultsLeft \in 0..MaxFaults /\ faultsLeft' = faultsLeft - 1
  BY DEF Fault, TypeInv, TypeOK
<1> QED BY <1>1, <1>2 DEF Spent

\* A step without fault spends nothing; another spends one.
LEMMA StepSpends ==
  ASSUME TypeInv, [Next]_vars
  PROVE  (NoFault /\ Spent' = Spent) \/ Spent' = Spent + 1
<1>1. NoFault \/ \E k \in FaultKinds : Fault(k)
  <2>1. \A r \in Replica : Proceed(r) => NoFault
    BY DEF Proceed, Start, Consume, TakeMalformed, TakeUnknown, TakeValid, Yield, LookupHit,
           LookupMiss, CreateNotification, RecordEvent, Ack, DeadLetter, Term
  <2>2. \A r \in Replica : Fail(r) => \E k \in FaultKinds : Fault(k)
    BY DEF Fail, Crash, Disconnect, LookupFails, CreateFails, CreateTimesOut, RecordFails,
           RecordTimesOut, DeadLetterFails, FaultKinds
  <2>3. BrokerStep => NoFault \/ \E k \in FaultKinds : Fault(k)
    BY DEF BrokerStep, Publish, AckWait, Deliver, BrokerReceives, BrokerIgnores,
           SettlementLost, FaultKinds
  <2>4. UNCHANGED vars => NoFault
    BY DEF vars, NoFault
  <2> QED BY <2>1, <2>2, <2>3, <2>4 DEF Next
<1>2. NoFault => Spent' = Spent
  BY DEF NoFault, faultVars, Spent
<1> QED BY <1>1, <1>2, FaultSpends

\* Fewer faults than deliveries cost no event (max_deliver, consumer.js:48).
THEOREM FaultsAreTolerated == SafeSpec => []FaultsTolerated
<1>1. Init => ChargeInv(FaultsPaid)
  <2>1. Init => \A e \in Event : FaultsPaid[e] = 0
    BY BoundsAssumption DEF Init, FaultsPaid, Spent
  <2> QED BY <2>1, ChargeInit
<1>2. ASSUME TypeInv, TypeInv', SafeInv, ChargeInv(FaultsPaid), [Next]_vars
      PROVE  ChargeInv(FaultsPaid)'
  <2>1. PICK p : p = FaultsPaid
    OBVIOUS
  <2>2. PICK q : q = FaultsPaid'
    OBVIOUS
  <2>3. Spent \in Nat /\ Spent' \in Nat
    BY <1>2, SpentTypes
  <2>4. \A e \in Event : p[e] = Spent /\ q[e] = Spent'
    BY <2>1, <2>2 DEF FaultsPaid
  <2>5. Pays(p, q, 0) /\ (~NoFault => Pays(p, q, 1))
    BY <1>2, <2>3, <2>4, StepSpends DEF Pays
  <2>6. ChargeInv(p)
    BY <1>2, <2>1
  <2>7. ChargeInv(q)'
    BY <1>2, <2>5, <2>6, ChargeStep
  <2> QED BY <2>2, <2>7
<1>3. TypeInv /\ ChargeInv(FaultsPaid) => FaultsTolerated
  <2> SUFFICES ASSUME TypeInv, ChargeInv(FaultsPaid), Spent < MaxDeliveries,
                      NEW e \in Event, phase[e] \in {"termed", "exhausted"}
               PROVE  Malformed(e)
    BY DEF FaultsTolerated, Spent
  <2>1. ~(MaxDeliveries <= FaultsPaid[e])
    BY SpentTypes, MaxDeliveriesAssumption DEF FaultsPaid
  <2> QED BY <2>1 DEF ChargeInv, Excused
<1> QED BY <1>1, <1>2, <1>3, TypeInit, SafeInit, TypeStep, SafeStep, PTL DEF SafeSpec

----------------------------------------------------------------------------
(* A shutdown adds to the steps of the consumer only that a replica lets   *)
(* go of deliveries without an answer, or of the copy of one.              *)

LetsGo(r) ==
    /\ UNCHANGED <<brokerVars, storeVars, faultVars>>
    /\ \/ UNCHANGED <<pc, cur>>
       \/ \E step \in {"down", "idle"} :
             pc' = [pc EXCEPT ![r] = step] /\ cur' = [cur EXCEPT ![r] = None]
       \/ pc[r] = "deadLetter" /\ pc' = [pc EXCEPT ![r] = "term"] /\ cur' = cur
    /\ \E still \in {open[r], FALSE} : open' = [open EXCEPT ![r] = still]
    /\ \/ inbox' = inbox
       \/ inbox' = [inbox EXCEPT ![r] = <<>>]
       \/ inbox[r] # <<>> /\ inbox' = [inbox EXCEPT ![r] = Tail(@)]

LEMMA LetsGoSteps ==
  ASSUME TypeInv, NEW r \in Replica,
         Stop(r) \/ Uncopied(r) \/ Unsettled(r) \/ Discard(r) \/ Exit(r)
  PROVE  LetsGo(r)
<1> USE DEF LetsGo, NoFault
<1>1. open = [open EXCEPT ![r] = open[r]]
  BY DEF TypeInv, TypeOK
<1>2. CASE Stop(r)
  BY <1>2 DEF Stop
<1>3. CASE Unsettled(r)
  BY <1>1, <1>3 DEF Unsettled, Return, Goto
<1>4. CASE Discard(r)
  BY <1>1, <1>4 DEF Discard, Yield
<1>5. CASE Exit(r)
  BY <1>5 DEF Exit, End
<1>6. CASE Uncopied(r)
  BY <1>1, <1>6 DEF Uncopied, Goto
<1> QED BY <1>2, <1>3, <1>4, <1>5, <1>6

LEMMA LetsGoEffects ==
  ASSUME TypeInv, NEW r \in Replica, LetsGo(r)
  PROVE  /\ \A i \in Replica \ {r} :
               pc'[i] = pc[i] /\ cur'[i] = cur[i] /\ inbox'[i] = inbox[i] /\ open'[i] = open[i]
         /\ \/ pc'[r] = pc[r] /\ cur'[r] = cur[r]
            \/ pc'[r] \in {"down", "idle"} /\ cur'[r] = None
            \/ pc[r] = "deadLetter" /\ pc'[r] = "term" /\ cur'[r] = cur[r]
         /\ open'[r] \in {open[r], FALSE}
         /\ \A d : ElementOf(d, inbox'[r]) => ElementOf(d, inbox[r])
         /\ Distinct(inbox[r]) => Distinct(inbox'[r])
         /\ TypeOK'
<1>1. inbox'[r] = inbox[r] \/ inbox'[r] = <<>> \/ (inbox[r] # <<>> /\ inbox'[r] = Tail(inbox[r]))
  BY DEF LetsGo, TypeInv, TypeOK
<1>2. /\ inbox[r] \in Seq(Delivery) /\ <<>> \in Seq(Delivery)
      /\ Distinct(<<>>) /\ \A d : ~ElementOf(d, <<>>)
  BY EmptySeq DEF TypeInv, TypeOK, Distinct, ElementOf
<1>3. /\ \A d : ElementOf(d, inbox'[r]) => ElementOf(d, inbox[r])
      /\ Distinct(inbox[r]) => Distinct(inbox'[r])
      /\ inbox'[r] \in Seq(Delivery)
  <2>1. CASE inbox'[r] = inbox[r] \/ inbox'[r] = <<>>
    BY <1>2, <2>1
  <2>2. ASSUME inbox[r] # <<>>
        PROVE  /\ Tail(inbox[r]) \in Seq(Delivery)
               /\ \A d : ElementOf(d, Tail(inbox[r])) => ElementOf(d, inbox[r])
               /\ Distinct(inbox[r]) => Distinct(Tail(inbox[r]))
    BY <1>2, <2>2, YieldElements, YieldDistinct
  <2> QED BY <1>1, <2>1, <2>2
<1>4. /\ pc \in [Replica -> {"down", "idle", "lookup", "handle", "record", "ack", "deadLetter",
                             "term"}]
      /\ cur \in [Replica -> Delivery \union {None}]
      /\ open \in [Replica -> BOOLEAN] /\ inbox \in [Replica -> Seq(Delivery)]
  BY DEF TypeInv, TypeOK
<1>5. /\ \A i \in Replica \ {r} : pc'[i] = pc[i] /\ cur'[i] = cur[i] /\ open'[i] = open[i]
      /\ \/ pc'[r] = pc[r] /\ cur'[r] = cur[r]
         \/ pc'[r] \in {"down", "idle"} /\ cur'[r] = None
         \/ pc[r] = "deadLetter" /\ pc'[r] = "term" /\ cur'[r] = cur[r]
      /\ open'[r] \in {open[r], FALSE}
      /\ pc' \in [Replica -> {"down", "idle", "lookup", "handle", "record", "ack", "deadLetter",
                              "term"}]
      /\ cur' \in [Replica -> Delivery \union {None}] /\ open' \in [Replica -> BOOLEAN]
  BY <1>4 DEF LetsGo
<1>6. inbox' \in [Replica -> Seq(Delivery)] /\ \A i \in Replica \ {r} : inbox'[i] = inbox[i]
  BY <1>2, <1>3, <1>4 DEF LetsGo
<1>7. TypeOK'
  BY <1>5, <1>6 DEF LetsGo, TypeInv, TypeOK, BrokerTypeOK, brokerVars, storeVars, faultVars
<1> QED BY <1>3, <1>5, <1>6, <1>7

\* It breaks none of the consumer's invariants.
LEMMA LetsGoKeeps ==
  ASSUME TypeInv, SafeInv, SoleInv, NEW r \in Replica, LetsGo(r)
  PROVE  TypeInv' /\ SafeInv' /\ SoleInv'
<1>1. UNCHANGED <<brokerVars, storeVars, faultVars>> /\ UNCHANGED <<phase, deliveries, wire>>
  BY DEF LetsGo, brokerVars
<1>2. TypeInv'
  BY <1>1, LetsGoEffects DEF TypeInv, PhaseMatchesCount, BusyHasDelivery
<1>3. \A i \in Replica :
         \/ pc'[i] = pc[i] /\ cur'[i] = cur[i]
         \/ pc'[i] \in {"down", "idle"} /\ cur'[i] = None
         \/ pc[i] = "deadLetter" /\ pc'[i] = "term" /\ cur'[i] = cur[i]
  BY LetsGoEffects
<1>4. \A i \in Replica, d \in Delivery : ElementOf(d, inbox'[i]) => ElementOf(d, inbox[i])
  BY LetsGoEffects
<1>5. WorkInv' /\ CountInv'
  BY <1>1, <1>3, <1>4 DEF SafeInv, WorkInv, CountInv, Counted, Hopeless, Notified, storeVars
<1>6. WireInv' /\ LedgerMeansNotified' /\ AckedMeansPersisted' /\ TermMeansHopeless'
  BY <1>1 DEF SafeInv, WireInv, Hopeless, LedgerMeansNotified, AckedMeansPersisted,
              TermMeansHopeless, Notified, storeVars
<1>7. SoleInv'
  <2>1. /\ \A i \in Replica \ {r} : cur'[i] = cur[i] /\ inbox'[i] = inbox[i]
        /\ cur'[r] \in {cur[r], None}
        /\ \A d : ElementOf(d, inbox'[r]) => ElementOf(d, inbox[r])
        /\ Distinct(inbox[r]) => Distinct(inbox'[r])
    BY LetsGoEffects
  <2> QED BY <1>1, <2>1, SoleForgets DEF faultVars
<1> QED BY <1>2, <1>5, <1>6, <1>7 DEF SafeInv

\* The steps of the process, sorted by what they do to the consumer.
LEMMA LifeSteps ==
  ASSUME TypeInv, [LifeNext]_lifeVars
  PROVE  [Next]_vars \/ \E r \in Replica : LetsGo(r)
<1>1. ASSUME NEW r \in Replica, ProcessCrash(r) PROVE Crash(r)
  BY <1>1 DEF ProcessCrash, Crash, End
<1>2. ASSUME NEW r \in Replica, Work(r) \/ WorkFails(r) \/ Linger(r) PROVE Next
  BY <1>2 DEF Work, WorkFails, Linger, Next, Proceed
<1>3. ASSUME NEW r \in Replica, Signal(r) \/ Drained(r) \/ Ask(r) PROVE UNCHANGED vars
  BY <1>3 DEF Signal, Drained, Ask
<1>4. Find \/ Count \/ Respond => UNCHANGED vars
  BY DEF Find, Count, Respond
<1> QED BY <1>1, <1>2, <1>3, <1>4, LetsGoSteps DEF LifeNext, lifeVars, Broker, Next, Fail

LEMMA LifeSafeStep ==
  TypeInv /\ SafeInv /\ SoleInv /\ [LifeNext]_lifeVars => (TypeInv /\ SafeInv /\ SoleInv)'
BY LifeSteps, LetsGoKeeps, TypeStep, SafeStep, SoleStep

LEMMA LifeSafeInvariant == SafeLife => [](TypeInv /\ SafeInv /\ SoleInv)
<1>1. LifeInit => TypeInv /\ SafeInv /\ SoleInv
  BY TypeInit, SafeInit, SoleInit DEF LifeInit
<1> QED BY <1>1, LifeSafeStep, PTL DEF SafeLife

\* However a process ends, an acknowledged event has its notification and its
\* ledger row (README.md:132): a shutdown settles nothing (server.js:50-60).
THEOREM ExitsLoseNoAck == SafeLife => []AckedMeansPersisted
<1>1. SafeInv => AckedMeansPersisted
  BY DEF SafeInv
<1> QED BY <1>1, LifeSafeInvariant, PTL

\* Graceful exits do not break the promise of EventDelivery either.
THEOREM ExitsKeepPromise == SafeLife => Promise!SafeSpec
<1>1. LifeInit => Promise!Init
  BY PromiseInit DEF LifeInit
<1>2. ASSUME TypeInv, SafeInv, SoleInv, [LifeNext]_lifeVars
      PROVE  [Promise!Next]_(Promise!vars)
  <2>1. CASE [Next]_vars
    BY <1>2, <2>1, PromiseStep, TypeStep
  <2>2. ASSUME NEW r \in Replica, LetsGo(r) PROVE UNCHANGED Promise!vars
    <3>1. Stutters
      BY <2>2 DEF LetsGo, Stutters, brokerVars, storeVars
    <3> QED BY <3>1, PromiseStutters
  <2> QED BY <1>2, <2>1, <2>2, LifeSteps
<1> QED BY <1>1, <1>2, LifeSafeInvariant, PTL DEF SafeLife, Promise!SafeSpec

----------------------------------------------------------------------------
(* The processes that are on their way out.                                *)

Leaving == {r \in Replica : stage[r] # "up"}

\* A process that drains gets no delivery any more.
LeavingInv ==
    /\ stage \in [Replica -> {"up", "stopping", "draining", "closed"}]
    /\ exits \in Nat
    /\ IsFiniteSet(Leaving)
    /\ \A r \in Replica : stage[r] \in {"draining", "closed"} => ~open[r]

LEMMA LeavingInit == LifeInit => LeavingInv
<1> SUFFICES ASSUME LifeInit PROVE LeavingInv
  OBVIOUS
<1>1. Leaving = {}
  BY DEF LifeInit, Leaving
<1> QED BY <1>1, FS_EmptySet DEF LifeInit, LeavingInv

\* Who opens an iterator, and who gets hold of a delivery.
LEMMA ReplicaTakes ==
  ASSUME TypeInv, NEW r \in Replica, Proceed(r) \/ Fail(r)
  PROVE  /\ \A i \in Replica \ {r} : open'[i] = open[i]
         /\ Fail(r) => open'[r] \in {open[r], FALSE}
         /\ \A i \in Replica, d \in Delivery : Owns(i, d)' => Owns(i, d)
<1> USE DEF TypeInv, TypeOK
<1>1. ASSUME open' = open \/ open' = [open EXCEPT ![r] = FALSE] \/ Consume(r)
      PROVE  /\ \A i \in Replica \ {r} : open'[i] = open[i]
             /\ ~Consume(r) => open'[r] \in {open[r], FALSE}
  BY <1>1 DEF Consume
<1>2. open' = open \/ open' = [open EXCEPT ![r] = FALSE] \/ Consume(r)
  BY DEF Proceed, Fail, Start, Consume, TakeMalformed, TakeUnknown, TakeValid, Yield,
         LookupHit, LookupMiss, CreateNotification, RecordEvent, Ack, DeadLetter, Term,
         Crash, Disconnect, LookupFails, CreateFails, CreateTimesOut, RecordFails,
         RecordTimesOut, DeadLetterFails, HandlerThrew, Return
<1>3. Fail(r) => open' = open \/ open' = [open EXCEPT ![r] = FALSE]
  BY DEF Fail, Crash, Disconnect, LookupFails, CreateFails, CreateTimesOut, RecordFails,
         RecordTimesOut, DeadLetterFails, HandlerThrew, Return
<1>4. \/ cur' = cur \/ cur' = [cur EXCEPT ![r] = None]
      \/ inbox[r] # <<>> /\ cur' = [cur EXCEPT ![r] = Head(inbox[r])]
  BY DEF Proceed, Fail, Start, Consume, TakeMalformed, TakeUnknown, TakeValid, Yield,
         LookupHit, LookupMiss, CreateNotification, RecordEvent, Ack, DeadLetter, Term,
         Crash, Disconnect, LookupFails, CreateFails, CreateTimesOut, RecordFails,
         RecordTimesOut, DeadLetterFails, HandlerThrew, Return
<1>5. \/ inbox' = inbox \/ inbox' = [inbox EXCEPT ![r] = <<>>]
      \/ inbox[r] # <<>> /\ inbox' = [inbox EXCEPT ![r] = Tail(@)]
      \/ \E n \in 0..Len(inbox[r]) : inbox' = [inbox EXCEPT ![r] = SubSeq(@, 1, n)]
  BY DEF Proceed, Fail, Start, Consume, TakeMalformed, TakeUnknown, TakeValid, Yield,
         LookupHit, LookupMiss, CreateNotification, RecordEvent, Ack, DeadLetter, Term,
         Crash, Disconnect, LookupFails, CreateFails, CreateTimesOut, RecordFails,
         RecordTimesOut, DeadLetterFails, HandlerThrew, Return
<1>6. /\ \A i \in Replica \ {r} : cur'[i] = cur[i] /\ inbox'[i] = inbox[i]
      /\ cur'[r] \in {cur[r], None} \/ (inbox[r] # <<>> /\ cur'[r] = Head(inbox[r]))
  BY <1>4, <1>5
<1>7. /\ inbox[r] # <<>> => ElementOf(Head(inbox[r]), inbox[r])
      /\ \A d : ElementOf(d, inbox'[r]) => ElementOf(d, inbox[r])
  <2>1. CASE inbox' = inbox \/ inbox' = [inbox EXCEPT ![r] = <<>>]
    BY <2>1, YieldElements DEF ElementOf
  <2>2. CASE inbox[r] # <<>> /\ inbox' = [inbox EXCEPT ![r] = Tail(@)]
    BY <2>2, YieldElements
  <2>3. CASE \E n \in 0..Len(inbox[r]) : inbox' = [inbox EXCEPT ![r] = SubSeq(@, 1, n)]
    BY <2>3, PrefixElements, YieldElements
  <2> QED BY <1>5, <2>1, <2>2, <2>3
<1>8. \A i \in Replica, d \in Delivery : Owns(i, d)' => Owns(i, d)
  BY <1>6, <1>7, NoneIsNoDelivery DEF Owns
<1>9. Fail(r) => open'[r] \in {open[r], FALSE}
  BY <1>3
<1> QED BY <1>1, <1>2, <1>8, <1>9

\* The stages of the processes other than by a signal.
Onwards(r) ==
    /\ exits' = exits
    /\ \A i \in Replica \ {r} : stage'[i] = stage[i]
    /\ stage'[r] \in {stage[r], "up"} \/ (stage[r] # "up" /\ stage'[r] \in {"draining", "closed"})

LEMMA LeavingOnwards ==
  ASSUME LeavingInv, NEW r, Onwards(r)
  PROVE  /\ Leaving' \subseteq Leaving
         /\ IsFiniteSet(Leaving') /\ Cardinality(Leaving) \in Nat /\ Cardinality(Leaving') \in Nat
         /\ Cardinality(Leaving') <= Cardinality(Leaving)
<1>1. Leaving' \in SUBSET Leaving
  BY DEF Leaving, Onwards, LeavingInv
<1> QED BY <1>1, FS_Subset, FS_CardinalityType DEF LeavingInv

LEMMA LeavingStep == TypeInv /\ LeavingInv /\ [LifeNext]_lifeVars => LeavingInv'
<1> SUFFICES ASSUME TypeInv, LeavingInv, [LifeNext]_lifeVars PROVE LeavingInv'
  OBVIOUS
<1> USE DEF LeavingInv
<1>a. ASSUME NEW r \in Replica, Onwards(r),
             stage' \in [Replica -> {"up", "stopping", "draining", "closed"}],
             \A i \in Replica : stage'[i] \in {"draining", "closed"} => ~open'[i]
      PROVE  LeavingInv'
  BY <1>a, LeavingOnwards DEF Onwards
<1>b. ASSUME UNCHANGED <<stage, exits>>,
             \A i \in Replica : stage[i] \in {"draining", "closed"} => ~open'[i]
      PROVE  LeavingInv'
  BY <1>b DEF Leaving
<1>1. CASE Broker
  <2>1. open' = open /\ UNCHANGED <<stage, exits>>
    BY <1>1 DEF Broker, UnchangedLife, BrokerStep, Publish, AckWait, Deliver, BrokerReceives,
                BrokerIgnores, SettlementLost, replicaVars
  <2> QED BY <1>b, <2>1
<1>2. ASSUME NEW r \in Replica, Work(r) \/ WorkFails(r) PROVE LeavingInv'
  <2>1. /\ Proceed(r) \/ Fail(r)
        /\ UNCHANGED <<stage, exits>> /\ stage[r] # "closed"
        /\ stage[r] = "draining" => Fail(r) \/ ~open'[r]
    BY <1>2 DEF Work, WorkFails
  <2>2. stage[r] = "draining" => ~open[r]
    OBVIOUS
  <2> QED BY <1>b, <2>1, <2>2, ReplicaTakes
<1>3. ASSUME NEW r \in Replica, Linger(r) PROVE LeavingInv'
  <2>1. open' = open /\ UNCHANGED <<stage, exits>>
    BY <1>3 DEF Linger, TakeValid, Yield, LookupMiss, CreateNotification, RecordEvent
  <2> QED BY <1>b, <2>1
<1>4. ASSUME NEW r \in Replica, Signal(r) PROVE LeavingInv'
  <2>1. Leaving' = Leaving \union {r} /\ open' = open /\ exits' = exits + 1
    BY <1>4 DEF Signal, Leaving, vars, replicaVars
  <2>2. IsFiniteSet(Leaving')
    BY <2>1, FS_AddElement
  <2> QED BY <1>4, <2>1, <2>2 DEF Signal
<1>5. ASSUME NEW r \in Replica, Stop(r) PROVE LeavingInv'
  <2>1. Onwards(r) /\ stage' = [stage EXCEPT ![r] = "draining"] /\ open' = [open EXCEPT ![r] = FALSE]
    BY <1>5 DEF Stop, Onwards
  <2> QED BY <1>a, <2>1 DEF TypeInv, TypeOK
<1>6. ASSUME NEW r \in Replica, Drained(r) PROVE LeavingInv'
  <2>1. Onwards(r) /\ stage' = [stage EXCEPT ![r] = "closed"] /\ open' = open
    BY <1>6 DEF Drained, Onwards, vars, replicaVars
  <2> QED BY <1>a, <1>6, <2>1 DEF Drained
<1>7. ASSUME NEW r \in Replica, Uncopied(r) \/ Unsettled(r) \/ Discard(r) \/ Ask(r)
      PROVE  LeavingInv'
  <2>1. open' = open /\ UNCHANGED <<stage, exits>>
    BY <1>7 DEF Uncopied, Unsettled, Return, Discard, Yield, Ask, UnchangedLife, vars, replicaVars
  <2> QED BY <1>b, <2>1
<1>8. ASSUME NEW r \in Replica, Exit(r) \/ ProcessCrash(r) PROVE LeavingInv'
  <2>1. Onwards(r) /\ stage' = [stage EXCEPT ![r] = "up"] /\ open' = [open EXCEPT ![r] = FALSE]
    BY <1>8 DEF Exit, ProcessCrash, End, Onwards
  <2> QED BY <1>a, <2>1 DEF TypeInv, TypeOK
<1>9. CASE Find \/ Count \/ Respond \/ UNCHANGED lifeVars
  BY <1>9, <1>b DEF Find, Count, Respond, UnchangedLife, lifeVars, vars, replicaVars
<1> QED BY <1>1, <1>2, <1>3, <1>4, <1>5, <1>6, <1>7, <1>8, <1>9 DEF LifeNext

----------------------------------------------------------------------------
(* An exit pays for one delivery of each event: the one its process has    *)
(* when the consumer is stopped.  Until it has let that one go, the exit   *)
(* is a credit.                                                            *)

Has(r, e) == deliveries[e] > 0 /\ Owns(r, CurrentDelivery(e))

Credit(e) == {r \in Leaving : stage[r] = "stopping" \/ Has(r, e)}

Paid == [e \in Event |-> Spent + exits - Cardinality(Credit(e))]

LEMMA CreditTypes ==
  ASSUME LeavingInv, NEW e \in Event
  PROVE  IsFiniteSet(Credit(e)) /\ Cardinality(Credit(e)) \in Nat
<1>1. Credit(e) \in SUBSET Leaving
  BY DEF Credit
<1>2. IsFiniteSet(Credit(e))
  BY <1>1, FS_Subset DEF LeavingInv
<1> QED BY <1>2, FS_CardinalityType

LEMMA PaidTypes ==
  ASSUME TypeInv, LeavingInv, NEW p, p = Paid, NEW e \in Event
  PROVE  /\ p[e] \in Int /\ p[e] <= Spent + exits
         /\ p[e] = Spent + exits - Cardinality(Credit(e))
         /\ Spent \in Nat /\ exits \in Nat /\ Cardinality(Credit(e)) \in Nat
<1>1. Cardinality(Credit(e)) \in Nat /\ Spent \in Nat /\ exits \in Nat
  BY CreditTypes, SpentTypes DEF LeavingInv
<1>2. p[e] = Spent + exits - Cardinality(Credit(e))
  BY DEF Paid
<1> QED BY <1>1, <1>2

\* The deliveries the broker waits for change only by a new delivery, to a replica
\* that receives.
LEMMA HasKept ==
  ASSUME TypeInv, SafeInv, [Next]_vars, NEW i \in Replica, ~open[i], NEW e \in Event,
         Has(i, e)'
  PROVE  Has(i, e)
<1>1. deliveries \in [Event -> 0..MaxDeliveries] /\ inbox \in [Replica -> Seq(Delivery)]
      /\ \A f \in Event : deliveries[f] \in Nat
  BY DEF TypeInv, TypeOK, BrokerTypeOK
<1>2. ASSUME NEW r \in Replica, Proceed(r) \/ Fail(r) PROVE Has(i, e)
  <2>1. deliveries' = deliveries
    BY <1>2 DEF Proceed, Fail, Start, Consume, TakeMalformed, TakeUnknown, TakeValid, Yield,
       LookupHit, LookupMiss, CreateNotification, RecordEvent, Ack, DeadLetter, Term,
       Crash, Disconnect, LookupFails, CreateFails, CreateTimesOut, RecordFails,
       RecordTimesOut, DeadLetterFails, HandlerThrew, Send, brokerVars
  <2>2. deliveries[e] > 0 /\ CurrentDelivery(e) \in Delivery
    BY <1>1, <2>1 DEF Has, CurrentDelivery, Delivery
  <2>3. CurrentDelivery(e)' = CurrentDelivery(e)
    BY <2>1 DEF CurrentDelivery
  <2>4. PICK d \in Delivery : d = CurrentDelivery(e)
    BY <2>2
  <2>5. Owns(i, d)'
    BY <2>3, <2>4 DEF Has, Owns
  <2>6. Owns(i, d)
    BY <1>2, <2>5, ReplicaTakes
  <2> QED BY <2>2, <2>4, <2>6 DEF Has
<1>3. ASSUME NEW r \in Replica, NEW f \in Event, Deliver(r, f) PROVE Has(i, e)
  <2>1. /\ i # r /\ cur' = cur /\ inbox'[i] = inbox[i]
        /\ deliveries' = [deliveries EXCEPT ![f] = @ + 1]
    BY <1>1, <1>3 DEF Deliver, Dispatch
  <2>2. CASE e # f
    BY <1>1, <2>1, <2>2 DEF Has, Owns, CurrentDelivery
  <2>3. CASE e = f
    <3>1. PICK d : d = NextDelivery(e)
      OBVIOUS
    <3>2. d \in Delivery /\ ~Counted(d) /\ CurrentDelivery(e)' = d
      <4>1. deliveries[e] + 1 \in 1..MaxDeliveries /\ deliveries'[e] = deliveries[e] + 1
        BY <1>1, <1>3, <2>1, <2>3, MaxDeliveriesAssumption
           DEF Deliver, Dispatch, TypeInv, PhaseMatchesCount
      <4>2. ~(deliveries[e] + 1 <= deliveries[e])
        BY <1>1
      <4> QED BY <3>1, <4>1, <4>2 DEF NextDelivery, Delivery, Counted, CurrentDelivery
    <3>3. Owns(i, d)
      BY <2>1, <3>2 DEF Has, Owns
    <3> QED BY <3>2, <3>3, NoneIsNoDelivery
            DEF Owns, SafeInv, CountInv, TypeInv, BusyHasDelivery
  <2> QED BY <2>2, <2>3
<1>4. CASE UNCHANGED <<deliveries, cur, inbox>>
  BY <1>4 DEF Has, Owns, CurrentDelivery
<1> QED
  BY <1>2, <1>3, <1>4
  DEF Next, BrokerStep, vars, brokerVars, replicaVars, Publish, Store, AckWait, AckWaitExpires,
      BrokerReceives, ReceiveSettlement, BrokerIgnores, SettlementLost, DropSettlement

\* Credit that is used up is paid; it is never drawn again.
LEMMA CreditOnwards ==
  ASSUME TypeInv, TypeInv', LeavingInv, LeavingInv', NEW r, Onwards(r),
         Spent' >= Spent,
         NEW p, NEW q, p = Paid, q = Paid',
         \A i \in Replica, e \in Event :
            stage[i] \in {"draining", "closed"} /\ Has(i, e)' => Has(i, e)
  PROVE  /\ Pays(p, q, 0)
         /\ Spent' = Spent + 1 => Pays(p, q, 1)
         /\ \A e \in Event : r \in Replica /\ Has(r, e) /\ stage[r] \in {"draining", "closed"}
              => q[e] > p[e] \/ Has(r, e)'
<1>1. ASSUME NEW e \in Event
      PROVE  /\ p[e] \in Int /\ q[e] \in Int /\ q[e] >= p[e]
             /\ Spent' = Spent + 1 => q[e] >= p[e] + 1
             /\ r \in Replica /\ Has(r, e) /\ stage[r] \in {"draining", "closed"}
                  => q[e] > p[e] \/ Has(r, e)'
  <2>1. Credit(e)' \subseteq Credit(e)
    BY DEF Credit, Leaving, Onwards, LeavingInv
  <2>2. IsFiniteSet(Credit(e)) /\ Cardinality(Credit(e)) \in Nat
    BY CreditTypes
  <2>3. /\ Cardinality(Credit(e)') \in Nat /\ Cardinality(Credit(e)') <= Cardinality(Credit(e))
        /\ Credit(e)' # Credit(e) => Cardinality(Credit(e)') < Cardinality(Credit(e))
    <3>1. PICK c : c = Credit(e)'
      OBVIOUS
    <3>2. /\ Cardinality(c) \in Nat /\ Cardinality(c) <= Cardinality(Credit(e))
          /\ c # Credit(e) => Cardinality(c) < Cardinality(Credit(e))
      <4>1. IsFiniteSet(c) /\ Cardinality(c) <= Cardinality(Credit(e))
        BY <2>1, <2>2, <3>1, FS_Subset
      <4>2. Cardinality(c) \in Nat
        BY <4>1, FS_CardinalityType
      <4>3. Cardinality(c) = Cardinality(Credit(e)) => c = Credit(e)
        BY <2>1, <2>2, <3>1, FS_Subset
      <4> QED BY <2>2, <4>1, <4>2, <4>3
    <3> QED BY <3>1, <3>2
  <2>4. p[e] = Spent + exits - Cardinality(Credit(e)) /\ Spent \in Nat /\ exits \in Nat
    BY PaidTypes
  <2>5. q[e] = Spent' + exits - Cardinality(Credit(e)')
    <3>1. Paid'[e] = Spent' + exits' - Cardinality(Credit(e)')
      BY DEF Paid
    <3> QED BY <3>1 DEF Onwards
  <2>6. Spent' \in Nat
    BY SpentTypes
  <2>7. p[e] \in Int /\ q[e] \in Int /\ q[e] >= p[e]
    BY <2>2, <2>3, <2>4, <2>5, <2>6
  <2>8. Spent' = Spent + 1 => q[e] >= p[e] + 1
    BY <2>2, <2>3, <2>4, <2>5, <2>6
  <2>9. Credit(e)' # Credit(e) => q[e] > p[e]
    BY <2>2, <2>3, <2>4, <2>5, <2>6
  <2>10. r \in Replica /\ Has(r, e) /\ stage[r] \in {"draining", "closed"} /\ ~Has(r, e)'
          => Credit(e)' # Credit(e)
    <3>1. SUFFICES ASSUME r \in Replica, Has(r, e), stage[r] \in {"draining", "closed"}, ~Has(r, e)'
                   PROVE  r \in Credit(e) /\ r \notin Credit(e)'
      OBVIOUS
    <3>2. r \in Credit(e)
      BY <3>1 DEF Credit, Leaving
    <3>3. stage'[r] # "stopping"
      BY <3>1 DEF Onwards
    <3> QED BY <3>1, <3>2, <3>3 DEF Credit
  <2> QED BY <2>7, <2>8, <2>9, <2>10
<1> QED BY <1>1 DEF Pays

\* A step of the consumer is paid for by its fault, if any.
LEMMA PaidByFault ==
  ASSUME TypeInv, TypeInv', SafeInv, LeavingInv, LeavingInv', NEW r, Onwards(r), [Next]_vars,
         NEW p, NEW q, p = Paid, q = Paid', ChargeInv(p)
  PROVE  ChargeInv(q)'
<1>1. Spent \in Nat /\ ((NoFault /\ Spent' = Spent) \/ Spent' = Spent + 1)
  BY StepSpends, SpentTypes
<1>2. \A i \in Replica, e \in Event :
          stage[i] \in {"draining", "closed"} /\ Has(i, e)' => Has(i, e)
  BY HasKept DEF LeavingInv
<1>3. Spent' >= Spent
  BY <1>1
<1>4. Pays(p, q, 0) /\ (Spent' = Spent + 1 => Pays(p, q, 1))
  BY <1>2, <1>3, CreditOnwards
<1> QED BY <1>1, <1>4, ChargeStep

\* What a process lets go of once it drains was paid for by its exit.
LEMMA PaidByExit ==
  ASSUME TypeInv, TypeInv', LeavingInv, LeavingInv', NEW r \in Replica, Onwards(r), LetsGo(r),
         UNCHANGED <<cur, inbox>> \/ stage[r] \in {"draining", "closed"},
         NEW p, NEW q, p = Paid, q = Paid', ChargeInv(p)
  PROVE  ChargeInv(q)'
<1>1. /\ UNCHANGED brokerVars /\ phase' = phase /\ deliveries' = deliveries /\ wire' = wire
      /\ Spent' = Spent
  BY DEF LetsGo, brokerVars, faultVars, Spent
<1>2. /\ \A i \in Replica \ {r} : cur'[i] = cur[i] /\ inbox'[i] = inbox[i]
      /\ cur'[r] \in {cur[r], None} /\ \A d : ElementOf(d, inbox'[r]) => ElementOf(d, inbox[r])
  BY LetsGoEffects
<1>3. \A e \in Event : deliveries[e] > 0 => CurrentDelivery(e) \in Delivery
  BY MaxDeliveriesAssumption DEF CurrentDelivery, Delivery, TypeInv, TypeOK, BrokerTypeOK
<1>4. \A i \in Replica, e \in Event : Has(i, e)' => Has(i, e)
  <2> SUFFICES ASSUME NEW i \in Replica, NEW e \in Event, Has(i, e)' PROVE Has(i, e)
    OBVIOUS
  <2>1. deliveries[e] > 0 /\ CurrentDelivery(e)' = CurrentDelivery(e) /\ Owns(i, CurrentDelivery(e))'
    BY <1>1 DEF Has, CurrentDelivery
  <2>2. PICK d \in Delivery : d = CurrentDelivery(e)
    BY <1>3, <2>1
  <2>3. Owns(i, d)' => Owns(i, d)
    BY <1>2, NoneIsNoDelivery DEF Owns
  <2>4. Owns(i, d)'
    BY <2>1, <2>2 DEF Owns
  <2> QED BY <2>1, <2>2, <2>3, <2>4 DEF Has
<1>5. Spent' >= Spent
  BY <1>1, SpentTypes
<1>6. /\ Pays(p, q, 0)
      /\ \A e \in Event : Has(r, e) /\ stage[r] \in {"draining", "closed"}
              => q[e] > p[e] \/ Has(r, e)'
  BY <1>4, <1>5, CreditOnwards
<1>7. ASSUME NEW e \in Event, Alive(e) PROVE Alive(e)' \/ q[e] > p[e]
  <2>1. PICK d : d = CurrentDelivery(e) /\ d = CurrentDelivery(e)'
    BY <1>1 DEF CurrentDelivery
  <2>2. deliveries[e] > 0 /\ phase'[e] = "inflight"
    BY <1>1, <1>7 DEF ChargeInv, Alive
  <2>3. Held(d)' => Alive(e)'
    BY <2>1, <2>2 DEF Alive, Held
  <2>4. CASE \E s \in wire : s.delivery = d
    BY <1>1, <2>3, <2>4 DEF Held
  <2>5. ASSUME NEW i \in Replica, Owns(i, d) PROVE Alive(e)' \/ q[e] > p[e]
    <3>1. CASE i # r \/ UNCHANGED <<cur, inbox>>
      BY <1>2, <2>3, <2>5, <3>1 DEF Owns, Held
    <3>2. CASE i = r /\ stage[r] \in {"draining", "closed"}
      <4>1. Has(r, e)
        BY <2>1, <2>2, <2>5, <3>2 DEF Has
      <4>2. Has(r, e)' => Held(d)'
        BY <2>1 DEF Has, Owns, Held
      <4> QED BY <1>6, <2>3, <3>2, <4>1, <4>2
    <3> QED BY <3>1, <3>2
  <2> QED BY <1>7, <2>1, <2>4, <2>5 DEF Alive, Held, Owns
<1>8. \A i \in Replica : pc'[i] \in {"deadLetter", "term"} =>
          pc[i] \in {"deadLetter", "term"} /\ cur'[i] = cur[i]
  BY LetsGoEffects
<1> QED BY <1>1, <1>6, <1>7, <1>8, ChargeReleased

\* A signal opens a credit.
LEMMA PaidBySignal ==
  ASSUME TypeInv, TypeInv', SafeInv, LeavingInv, LeavingInv', NEW r \in Replica, Signal(r),
         NEW p, NEW q, p = Paid, q = Paid', ChargeInv(p)
  PROVE  ChargeInv(q)'
<1>1. /\ UNCHANGED vars /\ stage' = [stage EXCEPT ![r] = "stopping"] /\ exits' = exits + 1
      /\ stage[r] = "up"
  BY DEF Signal
<1>2. Spent' = Spent /\ Spent \in Nat /\ exits \in Nat
  BY <1>1, SpentTypes DEF vars, faultVars, Spent, LeavingInv
<1>3. ASSUME NEW e \in Event PROVE p[e] \in Int /\ q[e] \in Int /\ q[e] >= p[e]
  <2>1. \A i \in Replica : Has(i, e)' <=> Has(i, e)
    BY <1>1 DEF vars, brokerVars, replicaVars, Has, Owns, CurrentDelivery
  <2>2. PICK c : c = Credit(e) \union {r} /\ c = Credit(e)'
    <3>1. Leaving' = Leaving \union {r}
      BY <1>1 DEF Leaving, LeavingInv
    <3>2. \A i \in Replica : stage'[i] = IF i = r THEN "stopping" ELSE stage[i]
      BY <1>1 DEF LeavingInv
    <3>3. Credit(e)' = Credit(e) \union {r}
      BY <2>1, <3>1, <3>2 DEF Credit, Leaving
    <3> QED BY <3>3
  <2>3. IsFiniteSet(Credit(e)) /\ Cardinality(Credit(e)) \in Nat
    BY CreditTypes
  <2>4. Cardinality(c) \in {Cardinality(Credit(e)), Cardinality(Credit(e)) + 1}
    BY <2>2, <2>3, FS_AddElement
  <2>5. p[e] = Spent + exits - Cardinality(Credit(e))
    BY DEF Paid
  <2>6. q[e] = Spent + (exits + 1) - Cardinality(c)
    <3>1. Paid'[e] = Spent' + exits' - Cardinality(Credit(e)')
      BY DEF Paid
    <3> QED BY <1>1, <1>2, <2>2, <3>1
  <2> QED BY <1>2, <2>3, <2>4, <2>5, <2>6
<1>4. Pays(p, q, 0)
  BY <1>3 DEF Pays
<1> QED BY <1>1, <1>4, ChargeStep DEF vars, NoFault

LEMMA PaidStep ==
  ASSUME TypeInv, TypeInv', SafeInv, LeavingInv, LeavingInv', ChargeInv(Paid), [LifeNext]_lifeVars
  PROVE  ChargeInv(Paid)'
<1>1. PICK p : p = Paid
  OBVIOUS
<1>2. PICK q : q = Paid'
  OBVIOUS
<1>3. ChargeInv(p)
  BY <1>1
<1>4. UNCHANGED <<stage, exits>> => \A r : Onwards(r)
  BY DEF Onwards
<1>5. ChargeInv(q)'
  <2>1. CASE Broker \/ Find \/ Count \/ Respond \/ UNCHANGED lifeVars
    <3>1. [Next]_vars /\ UNCHANGED <<stage, exits>>
      BY <2>1 DEF Broker, Find, Count, Respond, lifeVars, UnchangedLife, Next
    <3> QED BY <1>1, <1>2, <1>3, <1>4, <3>1, PaidByFault
  <2>2. ASSUME NEW r \in Replica, Work(r) \/ WorkFails(r) \/ Linger(r) \/ Ask(r)
        PROVE  ChargeInv(q)'
    <3>1. [Next]_vars /\ UNCHANGED <<stage, exits>>
      BY <2>2 DEF Work, WorkFails, Linger, Ask, UnchangedLife, Next, Proceed
    <3> QED BY <1>1, <1>2, <1>3, <1>4, <3>1, PaidByFault
  <2>3. ASSUME NEW r \in Replica, Drained(r) \/ ProcessCrash(r) PROVE ChargeInv(q)'
    <3>1. [Next]_vars
      BY <2>3 DEF Drained, ProcessCrash, End, Next, Fail, Crash
    <3>2. Onwards(r)
      BY <2>3 DEF Drained, ProcessCrash, End, Onwards, LeavingInv
    <3> QED BY <1>1, <1>2, <1>3, <3>1, <3>2, PaidByFault
  <2>4. ASSUME NEW r \in Replica, Signal(r) PROVE ChargeInv(q)'
    BY <1>1, <1>2, <1>3, <2>4, PaidBySignal
  <2>5. ASSUME NEW r \in Replica,
               Stop(r) \/ Uncopied(r) \/ Unsettled(r) \/ Discard(r) \/ Exit(r)
        PROVE  ChargeInv(q)'
    <3>1. Onwards(r) /\ (UNCHANGED <<cur, inbox>> \/ stage[r] \in {"draining", "closed"})
      BY <2>5 DEF Stop, Uncopied, Unsettled, Discard, Exit, End, Onwards, LeavingInv
    <3> QED BY <1>1, <1>2, <1>3, <2>5, <3>1, LetsGoSteps, PaidByExit
  <2> QED BY <2>1, <2>2, <2>3, <2>4, <2>5 DEF LifeNext
<1> QED BY <1>2, <1>5

LEMMA PaidInit == LifeInit => ChargeInv(Paid)
<1> SUFFICES ASSUME LifeInit PROVE \A e \in Event : Paid[e] = 0
  BY ChargeInit DEF LifeInit
<1>1. Spent = 0 /\ exits = 0
  BY BoundsAssumption DEF LifeInit, Init, Spent
<1>2. \A e \in Event : Credit(e) = {}
  BY DEF LifeInit, Credit, Leaving
<1>3. \A e \in Event : Cardinality(Credit(e)) = 0
  BY <1>2, FS_EmptySet, Zenon
<1>4. \A e \in Event : Paid[e] = Spent + exits - Cardinality(Credit(e))
  BY DEF Paid
<1>5. 0 + 0 - 0 = 0
  OBVIOUS
<1> QED BY <1>1, <1>3, <1>4, <1>5, Zenon

\* Deployments cost deliveries like faults do, one each: below max_deliver of
\* both together no event is given up (consumer.js:48, 215-220).
THEOREM ExitsAreTolerated == SafeLife => []RestartsTolerated
<1>1. ASSUME TypeInv, LeavingInv, ChargeInv(Paid) PROVE RestartsTolerated
  <2> SUFFICES ASSUME Spent + exits < MaxDeliveries,
                      NEW e \in Event, phase[e] \in {"termed", "exhausted"}
               PROVE  Malformed(e)
    BY DEF RestartsTolerated, Spent
  <2>1. PICK p : p = Paid
    OBVIOUS
  <2>2. ~(MaxDeliveries <= p[e])
    BY <1>1, <2>1, PaidTypes, MaxDeliveriesAssumption
  <2> QED BY <1>1, <2>1, <2>2 DEF ChargeInv, Excused
<1>2. TypeInv /\ TypeInv' /\ SafeInv /\ LeavingInv /\ LeavingInv' /\ ChargeInv(Paid)
        /\ [LifeNext]_lifeVars => ChargeInv(Paid)'
  BY PaidStep
<1> QED BY <1>1, <1>2, LifeSafeInvariant, LeavingInit, LeavingStep, PaidInit, PTL DEF SafeLife

----------------------------------------------------------------------------
(* The rows of an event.  An exit may end a handler between its two writes *)
(* only by taking a process away that was counted among the leaving.       *)

Rows(e) == {d \in notifications : d.event = e}

\* Whoever looks the event up, or could handle it, finds its row's handler at work
\* or done.
UnderWay(e) == e \in ledger \/ \E r \in Replica : pc[r] = "record" /\ cur[r].event = e

HandlersFirst == \A r \in Replica : pc[r] = "handle" => cur[r].event \notin ledger

Allowance(e) == IF UnderWay(e) THEN exits + 1 ELSE exits

RowsInv ==
    /\ IsFiniteSet(notifications)
    /\ Without(Duplicating) =>
          /\ HandlersFirst
          /\ \A e \in Event : Cardinality(Rows(e)) + Cardinality(Leaving) <= Allowance(e)

\* What a replica does to the two collections.
LEMMA RowWriters ==
  ASSUME TypeInv, NEW r \in Replica, Proceed(r) \/ Fail(r), Without(Duplicating)'
  PROVE  /\ Without(Duplicating)
         /\ \A i \in Replica \ {r} : pc'[i] = pc[i] /\ cur'[i] = cur[i]
         /\ \/ CreateNotification(r)
            \/ UNCHANGED <<pc, cur, ledger, notifications>>
            \/ /\ UNCHANGED <<ledger, notifications>>
               /\ pc[r] # "record" /\ pc'[r] # "record"
               /\ pc'[r] = "handle" => cur'[r].event \notin ledger
            \/ /\ pc[r] = "record" /\ pc'[r] \in {"ack", "idle"}
               /\ ledger' = ledger \union {cur[r].event} /\ notifications' = notifications
<1> USE DEF NoFault, Fault, faultVars, storeVars, Goto, Return
<1>1. /\ pc \in [Replica -> {"down", "idle", "lookup", "handle", "record", "ack",
                             "deadLetter", "term"}]
      /\ cur \in [Replica -> Delivery \union {None}]
  BY DEF TypeInv, TypeOK
<1>2. Without(Duplicating)
  BY DEF Without, Proceed, Fail, Start, Consume, TakeMalformed, TakeUnknown, TakeValid, Yield,
         LookupHit, LookupMiss, CreateNotification, RecordEvent, Ack, DeadLetter, Term,
         Crash, Disconnect, LookupFails, CreateFails, CreateTimesOut, RecordFails,
         RecordTimesOut, DeadLetterFails
<1>3. CASE Crash(r) \/ CreateTimesOut(r) \/ RecordFails(r)
  BY <1>3 DEF Crash, CreateTimesOut, RecordFails, Without, Duplicating
<1>4. CASE Consume(r) \/ Disconnect(r) \/ TakeUnknown(r)
  BY <1>2, <1>4 DEF Consume, Disconnect, TakeUnknown, Yield
<1>5. CASE Start(r) \/ TakeMalformed(r) \/ TakeValid(r) \/ LookupHit(r) \/ LookupMiss(r)
             \/ Ack(r) \/ DeadLetter(r) \/ Term(r) \/ LookupFails(r) \/ DeadLetterFails(r)
  BY <1>1, <1>2, <1>5 DEF Start, TakeMalformed, TakeValid, Yield, LookupHit, LookupMiss, Ack,
     DeadLetter, Term, LookupFails, DeadLetterFails
<1>6. CASE CreateFails(r)
  BY <1>1, <1>2, <1>6 DEF CreateFails, HandlerThrew
<1>7. CASE CreateNotification(r)
  BY <1>1, <1>2, <1>7 DEF CreateNotification
<1>8. CASE RecordEvent(r) \/ RecordTimesOut(r)
  BY <1>1, <1>2, <1>8 DEF RecordEvent, RecordTimesOut, WriteLedger
<1> QED BY <1>3, <1>4, <1>5, <1>6, <1>7, <1>8 DEF Proceed, Fail

\* A row is written only while nobody else is at work on its event.
LEMMA RowStep ==
  ASSUME TypeInv, SoleInv, [Next]_vars, Without(Duplicating)', Without(Duplicating) => HandlersFirst
  PROVE  /\ Without(Duplicating) /\ HandlersFirst'
         /\ \A e \in Event :
               \/ Rows(e)' = Rows(e) /\ (UnderWay(e) => UnderWay(e)')
               \/ ~UnderWay(e) /\ UnderWay(e)' /\ \E d : Rows(e)' = Rows(e) \union {d}
<1>1. CASE BrokerStep \/ UNCHANGED vars
  <2>1. UNCHANGED <<pc, cur, ledger, notifications>> /\ faulted \subseteq faulted'
    BY <1>1 DEF BrokerStep, Publish, AckWait, Deliver, BrokerReceives, BrokerIgnores,
       SettlementLost, Fault, NoFault, faultVars, storeVars, replicaVars, vars
  <2>2. Without(Duplicating)
    BY <2>1 DEF Without
  <2> QED BY <2>1, <2>2 DEF HandlersFirst, Rows, UnderWay
<1>2. ASSUME NEW r \in Replica, Proceed(r) \/ Fail(r)
      PROVE  /\ Without(Duplicating) /\ HandlersFirst'
             /\ \A e \in Event :
                   \/ Rows(e)' = Rows(e) /\ (UnderWay(e) => UnderWay(e)')
                   \/ ~UnderWay(e) /\ UnderWay(e)' /\ \E d : Rows(e)' = Rows(e) \union {d}
  <2>1. Without(Duplicating) /\ \A i \in Replica \ {r} : pc'[i] = pc[i] /\ cur'[i] = cur[i]
    BY <1>2, RowWriters
  <2>2. HandlersFirst
    BY <2>1
  <2>3. \A i \in Replica :
           Busy(i) /\ Busy(r) /\ cur[i].event = cur[r].event => i = r
    BY <2>1, SoleHandler
  <2>4. CASE CreateNotification(r)
    <3>1. /\ pc[r] = "handle" /\ pc'[r] = "record" /\ cur' = cur /\ ledger' = ledger
          /\ notifications' = notifications \union {cur[r]}
      BY <2>4 DEF CreateNotification, WriteNotification, Goto, TypeInv, TypeOK
    <3>2. HandlersFirst'
      BY <2>1, <2>2, <3>1 DEF HandlersFirst
    <3>3. \A e \in Event : e = cur[r].event => ~UnderWay(e) /\ UnderWay(e)'
      BY <2>2, <2>3, <3>1 DEF HandlersFirst, UnderWay, Busy
    <3>4. \A e \in Event : UnderWay(e) => UnderWay(e)'
      BY <2>1, <3>1 DEF UnderWay
    <3>5. ASSUME NEW e \in Event
          PROVE  \/ Rows(e)' = Rows(e)
                 \/ e = cur[r].event /\ \E d : Rows(e)' = Rows(e) \union {d}
      BY <3>1 DEF Rows
    <3> QED BY <2>1, <3>2, <3>3, <3>4, <3>5
  <2>5. CASE UNCHANGED <<pc, cur, ledger, notifications>>
    BY <2>1, <2>2, <2>5 DEF HandlersFirst, Rows, UnderWay
  <2>6. CASE /\ UNCHANGED <<ledger, notifications>>
             /\ pc[r] # "record" /\ pc'[r] # "record"
             /\ pc'[r] = "handle" => cur'[r].event \notin ledger
    BY <2>1, <2>2, <2>6 DEF HandlersFirst, Rows, UnderWay
  <2>7. CASE /\ pc[r] = "record" /\ pc'[r] \in {"ack", "idle"}
             /\ ledger' = ledger \union {cur[r].event} /\ notifications' = notifications
    <3>1. HandlersFirst'
      BY <2>1, <2>2, <2>3, <2>7 DEF HandlersFirst, Busy
    <3>2. \A e \in Event : Rows(e)' = Rows(e) /\ (UnderWay(e) => UnderWay(e)')
      BY <2>1, <2>7 DEF Rows, UnderWay
    <3> QED BY <2>1, <3>1, <3>2
  <2> QED BY <1>2, <2>4, <2>5, <2>6, <2>7, RowWriters
<1> QED BY <1>1, <1>2 DEF Next

LEMMA RowsTypes ==
  ASSUME IsFiniteSet(notifications), NEW e
  PROVE  IsFiniteSet(Rows(e)) /\ Cardinality(Rows(e)) \in Nat
<1>1. Rows(e) \in SUBSET notifications
  BY DEF Rows
<1>2. IsFiniteSet(Rows(e))
  BY <1>1, FS_Subset
<1> QED BY <1>2, FS_CardinalityType

\* A step of the consumer during which nobody leaves for good.
LEMMA RowsConsumer ==
  ASSUME TypeInv, SoleInv, LeavingInv, LeavingInv', RowsInv, [Next]_vars,
         NEW r, Onwards(r)
  PROVE  RowsInv'
<1>1. IsFiniteSet(notifications')
  <2>1. notifications' = notifications \/ \E d : notifications' = notifications \union {d}
    BY NotificationWrites
  <2> QED BY <2>1, FS_AddElement DEF RowsInv
<1> SUFFICES ASSUME Without(Duplicating)'
             PROVE  HandlersFirst' /\ \A e \in Event :
                       Cardinality(Rows(e)') + Cardinality(Leaving') <= Allowance(e)'
  BY <1>1 DEF RowsInv
<1>2. /\ Without(Duplicating) /\ HandlersFirst'
      /\ \A e \in Event :
            \/ Rows(e)' = Rows(e) /\ (UnderWay(e) => UnderWay(e)')
            \/ ~UnderWay(e) /\ UnderWay(e)' /\ \E d : Rows(e)' = Rows(e) \union {d}
  BY RowStep DEF RowsInv
<1>3. /\ Cardinality(Leaving) \in Nat /\ Cardinality(Leaving') \in Nat
      /\ Cardinality(Leaving') <= Cardinality(Leaving)
  BY LeavingOnwards
<1>4. ASSUME NEW e \in Event
      PROVE  Cardinality(Rows(e)') + Cardinality(Leaving') <= Allowance(e)'
  <2>1. IsFiniteSet(Rows(e)) /\ Cardinality(Rows(e)) \in Nat
    BY RowsTypes DEF RowsInv
  <2>2. Cardinality(Rows(e)) + Cardinality(Leaving) <= Allowance(e)
    BY <1>2 DEF RowsInv
  <2>3. exits' = exits /\ exits \in Nat
    BY DEF Onwards, LeavingInv
  <2>4. CASE Rows(e)' = Rows(e) /\ (UnderWay(e) => UnderWay(e)')
    BY <1>3, <2>1, <2>2, <2>3, <2>4 DEF Allowance
  <2>5. CASE ~UnderWay(e) /\ UnderWay(e)' /\ \E d : Rows(e)' = Rows(e) \union {d}
    <3>1. PICK d : Rows(e)' = Rows(e) \union {d}
      BY <2>5
    <3>2. Cardinality(Rows(e) \union {d}) \in {Cardinality(Rows(e)), Cardinality(Rows(e)) + 1}
      BY <2>1, FS_AddElement
    <3>3. Cardinality(Rows(e)') \in {Cardinality(Rows(e)), Cardinality(Rows(e)) + 1}
      BY <3>1, <3>2
    <3>4. Allowance(e) = exits /\ Allowance(e)' = exits + 1
      BY <2>3, <2>5 DEF Allowance
    <3> QED BY <1>3, <2>1, <2>2, <2>3, <3>3, <3>4
  <2> QED BY <1>2, <2>4, <2>5
<1> QED BY <1>2, <1>4

\* Who lets go of a record still to be written ends, and was leaving.
LEMMA RowsExit ==
  ASSUME TypeInv, LeavingInv, LeavingInv', RowsInv, NEW r \in Replica, Onwards(r), LetsGo(r),
         \/ pc[r] = "record" => pc'[r] = "record" /\ cur'[r] = cur[r]
         \/ stage[r] # "up" /\ stage'[r] = "up"
  PROVE  RowsInv'
<1>1. UNCHANGED <<ledger, notifications>> /\ faulted' = faulted
  BY DEF LetsGo, storeVars, faultVars
<1>2. \A i \in Replica : /\ i # r => pc'[i] = pc[i] /\ cur'[i] = cur[i]
                         /\ pc'[i] = "handle" => pc[i] = "handle" /\ cur'[i] = cur[i]
  BY LetsGoEffects
<1>3. /\ Cardinality(Leaving) \in Nat /\ Cardinality(Leaving') \in Nat
      /\ Cardinality(Leaving') <= Cardinality(Leaving)
  BY LeavingOnwards
<1>4. stage[r] # "up" /\ stage'[r] = "up" => Cardinality(Leaving') = Cardinality(Leaving) - 1
  <2> SUFFICES ASSUME stage[r] # "up", stage'[r] = "up"
               PROVE  Cardinality(Leaving') = Cardinality(Leaving) - 1
    OBVIOUS
  <2>1. r \in Leaving /\ Leaving' = Leaving \ {r}
    BY DEF Leaving, Onwards
  <2>2. Cardinality(Leaving \ {r}) = Cardinality(Leaving) - 1
    BY <2>1, FS_RemoveElement DEF LeavingInv
  <2> QED BY <2>1, <2>2
<1> SUFFICES ASSUME Without(Duplicating)'
             PROVE  HandlersFirst' /\ \A e \in Event :
                       Cardinality(Rows(e)') + Cardinality(Leaving') <= Allowance(e)'
  BY <1>1 DEF RowsInv
<1>5. Without(Duplicating)
  BY <1>1 DEF Without
<1>6. HandlersFirst'
  BY <1>1, <1>2, <1>5 DEF HandlersFirst, RowsInv
<1>7. ASSUME NEW e \in Event
      PROVE  Cardinality(Rows(e)') + Cardinality(Leaving') <= Allowance(e)'
  <2>1. Rows(e)' = Rows(e) /\ Cardinality(Rows(e)) \in Nat
    BY <1>1, RowsTypes DEF Rows, RowsInv
  <2>2. Cardinality(Rows(e)) + Cardinality(Leaving) <= Allowance(e)
    BY <1>5 DEF RowsInv
  <2>3. exits' = exits /\ exits \in Nat
    BY DEF Onwards, LeavingInv
  <2>4. CASE pc[r] = "record" => pc'[r] = "record" /\ cur'[r] = cur[r]
    <3>1. UnderWay(e) => UnderWay(e)'
      BY <1>1, <1>2, <2>4 DEF UnderWay
    <3> QED BY <1>3, <2>1, <2>2, <2>3, <3>1 DEF Allowance
  <2>5. CASE stage[r] # "up" /\ stage'[r] = "up"
    BY <1>3, <1>4, <2>1, <2>2, <2>3, <2>5 DEF Allowance
  <2> QED BY <2>4, <2>5
<1> QED BY <1>6, <1>7

LEMMA RowsSignal ==
  ASSUME LeavingInv, RowsInv, NEW r \in Replica, Signal(r)
  PROVE  RowsInv'
<1>1. /\ UNCHANGED <<pc, cur, ledger, notifications, faulted>> /\ exits' = exits + 1
      /\ stage[r] = "up" /\ stage' = [stage EXCEPT ![r] = "stopping"]
  BY DEF Signal, vars, replicaVars, storeVars, faultVars
<1>2. Leaving' = Leaving \union {r} /\ r \notin Leaving
  BY <1>1 DEF Leaving, LeavingInv
<1>3. Cardinality(Leaving \union {r}) = Cardinality(Leaving) + 1 /\ Cardinality(Leaving) \in Nat
  BY <1>2, FS_AddElement, FS_CardinalityType DEF LeavingInv
<1>4. Cardinality(Leaving') = Cardinality(Leaving) + 1
  BY <1>2, <1>3
<1>5. ASSUME NEW e \in Event, Cardinality(Rows(e)) + Cardinality(Leaving) <= Allowance(e)
      PROVE  Cardinality(Rows(e)') + Cardinality(Leaving') <= Allowance(e)'
  <2>1. Rows(e)' = Rows(e) /\ (UnderWay(e)' <=> UnderWay(e)) /\ Cardinality(Rows(e)) \in Nat
    BY <1>1, RowsTypes DEF Rows, UnderWay, RowsInv
  <2>2. exits \in Nat
    BY DEF LeavingInv
  <2> QED BY <1>1, <1>3, <1>4, <1>5, <2>1, <2>2 DEF Allowance
<1>6. \A e \in Event : Cardinality(Rows(e)) + Cardinality(Leaving) <= Allowance(e)
         => Cardinality(Rows(e)') + Cardinality(Leaving') <= Allowance(e)'
  BY <1>5
<1>7. (Without(Duplicating)' <=> Without(Duplicating)) /\ (HandlersFirst => HandlersFirst')
  BY <1>1 DEF Without, HandlersFirst
<1> QED BY <1>1, <1>6, <1>7 DEF RowsInv

LEMMA RowsInit == LifeInit => RowsInv
<1> SUFFICES ASSUME LifeInit PROVE RowsInv
  OBVIOUS
<1>1. /\ notifications = {} /\ exits = 0 /\ Leaving = {} /\ HandlersFirst
      /\ IsFiniteSet(notifications)
  BY FS_EmptySet DEF LifeInit, Init, Leaving, HandlersFirst
<1>2. \A e \in Event : Rows(e) = {} /\ ~UnderWay(e)
  BY DEF LifeInit, Init, Rows, UnderWay
<1>3. Cardinality({}) = 0
  BY FS_EmptySet
<1>4. \A e \in Event : Cardinality(Rows(e)) = 0
  BY <1>2, <1>3, Zenon
<1>5. Cardinality(Leaving) = 0
  BY <1>1, <1>3, Zenon
<1>6. \A e \in Event : Allowance(e) = 0
  BY <1>1, <1>2 DEF Allowance
<1>7. \A e \in Event : Cardinality(Rows(e)) + Cardinality(Leaving) <= Allowance(e)
  <2>1. 0 + 0 <= 0
    OBVIOUS
  <2> QED BY <1>4, <1>5, <1>6, <2>1, Zenon
<1> QED BY <1>1, <1>7 DEF RowsInv

LEMMA RowsStep ==
  ASSUME TypeInv, SoleInv, LeavingInv, LeavingInv', RowsInv, [LifeNext]_lifeVars
  PROVE  RowsInv'
<1>1. UNCHANGED <<stage, exits>> => \A r : Onwards(r)
  BY DEF Onwards
<1>2. CASE Broker \/ Find \/ Count \/ Respond \/ UNCHANGED lifeVars
  <2>1. [Next]_vars /\ UNCHANGED <<stage, exits>>
    BY <1>2 DEF Broker, Find, Count, Respond, lifeVars, UnchangedLife, Next
  <2> QED BY <1>1, <2>1, RowsConsumer
<1>3. ASSUME NEW r \in Replica, Work(r) \/ WorkFails(r) \/ Linger(r) \/ Ask(r) PROVE RowsInv'
  <2>1. [Next]_vars /\ UNCHANGED <<stage, exits>>
    BY <1>3 DEF Work, WorkFails, Linger, Ask, UnchangedLife, Next, Proceed
  <2> QED BY <1>1, <2>1, RowsConsumer
<1>4. ASSUME NEW r \in Replica, Drained(r) \/ ProcessCrash(r) PROVE RowsInv'
  <2>1. [Next]_vars
    BY <1>4 DEF Drained, ProcessCrash, End, Next, Fail, Crash
  <2>2. Onwards(r)
    BY <1>4 DEF Drained, ProcessCrash, End, Onwards, LeavingInv
  <2> QED BY <2>1, <2>2, RowsConsumer
<1>5. ASSUME NEW r \in Replica, Signal(r) PROVE RowsInv'
  BY <1>5, RowsSignal
<1>6. ASSUME NEW r \in Replica,
             Stop(r) \/ Uncopied(r) \/ Unsettled(r) \/ Discard(r) \/ Exit(r)
      PROVE  RowsInv'
  <2>1. Onwards(r)
    BY <1>6 DEF Stop, Uncopied, Unsettled, Discard, Exit, End, Onwards, LeavingInv
  <2>2. CASE Stop(r) \/ Uncopied(r) \/ Unsettled(r) \/ Discard(r)
    <3>1. pc[r] = "record" => pc'[r] = "record" /\ cur'[r] = cur[r]
      BY <2>2 DEF Stop, Uncopied, Unsettled, Discard
    <3> QED BY <1>6, <2>1, <3>1, LetsGoSteps, RowsExit
  <2>3. CASE Exit(r)
    <3>1. stage[r] # "up" /\ stage'[r] = "up"
      BY <2>3 DEF Exit, End, LeavingInv
    <3> QED BY <1>6, <2>1, <3>1, LetsGoSteps, RowsExit
  <2> QED BY <1>6, <2>2, <2>3
<1> QED BY <1>2, <1>3, <1>4, <1>5, <1>6 DEF LifeNext

\* A graceful exit may interrupt a handler between its two writes, as a crash
\* may, and costs at most one row more; nothing else it does writes a row twice
\* (server.js:50-60, consumer.js:215-220).
THEOREM ExitsCostOneRow == SafeLife => []OneRowPerExit
<1>1. ASSUME LeavingInv, RowsInv PROVE OneRowPerExit
  <2> SUFFICES ASSUME Without(Duplicating), NEW e \in Event PROVE Cardinality(Rows(e)) <= 1 + exits
    BY DEF OneRowPerExit, Rows
  <2>1. Cardinality(Rows(e)) \in Nat /\ Cardinality(Leaving) \in Nat /\ exits \in Nat
    BY <1>1, RowsTypes, FS_CardinalityType DEF RowsInv, LeavingInv
  <2>2. Cardinality(Rows(e)) + Cardinality(Leaving) <= Allowance(e)
    BY <1>1 DEF RowsInv
  <2>3. Allowance(e) <= exits + 1
    BY <2>1 DEF Allowance
  <2>4. Allowance(e) \in Nat
    BY <2>1 DEF Allowance
  <2> QED BY <2>1, <2>2, <2>3, <2>4
<1>2. TypeInv /\ SoleInv /\ LeavingInv /\ LeavingInv' /\ RowsInv /\ [LifeNext]_lifeVars => RowsInv'
  BY RowsStep
<1> QED BY <1>1, <1>2, LifeSafeInvariant, LeavingInit, LeavingStep, RowsInit, PTL DEF SafeLife

----------------------------------------------------------------------------
(* The list, and the walk through its pages.                               *)

\* The rows a list shows before row d, whichever order a query sees.
Newer(d) == {other \in notifications : createdAt[other] > createdAt[d]}

\* Row d is listed behind n others, if no other row has its createdAt.
Behind(d, n) == Alone(d) => Cardinality(Newer(d)) >= n

LEMMA Instants ==
  ASSUME createdAt \in [notifications -> Instant], NEW d \in notifications
  PROVE  createdAt[d] \in Int
<1>1. \A instant \in Instant : instant \in Nat
  BY LifeAssumption
<1>2. createdAt[d] \in Instant
  OBVIOUS
<1>3. createdAt[d] \in Nat
  BY <1>1, <1>2, Zenon
<1> QED BY <1>3

\* Rows of equal createdAt may change places, but a row with a createdAt of its own
\* comes right behind the newer ones in every query.
LEMMA Placed ==
  ASSUME IsFiniteSet(notifications), createdAt \in [notifications -> Instant],
         NEW order \in Orders, NEW d \in notifications, Alone(d)
  PROVE  \E i \in DOMAIN order : order[i] = d /\ Cardinality(Newer(d)) = i - 1
<1> DEFINE N == Cardinality(notifications)
<1>1. N \in Nat /\ IsFiniteSet(1..N) /\ Cardinality(1..N) = N
  <2>1. N \in Nat
    BY FS_CardinalityType
  <2>2. IsFiniteSet(1..N) /\ Cardinality(1..N) = IF 1 > N THEN 0 ELSE N - 1 + 1
    BY <2>1, FS_Interval
  <2> QED BY <2>1, <2>2
<1> HIDE DEF N
<1>2. /\ order \in [1..N -> notifications] /\ DOMAIN order = 1..N
      /\ \A i, j \in 1..N : i # j => order[i] # order[j]
      /\ \A i, j \in 1..N : i < j => createdAt[order[i]] >= createdAt[order[j]]
  BY DEF Orders, SetToSeqs, N
<1>3. PICK i \in 1..N : order[i] = d
  <2>1. order \in Injection(1..N, notifications)
    BY <1>2 DEF Injection, IsInjective
  <2>2. order \in Surjection(1..N, notifications)
    BY <1>1, <2>1, FS_Injection DEF N
  <2> QED BY <2>2 DEF Surjection
<1>4. i - 1 \in Nat /\ \A j \in 1..(i - 1) : j \in 1..N /\ j < i
  BY <1>1
<1>5. \A other \in notifications : createdAt[other] \in Int
  BY Instants
<1>6. ASSUME NEW j \in 1..(i - 1) PROVE order[j] \in Newer(d)
  <2>1. order[j] \in notifications /\ createdAt[order[j]] >= createdAt[d] /\ order[j] # d
    BY <1>2, <1>3, <1>4
  <2>2. createdAt[order[j]] # createdAt[d]
    BY <2>1 DEF Alone
  <2> QED BY <1>5, <2>1, <2>2 DEF Newer
<1>7. ASSUME NEW other \in Newer(d) PROVE \E j \in 1..(i - 1) : order[j] = other
  <2>1. other \in notifications /\ createdAt[other] > createdAt[d]
    BY DEF Newer
  <2>2. PICK j \in 1..N : order[j] = other
    <3>1. order \in Injection(1..N, notifications)
      BY <1>2 DEF Injection, IsInjective
    <3>2. order \in Surjection(1..N, notifications)
      BY <1>1, <3>1, FS_Injection DEF N
    <3> QED BY <2>1, <3>2 DEF Surjection
  <2>3. ~(i < j)
    BY <1>2, <1>3, <1>5, <2>1, <2>2
  <2>4. i # j
    BY <1>3, <1>5, <2>1, <2>2
  <2>5. j \in 1..(i - 1)
    BY <1>1, <2>3, <2>4
  <2> QED BY <2>2, <2>5
<1>8. Cardinality(Newer(d)) = i - 1
  <2> DEFINE front == [j \in 1..(i - 1) |-> order[j]]
  <2>1. front \in Bijection(1..(i - 1), Newer(d))
    BY <1>2, <1>4, <1>6, <1>7 DEF Bijection, Injection, Surjection, IsInjective
  <2>2. IsFiniteSet(1..(i - 1)) /\ Cardinality(1..(i - 1)) = i - 1
    <3>1. /\ IsFiniteSet(1..(i - 1))
          /\ Cardinality(1..(i - 1)) = IF 1 > i - 1 THEN 0 ELSE (i - 1) - 1 + 1
      BY <1>4, FS_Interval
    <3> QED BY <1>4, <3>1
  <2> HIDE DEF front
  <2>3. Cardinality(Newer(d)) = Cardinality(1..(i - 1))
    BY <2>1, <2>2, FS_Bijection DEF ExistsBijection
  <2> QED BY <2>2, <2>3
<1> QED BY <1>2, <1>3, <1>8

LEMMA NewerTypes ==
  ASSUME IsFiniteSet(notifications), createdAt \in [notifications -> Instant],
         NEW d \in notifications
  PROVE  /\ IsFiniteSet(Newer(d)) /\ Cardinality(Newer(d)) \in Nat
         /\ Cardinality(notifications) \in Nat
         /\ Cardinality(notifications) > Cardinality(Newer(d))
<1>1. Newer(d) \in SUBSET notifications /\ d \notin Newer(d)
  BY Instants DEF Newer
<1>2. IsFiniteSet(Newer(d)) /\ Cardinality(Newer(d)) \in Nat /\ Cardinality(notifications) \in Nat
  BY <1>1, FS_Subset, FS_CardinalityType
<1>3. Cardinality(Newer(d)) <= Cardinality(notifications)
  BY <1>1, FS_Subset
<1>4. Cardinality(notifications) # Cardinality(Newer(d))
  BY <1>1, FS_Subset
<1> QED BY <1>2, <1>3, <1>4

\* A page shows what comes next, or it comes later.
LEMMA PageShows ==
  ASSUME IsFiniteSet(notifications), createdAt \in [notifications -> Instant],
         NEW order \in Orders, NEW d \in notifications, NEW page \in Nat \ {0},
         Skipped(page) \in Nat, Behind(d, Skipped(page))
  PROVE  d \in PageRows(order, page) \/ Behind(d, Skipped(page) + Limit)
<1> SUFFICES ASSUME Alone(d), ~(Cardinality(Newer(d)) >= Skipped(page) + Limit)
             PROVE  d \in PageRows(order, page)
  BY DEF Behind
<1>1. PICK i \in DOMAIN order : order[i] = d /\ Cardinality(Newer(d)) = i - 1
  BY Placed
<1>2. i \in Nat
  <2>1. DOMAIN order = 1..Cardinality(notifications)
    BY DEF Orders, SetToSeqs
  <2> QED BY <1>1, <2>1, NewerTypes
<1>3. Skipped(page) < i /\ i <= Skipped(page) + Limit
  BY <1>1, <1>2, LifeAssumption DEF Behind
<1> QED BY <1>1, <1>3 DEF PageRows

\* Rows are only added.
LEMMA BehindGrows ==
  ASSUME IsFiniteSet(notifications), IsFiniteSet(notifications'),
         createdAt \in [notifications -> Instant], createdAt' \in [notifications' -> Instant],
         notifications \subseteq notifications',
         \A d \in notifications : createdAt'[d] = createdAt[d],
         NEW d \in notifications, NEW n \in Nat
  PROVE  /\ Alone(d)' => Alone(d)
         /\ Behind(d, n) => Behind(d, n)'
<1>1. Alone(d)' => Alone(d)
  BY DEF Alone
<1>2. PICK grown : grown = Newer(d)'
  OBVIOUS
<1>3. Newer(d) \in SUBSET grown /\ grown \in SUBSET notifications'
  BY <1>2 DEF Newer
<1>4. Cardinality(Newer(d)) <= Cardinality(grown) /\ Cardinality(grown) \in Nat
  BY <1>3, FS_Subset, FS_CardinalityType
<1>5. Cardinality(Newer(d)) \in Nat
  BY NewerTypes
<1>6. Cardinality(Newer(d)) >= n => Cardinality(Newer(d)') >= n
  BY <1>2, <1>4, <1>5
<1> QED BY <1>1, <1>6 DEF Behind

\* The pages follow each other without gap, and totalPages of them reach the last
\* row (notification.service.js:14-19).
LEMMA SkippedPages ==
  ASSUME NEW page \in Nat \ {0}
  PROVE  /\ Skipped(page) \in Nat /\ Skipped(page) + Limit \in Nat
         /\ Skipped(1) = 0
         /\ Skipped(page + 1) = Skipped(page) + Limit
<1>1. Limit \in Nat
  BY LifeAssumption
<1>2. PICK m \in Nat : page = m + 1
  <2>1. page - 1 \in Nat /\ page = (page - 1) + 1
    OBVIOUS
  <2> QED BY <2>1
<1>3. m * Limit \in Nat
  BY <1>1
<1>4. Skipped(page) = m * Limit
  <2>1. page - 1 = m
    BY <1>2
  <2> QED BY <2>1 DEF Skipped
<1>5. Skipped(page + 1) = (m + 1) * Limit
  <2>1. (page + 1) - 1 = m + 1
    BY <1>2
  <2> QED BY <2>1 DEF Skipped
<1>6. (m + 1) * Limit = m * Limit + Limit
  BY <1>1
<1>7. 0 * Limit = 0
  BY <1>1
<1>8. Skipped(1) = 0
  BY <1>7 DEF Skipped
<1> QED BY <1>1, <1>3, <1>4, <1>5, <1>6, <1>8

LEMMA LastPage ==
  ASSUME NEW total \in Nat, NEW page \in Nat \ {0}, page >= TotalPages(total)
  PROVE  total <= Skipped(page) + Limit
<1>1. Limit \in Nat \ {0}
  BY LifeAssumption
<1>2. Skipped(page) \in Nat /\ Skipped(page) + Limit = page * Limit
  <2>1. (page - 1) * Limit + Limit = page * Limit /\ (page - 1) * Limit \in Nat
    BY <1>1
  <2> QED BY <2>1 DEF Skipped
<1>3. CASE total = 0
  BY <1>1, <1>2, <1>3
<1>4. CASE total # 0
  <2>1. PICK q \in Int : q = (total + Limit - 1) \div Limit /\ q <= page
    BY <1>1, <1>4 DEF TotalPages
  <2>2. total + Limit - 1 < (q + 1) * Limit
    BY <1>1, <2>1
  <2>3. (q + 1) * Limit <= (page + 1) * Limit
    BY <1>1, <2>1
  <2>4. (page + 1) * Limit = page * Limit + Limit /\ page * Limit \in Int
    BY <1>1
  <2>5. (q + 1) * Limit \in Int
    BY <1>1
  <2> QED BY <1>1, <1>2, <2>2, <2>3, <2>4, <2>5
<1> QED BY <1>3, <1>4

WalkTypeOK ==
    /\ createdAt \in [notifications -> Instant]
    /\ walk \in [page : Nat \ {0}, state : {"idle", "asked", "over"},
                 server : Replica \union {NewWalk.server}, awaited : SUBSET {"find", "count"},
                 found : SUBSET Delivery, total : Nat, unseen : SUBSET Delivery, torn : BOOLEAN]
    /\ walk.unseen \subseteq notifications

\* A row of the beginning that the client has not seen yet is behind the pages he
\* has got; and the total he gets reaches it, unless it was counted too early.
WalkInv ==
    /\ walk.state # "asked" => walk.awaited = {}
    /\ walk.state # "over" => \A d \in walk.unseen : Behind(d, Skipped(walk.page))
    /\ walk.state = "asked" /\ "find" \notin walk.awaited =>
          \A d \in walk.unseen : d \in walk.found \/ Behind(d, Skipped(walk.page) + Limit)
    /\ ~walk.torn /\ walk.awaited = {"find"} => walk.total = Cardinality(notifications)
    /\ ~walk.torn /\ walk.state = "asked" /\ walk.awaited = {} =>
          \A d \in walk.unseen :
             d \in walk.found \/ ~Alone(d) \/ walk.total > Skipped(walk.page) + Limit
    /\ walk.state = "over" /\ ~walk.torn => \A d \in walk.unseen : ~Alone(d)

LEMMA WalkInit == LifeInit => WalkTypeOK /\ WalkInv
<1> SUFFICES ASSUME LifeInit PROVE WalkTypeOK /\ WalkInv
  OBVIOUS
<1>1. createdAt = [d \in {} |-> 0] /\ notifications = {} /\ walk = NewWalk
  BY DEF LifeInit, Init
<1>2. createdAt \in [notifications -> Instant]
  BY <1>1
<1>3. NewWalk \in [page : Nat \ {0}, state : {"idle", "asked", "over"},
                   server : Replica \union {NewWalk.server}, awaited : SUBSET {"find", "count"},
                   found : SUBSET Delivery, total : Nat, unseen : SUBSET Delivery,
                   torn : BOOLEAN]
  BY DEF NewWalk
<1>4. walk.unseen = {} /\ WalkInv
  BY <1>1 DEF NewWalk, WalkInv
<1> QED BY <1>1, <1>2, <1>3, <1>4 DEF WalkTypeOK

LEMMA WalkFields ==
  ASSUME WalkTypeOK
  PROVE  /\ walk.page \in Nat \ {0} /\ walk.total \in Nat
         /\ walk.awaited \subseteq {"find", "count"}
         /\ walk.state \in {"idle", "asked", "over"}
         /\ Skipped(walk.page) \in Nat /\ Skipped(walk.page) + Limit \in Nat
BY SkippedPages DEF WalkTypeOK

\* Nothing of the walk changes, or its request is dropped with the process.
LEMMA WalkKept ==
  ASSUME WalkTypeOK, WalkInv, UNCHANGED <<createdAt, notifications>>,
         walk' = walk \/ \E r : walk' = Dropped(r)
  PROVE  WalkTypeOK' /\ WalkInv'
<1>1. CASE walk' = walk
  BY <1>1 DEF WalkTypeOK, WalkInv, Behind, Newer, Alone
<1>2. CASE walk' # walk
  <2>1. /\ walk' = [walk EXCEPT !.state = "idle", !.awaited = {}, !.found = {}, !.total = 0]
        /\ walk.state = "asked"
    BY <1>2 DEF Dropped
  <2>2. WalkTypeOK'
    BY <2>1 DEF WalkTypeOK
  <2>3. /\ walk'.state = "idle" /\ walk'.awaited = {} /\ walk'.unseen = walk.unseen
        /\ walk'.page = walk.page
    BY <2>1 DEF WalkTypeOK
  <2> QED BY <2>1, <2>2, <2>3 DEF WalkInv, Behind, Newer, Alone
<1> QED BY <1>1, <1>2

LEMMA WalkRows ==
  ASSUME WalkTypeOK, WalkInv, IsFiniteSet(notifications), IsFiniteSet(notifications'),
         notifications \subseteq notifications', RowsFollow
  PROVE  WalkTypeOK' /\ WalkInv'
<1>1. CASE notifications' = notifications
  <2>1. UNCHANGED <<createdAt, notifications, walk>>
    BY <1>1 DEF RowsFollow
  <2> QED BY <2>1, WalkKept
<1>2. CASE notifications' # notifications
  <2>1. /\ createdAt' \in [notifications' -> Instant]
        /\ \A d \in notifications : createdAt'[d] = createdAt[d]
    <3>1. PICK instant \in Instant :
             createdAt' = [d \in notifications' |->
                              IF d \in notifications THEN createdAt[d] ELSE instant]
      BY <1>2 DEF RowsFollow
    <3> QED BY <3>1 DEF WalkTypeOK
  <2>2. walk' = [walk EXCEPT !.torn = @ \/ walk.awaited = {"find"}]
    BY <1>2 DEF RowsFollow
  <2>3. WalkTypeOK'
    BY <2>1, <2>2 DEF WalkTypeOK
  <2>4. /\ walk'.state = walk.state /\ walk'.awaited = walk.awaited /\ walk'.page = walk.page
        /\ walk'.unseen = walk.unseen /\ walk'.found = walk.found
        /\ walk'.total = walk.total /\ (~walk'.torn => ~walk.torn /\ walk.awaited # {"find"})
    BY <2>2 DEF WalkTypeOK
  <2>5. \A d \in walk.unseen :
           /\ Alone(d)' => Alone(d)
           /\ Behind(d, Skipped(walk.page)) => Behind(d, Skipped(walk.page))'
           /\ Behind(d, Skipped(walk.page) + Limit) => Behind(d, Skipped(walk.page) + Limit)'
    <3>1. PICK m \in Nat, n \in Nat : m = Skipped(walk.page) /\ n = Skipped(walk.page) + Limit
      BY WalkFields
    <3>2. m = Skipped(walk'.page) /\ n = Skipped(walk'.page) + Limit
      BY <2>4, <3>1
    <3>3. \A d \in walk.unseen : /\ Alone(d)' => Alone(d)
                                 /\ Behind(d, m) => Behind(d, m)'
                                 /\ Behind(d, n) => Behind(d, n)'
      BY <2>1, BehindGrows DEF WalkTypeOK
    <3>4. \A d : (Behind(d, Skipped(walk.page))' <=> Behind(d, m)')
                  /\ (Behind(d, Skipped(walk.page) + Limit)' <=> Behind(d, n)')
      BY <3>2 DEF Behind
    <3> QED BY <3>1, <3>3, <3>4
  <2> QED BY <2>3, <2>4, <2>5 DEF WalkInv
<1> QED BY <1>1, <1>2

LEMMA WalkAsks ==
  ASSUME WalkTypeOK, WalkInv, IsFiniteSet(notifications), notifications \subseteq Delivery,
         NEW r \in Replica, Ask(r)
  PROVE  WalkTypeOK' /\ WalkInv'
<1>1. /\ walk.state = "idle" /\ UNCHANGED <<createdAt, notifications>>
      /\ walk' = [walk EXCEPT !.state = "asked", !.server = r, !.awaited = {"find", "count"},
                              !.unseen = IF walk.page = 1 THEN notifications ELSE @]
  BY DEF Ask, UnchangedLife, vars, storeVars
<1>2. WalkTypeOK'
  BY <1>1 DEF WalkTypeOK
<1>3. /\ walk'.state = "asked" /\ walk'.awaited = {"find", "count"} /\ walk'.page = walk.page
      /\ walk'.unseen = IF walk.page = 1 THEN notifications ELSE walk.unseen
  BY <1>1 DEF WalkTypeOK
<1>4. \A d \in walk'.unseen : Behind(d, Skipped(walk.page))
  <2>1. CASE walk.page = 1
    <3>1. Skipped(walk.page) = 0
      BY <2>1, SkippedPages
    <3>2. \A d \in notifications : Cardinality(Newer(d)) >= 0
      BY NewerTypes DEF WalkTypeOK
    <3> QED BY <1>3, <2>1, <3>1, <3>2 DEF Behind
  <2>2. CASE walk.page # 1
    BY <1>1, <1>3, <2>2 DEF WalkInv
  <2> QED BY <2>1, <2>2
<1>5. {"find", "count"} # {"find"} /\ {"find", "count"} # {}
  OBVIOUS
<1>6. \A d \in walk'.unseen : Behind(d, Skipped(walk.page))'
  BY <1>1, <1>3, <1>4 DEF Behind, Newer, Alone
<1> QED BY <1>2, <1>3, <1>5, <1>6 DEF WalkInv

LEMMA WalkFinds ==
  ASSUME WalkTypeOK, WalkInv, IsFiniteSet(notifications), Find
  PROVE  WalkTypeOK' /\ WalkInv'
<1>1. /\ "find" \in walk.awaited /\ UNCHANGED <<createdAt, notifications>>
  BY DEF Find, UnchangedLife, vars, storeVars
<1>2. PICK order \in Orders :
         walk' = [walk EXCEPT !.awaited = @ \ {"find"},
                              !.found = PageRows(order, walk.page) \intersect walk.unseen]
  BY DEF Find
<1> DEFINE shown == PageRows(order, walk.page) \intersect walk.unseen
<1>3. WalkTypeOK'
  <2>1. shown \subseteq Delivery
    BY DEF WalkTypeOK
  <2> HIDE DEF shown
  <2> QED BY <1>1, <1>2, <2>1 DEF WalkTypeOK, shown
<1>4. /\ walk.state = "asked" /\ walk'.state = "asked" /\ walk'.page = walk.page
      /\ walk'.awaited = walk.awaited \ {"find"} /\ walk'.found = shown
      /\ walk'.unseen = walk.unseen /\ walk'.torn = walk.torn /\ walk'.total = walk.total
  <2>1. walk.state = "asked"
    BY <1>1 DEF WalkInv
  <2> HIDE DEF shown
  <2> QED BY <1>2, <2>1 DEF WalkTypeOK, shown
<1>5. \A d \in walk.unseen : Behind(d, Skipped(walk.page))
  BY <1>4 DEF WalkInv
<1>6. \A d \in walk.unseen : d \in shown \/ Behind(d, Skipped(walk.page) + Limit)
  BY <1>5, PageShows, WalkFields DEF WalkTypeOK
<1> HIDE DEF shown
<1>7. \A d \in walk.unseen : /\ Alone(d)' <=> Alone(d)
                             /\ Behind(d, Skipped(walk.page))'
                             /\ d \in shown \/ Behind(d, Skipped(walk.page) + Limit)'
  BY <1>1, <1>4, <1>5, <1>6 DEF Behind, Newer, Alone
<1>8. \A d \in walk.unseen : d \in shown \/ ~Alone(d)
                               \/ Cardinality(notifications) > Skipped(walk.page) + Limit
  <2> SUFFICES ASSUME NEW d \in walk.unseen, d \notin shown, Alone(d)
               PROVE  Cardinality(notifications) > Skipped(walk.page) + Limit
    OBVIOUS
  <2>1. Cardinality(Newer(d)) >= Skipped(walk.page) + Limit
    BY <1>6 DEF Behind
  <2>2. /\ Cardinality(Newer(d)) \in Nat /\ Cardinality(notifications) \in Nat
        /\ Cardinality(notifications) > Cardinality(Newer(d))
    BY NewerTypes DEF WalkTypeOK
  <2> QED BY <2>1, <2>2, WalkFields
<1>9. walk'.awaited # {"find"} /\ (walk'.awaited = {} => walk.awaited = {"find"})
  BY <1>1, <1>4
<1>10. walk'.awaited = {} /\ ~walk.torn => walk.total = Cardinality(notifications)
  BY <1>9 DEF WalkInv
<1>11. walk'.awaited = {} /\ ~walk.torn => \A d \in walk.unseen :
           d \in shown \/ ~Alone(d) \/ walk.total > Skipped(walk.page) + Limit
  BY <1>8, <1>10
<1> QED BY <1>3, <1>4, <1>7, <1>9, <1>11 DEF WalkInv

LEMMA WalkCounts ==
  ASSUME WalkTypeOK, WalkInv, IsFiniteSet(notifications), Count
  PROVE  WalkTypeOK' /\ WalkInv'
<1>1. /\ "count" \in walk.awaited /\ UNCHANGED <<createdAt, notifications>>
      /\ walk' = [walk EXCEPT !.awaited = @ \ {"count"}, !.total = Cardinality(notifications)]
  BY DEF Count, UnchangedLife, vars, storeVars
<1>2. Cardinality(notifications) \in Nat
  BY FS_CardinalityType
<1>3. WalkTypeOK'
  BY <1>1, <1>2 DEF WalkTypeOK
<1>4. /\ walk.state = "asked" /\ walk'.state = "asked" /\ walk'.page = walk.page
      /\ walk'.awaited = walk.awaited \ {"count"} /\ walk'.found = walk.found
      /\ walk'.unseen = walk.unseen /\ walk'.torn = walk.torn
      /\ walk'.total = Cardinality(notifications)
  <2>1. walk.state = "asked"
    BY <1>1 DEF WalkInv
  <2> QED BY <1>1, <2>1 DEF WalkTypeOK
<1>5. \A d : /\ Alone(d)' <=> Alone(d)
             /\ Behind(d, Skipped(walk.page))' <=> Behind(d, Skipped(walk.page))
             /\ Behind(d, Skipped(walk.page) + Limit)' <=> Behind(d, Skipped(walk.page) + Limit)
  BY <1>1, <1>4 DEF Behind, Newer, Alone
<1>6. \A d \in walk.unseen : Behind(d, Skipped(walk.page) + Limit) =>
         ~Alone(d) \/ Cardinality(notifications) > Skipped(walk.page) + Limit
  <2> SUFFICES ASSUME NEW d \in walk.unseen, Alone(d), Behind(d, Skipped(walk.page) + Limit)
               PROVE  Cardinality(notifications) > Skipped(walk.page) + Limit
    OBVIOUS
  <2>1. Cardinality(Newer(d)) >= Skipped(walk.page) + Limit
    BY DEF Behind
  <2>2. /\ Cardinality(Newer(d)) \in Nat /\ Cardinality(notifications) \in Nat
        /\ Cardinality(notifications) > Cardinality(Newer(d))
    BY NewerTypes DEF WalkTypeOK
  <2> QED BY <2>1, <2>2, WalkFields
<1>7. "find" \notin walk'.awaited => "find" \notin walk.awaited
  BY <1>4
<1>8. Cardinality(notifications)' = Cardinality(notifications)
  BY <1>1
<1> QED BY <1>3, <1>4, <1>5, <1>6, <1>7, <1>8 DEF WalkInv

LEMMA WalkResponds ==
  ASSUME WalkTypeOK, WalkInv, Respond
  PROVE  WalkTypeOK' /\ WalkInv'
<1> DEFINE last == walk.page >= TotalPages(walk.total)
<1>1. /\ walk.state = "asked" /\ walk.awaited = {} /\ UNCHANGED <<createdAt, notifications>>
      /\ walk' = [walk EXCEPT !.unseen = @ \ walk.found, !.found = {}, !.total = 0,
                              !.page = IF last THEN 1 ELSE @ + 1,
                              !.state = IF last THEN "over" ELSE "idle"]
  BY DEF Respond, UnchangedLife, vars, storeVars
<1> HIDE DEF last
<1>2. WalkTypeOK'
  <2> DEFINE rest == walk.unseen \ walk.found
             next == IF last THEN 1 ELSE walk.page + 1
             said == IF last THEN "over" ELSE "idle"
  <2>1. walk' = [walk EXCEPT !.unseen = rest, !.found = {}, !.total = 0,
                             !.page = next, !.state = said]
    BY <1>1
  <2>2. next \in Nat \ {0} /\ said \in {"over", "idle"}
    BY DEF WalkTypeOK
  <2>3. rest \in SUBSET Delivery /\ rest \subseteq notifications
    BY DEF WalkTypeOK
  <2> HIDE DEF rest, next, said
  <2>4. walk' \in [page : Nat \ {0}, state : {"idle", "asked", "over"},
                   server : Replica \cup {NewWalk.server}, awaited : SUBSET {"find", "count"},
                   found : SUBSET Delivery, total : Nat, unseen : SUBSET Delivery,
                   torn : BOOLEAN]
    BY <2>1, <2>2, <2>3 DEF WalkTypeOK
  <2>5. walk'.unseen = rest
    BY <2>1 DEF WalkTypeOK
  <2> QED BY <1>1, <2>3, <2>4, <2>5 DEF WalkTypeOK
<1>3. /\ walk'.state = (IF last THEN "over" ELSE "idle") /\ walk'.awaited = {}
      /\ walk'.page = (IF last THEN 1 ELSE walk.page + 1)
      /\ walk'.unseen = walk.unseen \ walk.found /\ walk'.torn = walk.torn
  BY <1>1 DEF WalkTypeOK
<1>4. CASE last
  <2>1. walk.total <= Skipped(walk.page) + Limit
    BY <1>4, WalkFields, LastPage DEF last
  <2>2. ~(walk.total > Skipped(walk.page) + Limit)
    BY <2>1, WalkFields
  <2>3. ~walk.torn => \A d \in walk'.unseen : ~Alone(d)
    BY <1>1, <1>3, <2>2 DEF WalkInv
  <2>4. ~walk.torn => \A d \in walk'.unseen : ~Alone(d)'
    BY <1>1, <2>3 DEF Alone
  <2> QED BY <1>2, <1>3, <1>4, <2>4 DEF WalkInv
<1>5. CASE ~last
  <2>1. \A d \in walk'.unseen : Behind(d, Skipped(walk.page) + Limit)
    BY <1>1, <1>3 DEF WalkInv
  <2>2. Skipped(walk'.page) = Skipped(walk.page) + Limit
    BY <1>3, <1>5, WalkFields, SkippedPages
  <2>3. \A d \in walk'.unseen : Behind(d, Skipped(walk.page))'
    BY <1>1, <1>3, <2>1, <2>2 DEF Behind, Newer, Alone
  <2> QED BY <1>2, <1>3, <1>5, <2>3 DEF WalkInv
<1> QED BY <1>4, <1>5

LEMMA WalkStep ==
  ASSUME TypeInv, TypeInv', RowsInv, RowsInv', WalkTypeOK, WalkInv, [LifeNext]_lifeVars
  PROVE  WalkTypeOK' /\ WalkInv'
<1>1. /\ notifications \subseteq Delivery
      /\ IsFiniteSet(notifications) /\ IsFiniteSet(notifications')
  BY DEF TypeInv, TypeOK, RowsInv
<1>2. CASE Broker \/ UNCHANGED lifeVars
  <2>1. UNCHANGED <<createdAt, notifications, walk>>
    BY <1>2 DEF Broker, UnchangedLife, lifeVars, vars, storeVars, BrokerStep, Publish, AckWait,
                Deliver, BrokerReceives, BrokerIgnores, SettlementLost
  <2> QED BY <2>1, WalkKept
<1>3. ASSUME NEW r \in Replica, Work(r) \/ WorkFails(r) \/ Linger(r)
      PROVE  WalkTypeOK' /\ WalkInv'
  <2>1. [Next]_vars
    BY <1>3 DEF Work, WorkFails, Linger, Next, Proceed
  <2>2. notifications \subseteq notifications'
    BY <2>1, NotificationWrites
  <2> QED BY <1>1, <1>3, <2>2, WalkRows DEF Work, WorkFails, Linger
<1>4. ASSUME NEW r \in Replica,
             Signal(r) \/ Stop(r) \/ Uncopied(r) \/ Drained(r) \/ Unsettled(r) \/ Discard(r)
               \/ Exit(r) \/ ProcessCrash(r)
      PROVE  WalkTypeOK' /\ WalkInv'
  <2>1. UNCHANGED <<createdAt, notifications>> /\ (walk' = walk \/ walk' = Dropped(r))
    BY <1>4 DEF Signal, Stop, Uncopied, Drained, Unsettled, Discard, Yield, Exit, ProcessCrash,
                End, vars, storeVars
  <2> QED BY <2>1, WalkKept
<1>5. ASSUME NEW r \in Replica, Ask(r) PROVE WalkTypeOK' /\ WalkInv'
  BY <1>1, <1>5, WalkAsks
<1> QED BY <1>1, <1>2, <1>3, <1>4, <1>5, WalkFinds, WalkCounts, WalkResponds DEF LifeNext

\* Who follows totalPages sees every row there was when he began and whose
\* createdAt no other row has, although rows are added while he pages, those of
\* equal createdAt change places from query to query, and processes come and go;
\* unless a row is written after a response has counted the rows and before it
\* reads its page (notification.service.js:9-19).
THEOREM WalksMissNothing == SafeLife => []WalkMissesNothing
<1>1. WalkInv => WalkMissesNothing
  BY DEF WalkInv, WalkMissesNothing
<1>2. TypeInv /\ SoleInv /\ LeavingInv /\ LeavingInv' /\ RowsInv /\ [LifeNext]_lifeVars => RowsInv'
  BY RowsStep
<1>3. TypeInv /\ TypeInv' /\ RowsInv /\ RowsInv' /\ WalkTypeOK /\ WalkInv /\ [LifeNext]_lifeVars
        => WalkTypeOK' /\ WalkInv'
  BY WalkStep
<1> QED BY <1>1, <1>2, <1>3, LifeSafeInvariant, LeavingInit, LeavingStep, RowsInit, WalkInit, PTL
        DEF SafeLife

=============================================================================
