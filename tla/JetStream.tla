----------------------------- MODULE JetStream -----------------------------
(***************************************************************************)
(* The durable pull consumer of the USER_EVENTS stream, as the services    *)
(* use it: a stored event is ready, is delivered at most MaxDeliveries     *)
(* times, and each delivery is settled by an ack, a nak or a term, or left *)
(* until its acknowledgement wait expires.                                 *)
(*                                                                         *)
(* The broker is not part of this repository.  The model is what src/ asks *)
(* of it: config/jetstream.js (the stream), consumer.js start() (explicit  *)
(* acks, ack_wait, max_deliver) and the msg.ack/nak/term calls.            *)
(* Limits retention (7 days, 100000 messages) is left out: an event that   *)
(* ages out of the stream is not modelled.                                 *)
(***************************************************************************)
EXTENDS Naturals

CONSTANTS
    Event,          \* what user-service publishes, one element per eventId
    MaxDeliveries   \* max_deliver of the durable, MAX_DELIVERIES

\* notification-service/src/config/env.js: integer, at least 1.
ASSUME MaxDeliveriesAssumption == MaxDeliveries \in Nat \ {0}

VARIABLES
    phase,       \* phase[e]: where the broker has the event
    deliveries,  \* deliveries[e]: how often it was handed out
    wire         \* settlements sent and not yet received by the broker

brokerVars == <<phase, deliveries, wire>>

\* "exhausted" is the event that failed MaxDeliveries times: the broker
\* keeps it in the stream and never delivers it again.
Phases == {"absent", "ready", "inflight", "acked", "termed", "exhausted"}
Settled == {"acked", "termed", "exhausted"}
Verdicts == {"ack", "nak", "term"}

Delivery == [event : Event, count : 1..MaxDeliveries]
Settlement == [verdict : Verdicts, delivery : Delivery]

BrokerTypeOK ==
    /\ phase \in [Event -> Phases]
    /\ deliveries \in [Event -> 0..MaxDeliveries]
    /\ wire \subseteq Settlement

BrokerInit ==
    /\ phase = [e \in Event |-> "absent"]
    /\ deliveries = [e \in Event |-> 0]
    /\ wire = {}

Outstanding(e) == phase[e] \in {"ready", "inflight"}

\* Mutation: a durable created without max_deliver.
AfterFailureUnbounded(e) == "ready"

\* What becomes of an event whose current delivery failed.
AfterFailure(e) == IF deliveries[e] < MaxDeliveries THEN "ready" ELSE "exhausted"

----------------------------------------------------------------------------

\* A PubAck was or could have been sent: the event is stored.
Store(e) ==
    /\ phase[e] = "absent"
    /\ phase' = [phase EXCEPT ![e] = "ready"]
    /\ UNCHANGED <<deliveries, wire>>

\* Hand the event out once more; the delivery carries its count.
NextDelivery(e) == [event |-> e, count |-> deliveries[e] + 1]

Dispatch(e) ==
    /\ phase[e] = "ready"
    /\ phase' = [phase EXCEPT ![e] = "inflight"]
    /\ deliveries' = [deliveries EXCEPT ![e] = @ + 1]
    /\ UNCHANGED wire

\* msg.ack(), msg.nak(2000), msg.term(): fire and forget.
Send(verdict, d) ==
    /\ wire' = wire \union {[verdict |-> verdict, delivery |-> d]}
    /\ UNCHANGED <<phase, deliveries>>

\* Settlements are matched by stream sequence, so one for an earlier delivery
\* of an outstanding event may take effect as well.
ReceiveSettlement(s) ==
    /\ s \in wire
    /\ Outstanding(s.delivery.event)
    /\ wire' = wire \ {s}
    /\ phase' = [phase EXCEPT ![s.delivery.event] =
                    CASE s.verdict = "ack" -> "acked"
                      [] s.verdict = "term" -> "termed"
                      [] s.verdict = "nak" -> AfterFailure(s.delivery.event)]
    /\ UNCHANGED deliveries

\* The broker ignores a settlement of a settled event and may ignore one of an
\* earlier delivery.
Ignorable(s) ==
    ~Outstanding(s.delivery.event) \/ s.delivery.count < deliveries[s.delivery.event]

\* A settlement leaves the wire without effect: ignored, or lost on its way.
DropSettlement(s) ==
    /\ s \in wire
    /\ wire' = wire \ {s}
    /\ UNCHANGED <<phase, deliveries>>

\* ack_wait (30s) is over and the delivery is unsettled.
AckWaitExpires(e) ==
    /\ phase[e] = "inflight"
    /\ phase' = [phase EXCEPT ![e] = AfterFailure(e)]
    /\ UNCHANGED <<deliveries, wire>>

=============================================================================
