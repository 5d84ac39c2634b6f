------------------------------ MODULE Pipeline ------------------------------
(***************************************************************************)
(* The whole way from a registration to a notification: user-service and   *)
(* notification-service as processes that share nothing but the            *)
(* USER_EVENTS stream.                                                     *)
(*                                                                         *)
(* Each service is an instance of its own module with faults of its own.   *)
(* An event is named by the request that publishes it.  It reaches the     *)
(* broker of the consumer in the step in which user-service has it stored; *)
(* every other step belongs to one of the two services alone.              *)
(***************************************************************************)
EXTENDS Naturals, Sequences

CONSTANTS
    Request, Person, Email, NoEmail,    \* as in UserService
    UserFaults, MaxUserFaults,          \* its faults
    Replica, MaxDeliveries, InboxSize,  \* as in NotificationConsumer
    ExtraSubjects,
    ConsumerFaults, MaxConsumerFaults   \* its faults

ASSUME EmailAssumption == NoEmail \notin Email
ASSUME FaultsAssumption ==
    /\ UserFaults \subseteq {"overlap", "gatewayTimeout", "crash", "lookupFails",
                            "writeFails", "writeTimesOut", "publishFails",
                            "publishTimesOut"}
    /\ ConsumerFaults \subseteq {"crash", "disconnect", "lookupFails", "createFails",
                                "createTimesOut", "recordFails", "recordTimesOut",
                                "deadLetterFails", "slow", "settleLost"}
ASSUME BoundsAssumption ==
    /\ MaxUserFaults \in Nat /\ MaxConsumerFaults \in Nat
    /\ MaxDeliveries \in Nat \ {0} /\ InboxSize \in Nat \ {0}

VARIABLES
    asked, handler, users, stream, limbo, told, tokens,
    userFaultsLeft, userFaulted,
    phase, deliveries, wire, worker, cur, open, inbox,
    ledger, notifications, deadLetters,
    consumerFaultsLeft, consumerFaulted

\* Mutation: a payload schema asks for a field the publisher does not send.
PublishedKindDrifted == [r \in Request |-> "badPayload"]

\* Whatever the publisher sends passes the schemas of the consumer: the bodies
\* were validated by the stricter schemas of user-service.
PublishedKind == [r \in Request |-> "valid"]

Users == INSTANCE UserService WITH
    pc <- handler,
    Faults <- UserFaults, MaxFaults <- MaxUserFaults,
    faultsLeft <- userFaultsLeft, faulted <- userFaulted

Consumer == INSTANCE NotificationConsumer WITH
    Event <- Request, Kind <- PublishedKind, pc <- worker,
    Faults <- ConsumerFaults, MaxFaults <- MaxConsumerFaults,
    faultsLeft <- consumerFaultsLeft, faulted <- consumerFaulted

userVars == <<asked, handler, users, stream, limbo, told, tokens,
              userFaultsLeft, userFaulted>>
consumerVars == <<phase, deliveries, wire, worker, cur, open, inbox,
                  ledger, notifications, deadLetters,
                  consumerFaultsLeft, consumerFaulted>>
vars == <<userVars, consumerVars>>

Init == Users!Init /\ Consumer!Init

\* The event that was stored last becomes ready for delivery.  The broker does
\* not have it yet: no request publishes twice.
Forward ==
    IF stream' = stream THEN UNCHANGED consumerVars
    ELSE Consumer!Publish(stream'[Len(stream')].id)

UserStep == Users!Next /\ Forward

\* Nobody but user-service publishes.
ConsumerStep ==
    /\ Consumer!Next
    /\ \A e \in Request : phase[e] = "absent" => phase'[e] = "absent"
    /\ UNCHANGED userVars

Next == UserStep \/ ConsumerStep

SafeSpec == Init /\ [][Next]_vars

\* The fairness of the two services.
Fairness ==
    /\ \A r \in Request : WF_vars(Users!Handle(r) /\ Forward)
    /\ \A r \in Replica : WF_vars(Consumer!Proceed(r) /\ UNCHANGED userVars)
    /\ \A e \in Request :
          /\ WF_vars((\E r \in Replica : Consumer!Deliver(r, e)) /\ UNCHANGED userVars)
          /\ WF_vars(Consumer!AckWait(e) /\ UNCHANGED userVars)
    /\ WF_vars((\E s \in wire : Consumer!BrokerReceives(s) \/ Consumer!BrokerIgnores(s))
                 /\ UNCHANGED userVars)

Spec == SafeSpec /\ Fairness

----------------------------------------------------------------------------
(* Properties.                                                             *)

\* The event a notification was written for.
SourceOf(d, event) == event.id = d.event

\* Every notification was written for an event on the stream, and is addressed
\* to an account that exists (user.publisher.js:19-32, handlers.js:5-29).
NotificationsMeanAccounts ==
    \A d \in notifications :
        \E i \in 1..Len(stream) :
            SourceOf(d, stream[i]) /\ users[stream[i].user] # NoEmail

\* Nobody is welcomed twice, while neither a crash nor an unreported or failing
\* write separates a notification from its ledger row: one registration is one
\* event, and one event one notification (README:144).
WelcomedOnce ==
    Consumer!Without(Consumer!Duplicating) =>
        \A d1, d2 \in notifications, i, j \in 1..Len(stream) :
            /\ SourceOf(d1, stream[i]) /\ SourceOf(d2, stream[j])
            /\ stream[i].type = "created" /\ stream[j].type = "created"
            /\ stream[i].user = stream[j].user
            => d1 = d2

Followed(u) ==
    /\ phase[u] # "absent"
    /\ \/ phase[u] \notin Consumer!Settled
       \/ Consumer!Held(Consumer!CurrentDelivery(u))
       \/ Consumer!Notified(u) \/ u \in deadLetters

\* From the database of the one service to that of the other: an account whose
\* registration has ended has its event in the broker, and once the broker is
\* done with it there is a notification or a copy on events.deadletter
\* (README:64).  Excepted are the failures that come between an account and its
\* event, and those that consume a last delivery outside the try block.
NoAccountForgotten ==
    /\ Users!Without(Users!Separating)
    /\ Consumer!Without({"crash", "disconnect", "lookupFails", "deadLetterFails"})
    /\ Consumer!DEAD_LETTER \in Consumer!StreamSubjects
    => \A u \in Request : users[u] # NoEmail /\ ~Users!InFlight(u) => Followed(u)

\* Whoever was told 201 is welcomed in the end, unless the publish failed or
\* went unheard, or there were as many faults as deliveries.  A crash of
\* user-service is no excuse: the answer comes after the PubAck
\* (user.service.js:27-36).
WelcomedInTheEnd ==
    \A r \in Request :
        told[r] = "201" ~>
            \/ Consumer!Notified(r)
            \/ ~Users!Without({"publishFails", "publishTimesOut"})
            \/ MaxConsumerFaults - consumerFaultsLeft >= MaxDeliveries

=============================================================================
