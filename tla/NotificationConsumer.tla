------------------------ MODULE NotificationConsumer ------------------------
(***************************************************************************)
(* The replicas of notification-service that share the durable consumer:   *)
(* UserEventConsumer.runLoop and process(), the notification rows and the  *)
(* idempotency ledger in MongoDB, and the copies of failed messages on     *)
(* events.deadletter.                                                      *)
(*                                                                         *)
(* A replica handles one message at a time.  Between two awaits process()  *)
(* runs without interruption, so an action is one database or broker call  *)
(* together with the code that follows it up to the next await; the        *)
(* program counter names the call the replica is about to make.            *)
(***************************************************************************)
EXTENDS JetStream, FaultBudget, Sequences

CONSTANTS
    Replica,        \* processes of notification-service
    Kind,           \* Kind[e]: what process() finds the message to be
    InboxSize,      \* deliveries buffered in a replica's consume() iterator
    ExtraSubjects   \* subjects captured by streams this repository does not create

Malformation == {"notJson", "jsonNull", "badEnvelope", "badPayload"}
Kinds == Malformation \union {"unknownType", "valid"}

\* What can go wrong.  A call that fails either leaves nothing behind
\* (...Fails) or is carried out although its caller sees an error
\* (...TimesOut).  "slow": ack_wait ends while the delivery is still being
\* handled or its settlement is under way.
FaultKinds ==
    {"crash", "disconnect", "lookupFails", "createFails", "createTimesOut",
     "recordFails", "recordTimesOut", "deadLetterFails", "slow", "settleLost"}

ASSUME KindAssumption == Kind \in [Event -> Kinds]
ASSUME FaultsAssumption == Faults \subseteq FaultKinds
ASSUME BoundsAssumption == MaxFaults \in Nat /\ InboxSize \in Nat \ {0}

VARIABLES
    pc,             \* pc[r]: the call replica r makes next
    cur,            \* cur[r]: the delivery in process(), or None
    open,           \* open[r]: the consume() iterator still receives
    inbox,          \* inbox[r]: deliveries the iterator has not yielded yet
    ledger,         \* events with a ProcessedEvent row
    notifications,  \* Notification rows, named by the delivery that wrote them
    deadLetters     \* events with a copy on events.deadletter

replicaVars == <<pc, cur, open, inbox>>
storeVars == <<ledger, notifications, deadLetters>>
vars == <<brokerVars, replicaVars, storeVars, faultVars>>

None == [event |-> "none", count |-> 0]

Valid(e) == Kind[e] = "valid"
Malformed(e) == Kind[e] \in Malformation

\* Both services provision USER_EVENTS with the subjects users.*; nothing in
\* the repository captures events.deadletter.
DEAD_LETTER == "events.deadletter"
StreamSubjects == {"users.created", "users.updated"} \union ExtraSubjects

\* js.publish() throws when no stream captures the subject, and deadLetter()
\* parses the message once more before it publishes.
CanCopy(e) == DEAD_LETTER \in StreamSubjects /\ Kind[e] # "notJson"

Notified(e) == \E d \in notifications : d.event = e

ElementOf(d, s) == \E i \in 1..Len(s) : s[i] = d

\* Somebody may still act on delivery d.
Held(d) ==
    \/ \E r \in Replica : cur[r] = d \/ ElementOf(d, inbox[r])
    \/ \E s \in wire : s.delivery = d

CurrentDelivery(e) == [event |-> e, count |-> deliveries[e]]

Init ==
    /\ BrokerInit
    /\ pc = [r \in Replica |-> "down"]
    /\ cur = [r \in Replica |-> None]
    /\ open = [r \in Replica |-> FALSE]
    /\ inbox = [r \in Replica |-> <<>>]
    /\ ledger = {} /\ notifications = {} /\ deadLetters = {}
    /\ faultsLeft = MaxFaults /\ faulted = {}

----------------------------------------------------------------------------
(* The broker.                                                             *)

\* user-service publishes; msgID = eventId makes a second copy impossible
\* inside the duplicate window.
Publish(e) ==
    /\ Store(e)
    /\ UNCHANGED <<replicaVars, storeVars>> /\ NoFault

Deliver(r, e) ==
    /\ open[r]
    /\ Len(inbox[r]) < InboxSize
    /\ Dispatch(e)
    /\ inbox' = [inbox EXCEPT ![r] = Append(@, NextDelivery(e))]
    /\ UNCHANGED <<pc, cur, open, storeVars>> /\ NoFault

BrokerReceives(s) ==
    /\ ReceiveSettlement(s)
    /\ UNCHANGED <<replicaVars, storeVars>> /\ NoFault

BrokerIgnores(s) ==
    /\ Ignorable(s)
    /\ DropSettlement(s)
    /\ UNCHANGED <<replicaVars, storeVars>> /\ NoFault

SettlementLost(s) ==
    /\ Fault("settleLost")
    /\ DropSettlement(s)
    /\ UNCHANGED <<replicaVars, storeVars>>

AckWait(e) ==
    /\ AckWaitExpires(e)
    /\ IF Held(CurrentDelivery(e)) THEN Fault("slow") ELSE NoFault
    /\ UNCHANGED <<replicaVars, storeVars>>

----------------------------------------------------------------------------
(* The life of a replica.                                                  *)

\* server.js start() and consumer.start(): the durable is shared, so "already
\* in use" is not an error.
Start(r) ==
    /\ pc[r] = "down"
    /\ pc' = [pc EXCEPT ![r] = "idle"]
    /\ UNCHANGED <<brokerVars, cur, open, inbox, storeVars>> /\ NoFault

\* Mutation: the loop ends with its first iterator.
ConsumeWithoutLoop(r) ==
    /\ pc[r] = "idle" /\ ~open[r] /\ inbox[r] = <<>>
    /\ Without({"disconnect"})
    /\ open' = [open EXCEPT ![r] = TRUE]
    /\ UNCHANGED <<brokerVars, pc, cur, inbox, storeVars>> /\ NoFault

\* runLoop() opens a new iterator once the previous one is drained.
Consume(r) ==
    /\ pc[r] = "idle" /\ ~open[r] /\ inbox[r] = <<>>
    /\ open' = [open EXCEPT ![r] = TRUE]
    /\ UNCHANGED <<brokerVars, pc, cur, inbox, storeVars>> /\ NoFault

\* The process ends; its rows stay, everything it was doing is gone.
Crash(r) ==
    /\ pc[r] # "down"
    /\ Fault("crash")
    /\ pc' = [pc EXCEPT ![r] = "down"]
    /\ cur' = [cur EXCEPT ![r] = None]
    /\ open' = [open EXCEPT ![r] = FALSE]
    /\ inbox' = [inbox EXCEPT ![r] = <<>>]
    /\ UNCHANGED <<brokerVars, storeVars>>

\* The iterator dies; of what it had buffered a prefix is still yielded.
Disconnect(r) ==
    /\ open[r]
    /\ Fault("disconnect")
    /\ open' = [open EXCEPT ![r] = FALSE]
    /\ \E n \in 0..Len(inbox[r]) :
          inbox' = [inbox EXCEPT ![r] = SubSeq(@, 1, n)]
    /\ UNCHANGED <<brokerVars, pc, cur, storeVars>>

----------------------------------------------------------------------------
(* process(msg).                                                           *)

\* The iterator yields the next message; process() reads its kind first.
Yield(r, kinds) ==
    /\ pc[r] = "idle" /\ inbox[r] # <<>>
    /\ Kind[Head(inbox[r]).event] \in kinds
    /\ inbox' = [inbox EXCEPT ![r] = Tail(@)]
    /\ UNCHANGED <<open, storeVars>> /\ NoFault

Goto(r, step) == pc' = [pc EXCEPT ![r] = step]

\* process() returns and the loop waits for the next message.
Return(r) ==
    /\ Goto(r, "idle")
    /\ cur' = [cur EXCEPT ![r] = None]
    /\ UNCHANGED <<open, inbox>>

\* Mutations: off by one in either direction.
FinalAttemptLate(d) == d.count > MaxDeliveries
FinalAttemptEarly(d) == d.count >= MaxDeliveries - 1

FinalAttempt(d) == d.count >= MaxDeliveries

TakeMalformed(r) ==
    /\ Yield(r, Malformation)
    /\ cur' = [cur EXCEPT ![r] = Head(inbox[r])]
    /\ Goto(r, "deadLetter")
    /\ UNCHANGED brokerVars

TakeUnknown(r) ==
    /\ Yield(r, {"unknownType"})
    /\ Send("ack", Head(inbox[r]))
    /\ UNCHANGED <<pc, cur>>

\* Mutation: acknowledge on receipt.
TakeValidAckFirst(r) ==
    /\ Yield(r, {"valid"})
    /\ cur' = [cur EXCEPT ![r] = Head(inbox[r])]
    /\ Goto(r, "lookup")
    /\ Send("ack", Head(inbox[r]))

TakeValid(r) ==
    /\ Yield(r, {"valid"})
    /\ cur' = [cur EXCEPT ![r] = Head(inbox[r])]
    /\ Goto(r, "lookup")
    /\ UNCHANGED brokerVars

\* ProcessedEvent.findOne({ eventId }).
LookupHit(r) ==
    /\ pc[r] = "lookup" /\ cur[r].event \in ledger
    /\ Send("ack", cur[r])
    /\ Return(r)
    /\ UNCHANGED storeVars /\ NoFault

\* Mutations: handle without looking, and claim the event before handling it.
LookupMissUnchecked(r) ==
    /\ pc[r] = "lookup"
    /\ Goto(r, "handle")
    /\ UNCHANGED <<brokerVars, cur, open, inbox, storeVars>> /\ NoFault

LookupMissClaims(r) ==
    /\ pc[r] = "lookup" /\ cur[r].event \notin ledger
    /\ ledger' = ledger \union {cur[r].event}
    /\ Goto(r, "handle")
    /\ UNCHANGED <<brokerVars, cur, open, inbox, notifications, deadLetters>> /\ NoFault

LookupMiss(r) ==
    /\ pc[r] = "lookup" /\ cur[r].event \notin ledger
    /\ Goto(r, "handle")
    /\ UNCHANGED <<brokerVars, cur, open, inbox, storeVars>> /\ NoFault

\* The lookup is in no try block: the loop's safety net logs the error and the
\* message stays unsettled.
LookupFails(r) ==
    /\ pc[r] = "lookup"
    /\ Fault("lookupFails")
    /\ Return(r)
    /\ UNCHANGED <<brokerVars, storeVars>>

\* handleUserCreated, handleUserUpdated: one Notification.create.
WriteNotification(r) ==
    /\ notifications' = notifications \union {cur[r]}
    /\ UNCHANGED <<ledger, deadLetters>>

CreateNotification(r) ==
    /\ pc[r] = "handle"
    /\ WriteNotification(r)
    /\ Goto(r, "record")
    /\ UNCHANGED <<brokerVars, cur, open, inbox>> /\ NoFault

\* Mutation: no retry, every failure goes to the dead letters.
HandlerThrewGivesUp(r) ==
    /\ Goto(r, "deadLetter")
    /\ UNCHANGED <<brokerVars, cur, open, inbox>>

\* The catch block of the handler: retry, or dead-letter the final attempt.
HandlerThrew(r) ==
    IF FinalAttempt(cur[r])
    THEN /\ Goto(r, "deadLetter")
         /\ UNCHANGED <<brokerVars, cur, open, inbox>>
    ELSE /\ Send("nak", cur[r])
         /\ Return(r)

CreateFails(r) ==
    /\ pc[r] = "handle"
    /\ Fault("createFails")
    /\ HandlerThrew(r)
    /\ UNCHANGED storeVars

CreateTimesOut(r) ==
    /\ pc[r] = "handle"
    /\ Fault("createTimesOut")
    /\ WriteNotification(r)
    /\ HandlerThrew(r)

\* ProcessedEvent.create; the duplicate-key error of a race with another
\* replica counts as success.
WriteLedger(r) ==
    /\ ledger' = ledger \union {cur[r].event}
    /\ UNCHANGED <<notifications, deadLetters>>

RecordEvent(r) ==
    /\ pc[r] = "record"
    /\ WriteLedger(r)
    /\ Goto(r, "ack")
    /\ UNCHANGED <<brokerVars, cur, open, inbox>> /\ NoFault

\* Mutation: acknowledge although the row was not written.
RecordFailsAcks(r) ==
    /\ pc[r] = "record"
    /\ Fault("recordFails")
    /\ Send("ack", cur[r])
    /\ Return(r)
    /\ UNCHANGED storeVars

\* Any other error of the ledger write: nak, even on the final attempt.
RecordFails(r) ==
    /\ pc[r] = "record"
    /\ Fault("recordFails")
    /\ Send("nak", cur[r])
    /\ Return(r)
    /\ UNCHANGED storeVars

\* Mutation: one try block around handler and ledger write.
RecordTimesOutInHandler(r) ==
    /\ pc[r] = "record"
    /\ Fault("recordTimesOut")
    /\ WriteLedger(r)
    /\ HandlerThrew(r)

RecordTimesOut(r) ==
    /\ pc[r] = "record"
    /\ Fault("recordTimesOut")
    /\ WriteLedger(r)
    /\ Send("nak", cur[r])
    /\ Return(r)

Ack(r) ==
    /\ pc[r] = "ack"
    /\ Send("ack", cur[r])
    /\ Return(r)
    /\ UNCHANGED storeVars /\ NoFault

\* deadLetter(msg, reason) logs its own errors; msgID makes a second copy of
\* the same message a duplicate.
DeadLetter(r) ==
    /\ pc[r] = "deadLetter"
    /\ deadLetters' = IF CanCopy(cur[r].event)
                      THEN deadLetters \union {cur[r].event}
                      ELSE deadLetters
    /\ Goto(r, "term")
    /\ UNCHANGED <<brokerVars, cur, open, inbox, ledger, notifications>> /\ NoFault

DeadLetterFails(r) ==
    /\ pc[r] = "deadLetter"
    /\ Fault("deadLetterFails")
    /\ Goto(r, "term")
    /\ UNCHANGED <<brokerVars, cur, open, inbox, storeVars>>

Term(r) ==
    /\ pc[r] = "term"
    /\ Send("term", cur[r])
    /\ Return(r)
    /\ UNCHANGED storeVars /\ NoFault

----------------------------------------------------------------------------

\* What a live replica does next when no call fails.
Proceed(r) ==
    \/ Start(r) \/ Consume(r)
    \/ TakeMalformed(r) \/ TakeUnknown(r) \/ TakeValid(r)
    \/ LookupHit(r) \/ LookupMiss(r)
    \/ CreateNotification(r) \/ RecordEvent(r) \/ Ack(r)
    \/ DeadLetter(r) \/ Term(r)

Fail(r) ==
    \/ Crash(r) \/ Disconnect(r)
    \/ LookupFails(r) \/ CreateFails(r) \/ CreateTimesOut(r)
    \/ RecordFails(r) \/ RecordTimesOut(r) \/ DeadLetterFails(r)

BrokerStep ==
    \/ \E e \in Event : Publish(e) \/ AckWait(e)
    \/ \E r \in Replica, e \in Event : Deliver(r, e)
    \/ \E s \in wire : BrokerReceives(s) \/ BrokerIgnores(s) \/ SettlementLost(s)

Next == BrokerStep \/ \E r \in Replica : Proceed(r) \/ Fail(r)

SafeSpec == Init /\ [][Next]_vars

\* compose restarts a process that ends (restart: unless-stopped), runLoop
\* never returns, every call ends in an answer or an error, and the broker
\* delivers, reads and expires what it holds.
Fairness ==
    /\ \A r \in Replica : WF_vars(Proceed(r))
    /\ \A e \in Event : WF_vars(\E r \in Replica : Deliver(r, e))
    /\ \A e \in Event : WF_vars(AckWait(e))
    /\ WF_vars(\E s \in wire : BrokerReceives(s) \/ BrokerIgnores(s))

Spec == SafeSpec /\ Fairness

----------------------------------------------------------------------------
(* Properties.                                                             *)

\* The state stays within its types (the fields of UserEventConsumer, the two
\* collections and the broker's bookkeeping).
TypeOK ==
    /\ BrokerTypeOK
    /\ pc \in [Replica -> {"down", "idle", "lookup", "handle", "record",
                           "ack", "deadLetter", "term"}]
    /\ cur \in [Replica -> Delivery \union {None}]
    /\ open \in [Replica -> BOOLEAN]
    /\ inbox \in [Replica -> Seq(Delivery)]
    /\ ledger \subseteq Event
    /\ notifications \subseteq Delivery
    /\ deadLetters \subseteq Event
    /\ faultsLeft \in 0..MaxFaults
    /\ faulted \subseteq Faults

\* A ledger row stands for a written notification: process() trusts the row
\* alone when it drops a redelivery as a duplicate (consumer.js:138-143).
LedgerMeansNotified == \A e \in ledger : Notified(e)

\* An event the broker regards as acknowledged was skipped for its type, or has
\* both its notification and its ledger row (README:132, "ACK only after the
\* notification and the ledger row are persisted").
AckedMeansPersisted ==
    \A e \in Event : phase[e] = "acked" =>
        Kind[e] = "unknownType" \/ (e \in ledger /\ Notified(e))

\* The consumer terminates a message only if it can never be handled, or if it
\* was the final attempt: a term at any other time gives up retries that are
\* left (consumer.js:160-174).
TermMeansHopeless ==
    \A e \in Event : phase[e] = "termed" =>
        Malformed(e) \/ (Valid(e) /\ deliveries[e] = MaxDeliveries)

\* Once the broker regards an event as settled no replica writes a notification
\* for it, as long as every delivery is answered within ack_wait
\* (consumer.js:47).
NoWorkAfterSettlement ==
    [][Without({"slow"}) =>
         \A d \in notifications' \ notifications : phase[d.event] \notin Settled]_vars

\* No event has two notification rows.
NotifiedOnce == \A d1, d2 \in notifications : d1.event = d2.event => d1 = d2

\* What can make a second row: the row is there but the ledger row is not, or
\* two replicas handle the event at a time.
Duplicating ==
    {"crash", "createTimesOut", "recordFails"}
      \union {k \in {"slow"} : \E r1, r2 \in Replica : r1 # r2}

\* The ledger lookup and the unique index keep redeliveries from writing a
\* second row, whatever else fails (consumer.js:136-143, 178-191): failing
\* handlers and lookups, lost answers of the ledger write, dropped deliveries,
\* lost settlements, and with one replica also redelivery while it is handling
\* the event.
AtMostOneNotification == Without(Duplicating) => NotifiedOnce

\* A well-formed event that nobody will try again, and whose last delivery
\* nobody still holds, has left a trace: a notification or a dead-letter copy
\* (README:64, "a notification is never silently lost").
LeavesTrace ==
    \A e \in Event :
        /\ Valid(e) /\ phase[e] \in {"termed", "exhausted"}
        /\ ~Held(CurrentDelivery(e))
        => Notified(e) \/ e \in deadLetters

\* That holds of handlers that throw, of ledger writes that fail and of late or
\* lost settlements, given a stream that captures events.deadletter; not of
\* faults that consume the final delivery outside the handler's try block.
NoSilentDrop ==
    DEAD_LETTER \in StreamSubjects
      /\ Without({"crash", "disconnect", "lookupFails", "deadLetterFails"})
        => LeavesTrace

\* What lies on events.deadletter was not handled, so replaying the dead letters
\* notifies nobody twice, unless a row was written by a delivery that did not
\* report it (consumer.js:160-167).
DeadLetterMeansUnnotified ==
    Without({"crash", "createTimesOut", "recordFails", "slow"})
      => \A e \in deadLetters : ~Notified(e)

\* Fewer faults than deliveries cost no event: a message process() can handle is
\* neither terminated nor exhausted (max_deliver, consumer.js:48).
FaultsTolerated ==
    MaxFaults - faultsLeft < MaxDeliveries =>
        \A e \in Event : phase[e] \in {"termed", "exhausted"} => Malformed(e)

\* A message that was terminated has its copy on events.deadletter (README:134:
\* the message is "term()-ed and copied to events.deadletter").
TermMeansCopied == \A e \in Event : phase[e] = "termed" => e \in deadLetters

\* Every published event is settled in the end: acknowledged, terminated or out
\* of deliveries; no interleaving leaves it in flight for ever.
EventuallySettled ==
    \A e \in Event : phase[e] = "ready" ~> phase[e] \in Settled

\* Every published well-formed event is notified in the end, unless there are as
\* many faults as deliveries.
EventuallyNotified ==
    \A e \in Event :
        phase[e] = "ready" /\ Valid(e)
          ~> Notified(e) \/ MaxFaults - faultsLeft >= MaxDeliveries

----------------------------------------------------------------------------
(* The pipeline keeps the promise of EventDelivery.                        *)

StatusOf(e) ==
    CASE phase[e] = "absent" -> "unpublished"
      [] Outstanding(e) -> "pending"
      [] phase[e] = "acked" -> "done"
      [] phase[e] \in {"termed", "exhausted"} -> "gaveUp"

Promise == INSTANCE EventDelivery WITH
    status <- [e \in Event |-> StatusOf(e)],
    attempts <- deliveries,
    notified <- {e \in Event : Notified(e)},
    Skippable <- {e \in Event : Kind[e] = "unknownType"},
    Unusable <- {e \in Event : Malformed(e)}

\* Whatever fails and however replicas interleave, each step of the consumer is
\* a step of EventDelivery, and every pending event is brought to an end.
KeepsPromise == Promise!Spec

=============================================================================
