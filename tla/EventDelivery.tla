--------------------------- MODULE EventDelivery ---------------------------
(***************************************************************************)
(* What the notification pipeline promises, without replicas, messages or  *)
(* databases: each published event is attempted a bounded number of times  *)
(* and is then either done or given up, for good.  It is done only with a  *)
(* notification row (or because its type is unknown here); a well-formed   *)
(* event is given up only after its last attempt; a malformed one never    *)
(* becomes a notification.                                                 *)
(*                                                                         *)
(* How often an event is notified is deliberately not promised: the        *)
(* consumer is at-least-once (NotificationConsumer!AtMostOneNotification   *)
(* says when it is more).                                                  *)
(***************************************************************************)
EXTENDS Naturals

CONSTANTS Event, MaxDeliveries, Skippable, Unusable

VARIABLES status, attempts, notified

vars == <<status, attempts, notified>>

Statuses == {"unpublished", "pending", "done", "gaveUp"}

Init ==
    /\ status = [e \in Event |-> "unpublished"]
    /\ attempts = [e \in Event |-> 0]
    /\ notified = {}

Publish(e) ==
    /\ status[e] = "unpublished"
    /\ status' = [status EXCEPT ![e] = "pending"]
    /\ UNCHANGED <<attempts, notified>>

Attempt(e) ==
    /\ status[e] = "pending"
    /\ attempts[e] < MaxDeliveries
    /\ attempts' = [attempts EXCEPT ![e] = @ + 1]
    /\ UNCHANGED <<status, notified>>

\* An attempt that outlives its acknowledgement wait may write its row after
\* the event is done or given up.
Notify(e) ==
    /\ e \notin Skippable \union Unusable
    /\ attempts[e] > 0
    /\ notified' = notified \union {e}
    /\ UNCHANGED <<status, attempts>>

Finish(e) ==
    /\ status[e] = "pending"
    /\ e \in Skippable \union notified
    /\ status' = [status EXCEPT ![e] = "done"]
    /\ UNCHANGED <<attempts, notified>>

GiveUp(e) ==
    /\ status[e] = "pending"
    /\ e \in Unusable \/ attempts[e] = MaxDeliveries
    /\ status' = [status EXCEPT ![e] = "gaveUp"]
    /\ UNCHANGED <<attempts, notified>>

Settle(e) == Finish(e) \/ GiveUp(e)

Next == \E e \in Event : Publish(e) \/ Attempt(e) \/ Notify(e) \/ Settle(e)

SafeSpec == Init /\ [][Next]_vars

\* Attempts are bounded, so progress on a pending event ends with Settle.
Spec == SafeSpec /\ \A e \in Event : WF_vars(Attempt(e) \/ Settle(e))

=============================================================================
