------------------------ MODULE NotificationLifecycle ------------------------
(***************************************************************************)
(* The whole process of notification-service: the consumer, the graceful   *)
(* shutdown of server.js around it, and somebody who pages through his     *)
(* notifications over HTTP meanwhile.                                      *)
(*                                                                         *)
(* consumer.stop() does not wait for the message in process(), nor for the *)
(* ones the iterator still yields: their handling goes on while NATS is    *)
(* drained and MongoDB is closed, and ends with the process.               *)
(***************************************************************************)
EXTENDS NotificationConsumer, SequencesExt

CONSTANTS
    MaxExits,   \* bound on the graceful exits
    Limit,      \* the limit of a list request
    Instant     \* values of createdAt, in milliseconds

ASSUME LifeAssumption ==
    MaxExits \in Nat /\ Limit \in Nat \ {0} /\ Instant \subseteq Nat

VARIABLES
    stage,     \* stage[r]: "up", "stopping" (HTTP), "draining" (NATS) or "closed"
    exits,     \* history: how many graceful exits there were, the one under way included
    createdAt, \* createdAt[d]: when the notification row d was made
    walk       \* the client that walks through the pages

lifeVars == <<vars, stage, exits, createdAt, walk>>


NewWalk ==
    [page |-> 1, state |-> "idle", server |-> CHOOSE r \in Replica : TRUE,
     awaited |-> {}, found |-> {}, total |-> 0,
     unseen |-> {}, torn |-> FALSE]

LifeInit ==
    /\ Init
    /\ stage = [r \in Replica |-> "up"] /\ exits = 0
    /\ createdAt = [d \in {} |-> 0] /\ walk = NewWalk

----------------------------------------------------------------------------
(* The list request.  A response is made of two queries that run side by   *)
(* side.  The walk asks for page after page until totalPages.              *)

UnchangedLife == UNCHANGED <<stage, exits, createdAt>>

\* walk.unseen: the rows there were at the first request, and he was not shown yet.
Ask(r) ==
    /\ walk.state = "idle"
    /\ pc[r] # "down" /\ stage[r] = "up"
    /\ walk' = [walk EXCEPT !.state = "asked", !.server = r, !.awaited = {"find", "count"},
                            !.unseen = IF walk.page = 1 THEN notifications ELSE @]
    /\ UnchangedLife /\ UNCHANGED vars

\* Mutation: pages counted from 0.
SkippedFromZero(page) == page * Limit

\* (page - 1) * limit
Skipped(page) == (page - 1) * Limit

\* The orders a query may see: latest first.  Rows of one createdAt come in any
\* order, and in another one in the next query: nothing else is sorted by.
Orders ==
    {order \in SetToSeqs(notifications) :
        \A i, j \in DOMAIN order : i < j => createdAt[order[i]] >= createdAt[order[j]]}

PageRows(order, page) ==
    {order[i] : i \in {n \in DOMAIN order : Skipped(page) < n /\ n <= Skipped(page) + Limit}}

\* Notification.find(filter).sort({ createdAt: -1 }).skip().limit()
Find ==
    /\ "find" \in walk.awaited
    /\ \E order \in Orders :
          walk' = [walk EXCEPT !.awaited = @ \ {"find"},
                               !.found = PageRows(order, walk.page) \intersect walk.unseen]
    /\ UnchangedLife /\ UNCHANGED vars

\* Notification.countDocuments(filter)
Count ==
    /\ "count" \in walk.awaited
    /\ walk' = [walk EXCEPT !.awaited = @ \ {"count"}, !.total = Cardinality(notifications)]
    /\ UnchangedLife /\ UNCHANGED vars

\* Math.ceil(total / limit) || 1
TotalPages(total) == IF total = 0 THEN 1 ELSE (total + Limit - 1) \div Limit

Respond ==
    /\ walk.state = "asked" /\ walk.awaited = {}
    /\ walk' = [walk EXCEPT !.unseen = @ \ walk.found, !.found = {}, !.total = 0,
                            !.page = IF @ >= TotalPages(walk.total) THEN 1 ELSE @ + 1,
                            !.state = IF walk.page >= TotalPages(walk.total)
                                      THEN "over" ELSE "idle"]
    /\ UnchangedLife /\ UNCHANGED vars

\* The process that handles the request ends: the page is asked for again.
Dropped(r) ==
    IF walk.state = "asked" /\ walk.server = r
    THEN [walk EXCEPT !.state = "idle", !.awaited = {}, !.found = {}, !.total = 0]
    ELSE walk

\* The createdAt of a new row is set by the process that sends it, whose clock
\* need not agree with others: it may be earlier than that of older rows, or equal.
RowsFollow ==
    IF notifications' = notifications THEN UNCHANGED <<createdAt, walk>>
    ELSE /\ \E instant \in Instant :
               createdAt' = [d \in notifications' |->
                                IF d \in notifications THEN createdAt[d] ELSE instant]
         /\ walk' = [walk EXCEPT !.torn = @ \/ walk.awaited = {"find"}]

----------------------------------------------------------------------------
(* The process.                                                            *)

Broker ==
    /\ BrokerStep
    /\ UnchangedLife /\ UNCHANGED walk

\* consume() and js.publish() on a connection that drains throw.
Work(r) ==
    /\ stage[r] # "closed"
    /\ Proceed(r)
    /\ stage[r] = "draining" => ~open'[r] /\ pc[r] # "deadLetter"
    /\ RowsFollow /\ UNCHANGED <<stage, exits>>

\* deadLetter() logs that it could not publish, and the term follows.
Uncopied(r) ==
    /\ stage[r] = "draining" /\ pc[r] = "deadLetter"
    /\ Goto(r, "term")
    /\ UNCHANGED <<brokerVars, cur, open, inbox, storeVars, stage, exits, createdAt, walk>>
    /\ NoFault

WorkFails(r) ==
    /\ stage[r] # "closed"
    /\ Fail(r) /\ pc'[r] # "down"
    /\ RowsFollow /\ UNCHANGED <<stage, exits>>

\* SIGINT or SIGTERM; a second one while HTTP closes changes nothing.
Signal(r) ==
    /\ pc[r] # "down" /\ stage[r] = "up"
    /\ exits < MaxExits
    /\ stage' = [stage EXCEPT ![r] = "stopping"]
    /\ exits' = exits + 1
    /\ UNCHANGED <<vars, createdAt, walk>>

\* httpServer.close() is done; consumer.stop() and the call of drain() follow.
\* What the iterator has buffered is still yielded.
Stop(r) ==
    /\ stage[r] = "stopping"
    /\ ~(walk.state = "asked" /\ walk.server = r)
    /\ stage' = [stage EXCEPT ![r] = "draining"]
    /\ open' = [open EXCEPT ![r] = FALSE]
    /\ UNCHANGED <<brokerVars, pc, cur, inbox, storeVars, exits, createdAt, walk>> /\ NoFault

Drained(r) ==
    /\ stage[r] = "draining"
    /\ stage' = [stage EXCEPT ![r] = "closed"]
    /\ UNCHANGED <<vars, exits, createdAt, walk>>

\* With NATS closed the rows are still written, until MongoDB is closed too.
Linger(r) ==
    /\ stage[r] = "closed"
    /\ TakeValid(r) \/ LookupMiss(r) \/ CreateNotification(r) \/ RecordEvent(r)
    /\ RowsFollow /\ UNCHANGED <<stage, exits>>

\* But no settlement and no copy leaves the process any more.
Unsettled(r) ==
    /\ stage[r] = "closed"
    /\ \/ pc[r] \in {"ack", "deadLetter", "term"}
       \/ pc[r] = "lookup" /\ cur[r].event \in ledger
    /\ Return(r)
    /\ UNCHANGED <<brokerVars, storeVars, stage, exits, createdAt, walk>> /\ NoFault

Discard(r) ==
    /\ stage[r] = "closed"
    /\ Yield(r, Kinds \ {"valid"})
    /\ UNCHANGED <<brokerVars, pc, cur, stage, exits, createdAt, walk>>

\* The process ends with whatever it had in hand.
End(r) ==
    /\ pc' = [pc EXCEPT ![r] = "down"]
    /\ cur' = [cur EXCEPT ![r] = None]
    /\ open' = [open EXCEPT ![r] = FALSE]
    /\ inbox' = [inbox EXCEPT ![r] = <<>>]
    /\ stage' = [stage EXCEPT ![r] = "up"]
    /\ walk' = Dropped(r)
    /\ UNCHANGED <<brokerVars, storeVars, createdAt>>

\* exit(0) with MongoDB closed; or exit(1) right after a second signal, for
\* drain() rejects when it is called again.
Exit(r) ==
    /\ stage[r] \in {"draining", "closed"}
    /\ End(r)
    /\ UNCHANGED exits /\ NoFault

ProcessCrash(r) ==
    /\ pc[r] # "down"
    /\ Fault("crash")
    /\ End(r)
    /\ UNCHANGED exits

LifeNext ==
    \/ Broker
    \/ \E r \in Replica :
          \/ Work(r) \/ WorkFails(r) \/ Uncopied(r)
          \/ Signal(r) \/ Stop(r) \/ Drained(r) \/ Linger(r) \/ Unsettled(r) \/ Discard(r)
          \/ Exit(r) \/ ProcessCrash(r)
          \/ Ask(r)
    \/ Find \/ Count \/ Respond

SafeLife == LifeInit /\ [][LifeNext]_lifeVars

----------------------------------------------------------------------------
(* Properties.                                                             *)

\* A graceful exit may interrupt a handler between its two writes, as a crash
\* may, and costs at most one row more; nothing else it does writes a row twice
\* (server.js:50-60, consumer.js:215-220).
OneRowPerExit ==
    Without(Duplicating) =>
        \A e \in Event : Cardinality({d \in notifications : d.event = e}) <= 1 + exits

\* Deployments cost deliveries like faults do, one each: below max_deliver of
\* both together no event is given up (consumer.js:48, 215-220).
RestartsTolerated ==
    MaxFaults - faultsLeft + exits < MaxDeliveries =>
        \A e \in Event : phase[e] \in {"termed", "exhausted"} => Malformed(e)

\* No other row has the createdAt of this one.
Alone(d) == \A other \in notifications : createdAt[other] = createdAt[d] => other = d

\* Who follows totalPages sees every row there was when he began and whose
\* createdAt no other row has, although rows are added while he pages, those of
\* equal createdAt change places from query to query, and processes come and go;
\* unless a row is written after a response has counted the rows and before it
\* reads its page (notification.service.js:9-19).
WalkMissesNothing ==
    walk.state = "over" /\ ~walk.torn => \A d \in walk.unseen : ~Alone(d)

=============================================================================
