------------------------------ MODULE Emulator ------------------------------
(***************************************************************************)
(* The broker of the local demo, as its clients meet it: the in-memory     *)
(* JetStream emulator behind a TCP socket per client, and the shim that    *)
(* replaces the nats library in notification-service.                      *)
(*                                                                         *)
(* Messages are named by the eventId they carry: the emulator remembers    *)
(* every msgID for ever, so an event has one sequence number.  Both ends   *)
(* of a socket are FIFO.  The emulator handles a line or a timer without   *)
(* interruption.  It keeps everything in memory and its own end is the end *)
(* of the demo: only clients crash.                                        *)
(***************************************************************************)
EXTENDS FaultBudget, Sequences, SequencesExt

CONSTANTS
    Event,      \* what user-service publishes
    Client,     \* processes of notification-service
    Nobody,     \* no client
    MaxDeliver  \* max_deliver of the durable

ASSUME ClientAssumption == Nobody \notin Client
ASSUME FaultsAssumption == Faults \subseteq {"crash"}
ASSUME BoundsAssumption == MaxFaults \in Nat /\ MaxDeliver \in Nat \ {0}

VARIABLES
    durable,    \* the consumer exists
    stored,     \* the messages of the stream, oldest first
    pending,    \* entries that wait for a session
    inflight,   \* entries whose ack-wait timer runs, the keys of the map
    scheduled,  \* entries whose nak delay runs
    settled,    \* "delivered": events that were acked or terminated
    session,    \* the client that receives, Nobody when its socket is destroyed
    sent,       \* history: how often each event was written to a socket
    line,       \* line[c]: what was written to the socket of c and not read
    requests,   \* requests[c]: what c wrote and the emulator did not read
    pc,         \* pc[c]: what the consumer of c is doing
    queue,      \* queue[c]: messages the iterator has not yielded
    cur,        \* cur[c]: the message process() has in hand, or None
    taken       \* history: the events c was given, in order

brokerVars == <<durable, stored, pending, inflight, scheduled, settled, session, sent>>
clientVars == <<pc, queue, cur, taken>>
socketVars == <<line, requests>>
vars == <<brokerVars, clientVars, socketVars, faultVars>>

None == [event |-> "none", count |-> 0]
Started == [event |-> "started", count |-> 0]

----------------------------------------------------------------------------
(* Numbers as JavaScript and JSON see them.                                *)

Undefined == -1
NaN == -2
Null == -3

\* What an operator makes of its operand: undefined is no number, null is zero.
ToNumber(n) == CASE n = Undefined -> NaN [] n = Null -> 0 [] OTHER -> n

Increment(n) == IF ToNumber(n) = NaN THEN NaN ELSE ToNumber(n) + 1

LessThan(m, n) ==
    NaN \notin {ToNumber(m), ToNumber(n)} /\ ToNumber(m) < ToNumber(n)

\* Mutation: an encoding that keeps NaN.
ToJSONExact(n) == n

ToJSON(n) == IF n = NaN THEN Null ELSE n

----------------------------------------------------------------------------

Counts == {Undefined, NaN} \union 1..MaxDeliver
Entry == [event : Event, count : Counts]
Message == [event : Event, count : {Null} \union 1..MaxDeliver]
Verdicts == {"ack", "nak", "term"}
Request == {[op |-> "start"]} \union [op : Verdicts, message : Message]

Init ==
    /\ durable = FALSE /\ stored = <<>>
    /\ pending = <<>> /\ inflight = {} /\ scheduled = {} /\ settled = {}
    /\ session = Nobody
    /\ sent = [e \in Event |-> 0]
    /\ line = [c \in Client |-> <<>>] /\ requests = [c \in Client |-> <<>>]
    /\ pc = [c \in Client |-> "down"]
    /\ queue = [c \in Client |-> <<>>]
    /\ cur = [c \in Client |-> None]
    /\ taken = [c \in Client |-> <<>>]
    /\ faultsLeft = MaxFaults /\ faulted = {}

Tracked(e) ==
    \/ \E i \in 1..Len(pending) : pending[i].event = e
    \/ \E entry \in inflight \union scheduled : entry.event = e

----------------------------------------------------------------------------
(* The emulator.                                                           *)

\* The places of a list that pump() sends, in rising order: an entry that is in
\* flight under its key is skipped.
Kept(waiting, busy) == {i \in DOMAIN waiting : waiting[i] \notin busy}
Rising(places) ==
    CHOOSE at \in [1..Cardinality(places) -> places] :
        \A i, j \in DOMAIN at : i < j => at[i] < at[j]

\* Mutation: pump() takes the newest entry (pop for shift).
ToSendNewestFirst(waiting, busy) ==
    LET at == Rising(Kept(waiting, busy)) IN Reverse([i \in DOMAIN at |-> waiting[at[i]]])

\* What pump() sends, the oldest entry first.
ToSend(waiting, busy) ==
    LET at == Rising(Kept(waiting, busy)) IN [i \in DOMAIN at |-> waiting[at[i]]]

Counted(entry) == [entry EXCEPT !.count = Increment(@)]
Wire(entry) == [event |-> entry.event, count |-> ToJSON(entry.count)]

\* pump(c) with these entries waiting and these in flight; reply is the answer
\* to the request that is being handled, written behind the messages.
Pump(waiting, busy, reply) ==
    IF session' = Nobody
    THEN /\ pending' = waiting /\ inflight' = busy
         /\ UNCHANGED <<line, sent>>
    ELSE LET out == [i \in DOMAIN ToSend(waiting, busy) |->
                        Counted(ToSend(waiting, busy)[i])]
         IN  /\ pending' = <<>>
             /\ inflight' = busy \union Range(out)
             /\ sent' = [e \in Event |->
                           sent[e] + Cardinality({i \in DOMAIN out : out[i].event = e})]
             /\ line' = [line EXCEPT ![session'] =
                           @ \o [i \in DOMAIN out |-> Wire(out[i])] \o reply]

\* The entry of a new message has no deliveryCount.
EntryOf(e) == [event |-> e, count |-> Undefined]

\* "publish" of a message for the stream.  A copy of a failed message
\* (events.deadletter) finds no stream and changes nothing.
Publish(e) ==
    /\ e \notin Range(stored)
    /\ stored' = Append(stored, e)
    /\ session' = session
    /\ IF durable /\ e \notin settled
       THEN Pump(Append(pending, EntryOf(e)), inflight, <<>>)
       ELSE UNCHANGED <<pending, inflight, line, sent>>
    /\ UNCHANGED <<durable, scheduled, settled, requests, clientVars>> /\ NoFault

NextRequest(c, op) ==
    /\ requests[c] # <<>> /\ Head(requests[c]).op = op
    /\ requests' = [requests EXCEPT ![c] = Tail(@)]

\* "consume.start": the last client to ask is served.
HandleStart(c) ==
    /\ NextRequest(c, "start")
    /\ session' = c
    /\ Pump(pending, inflight, <<Started>>)
    /\ UNCHANGED <<durable, stored, scheduled, settled, clientVars>> /\ NoFault

\* The entry in flight under the key of a request, seq#deliveryCount.
Keyed(c) == {entry \in inflight : entry = Head(requests[c]).message}

\* "ack" and "term".
HandleDone(c) ==
    /\ NextRequest(c, "ack") \/ NextRequest(c, "term")
    /\ session' = session
    /\ IF Keyed(c) = {} THEN UNCHANGED <<pending, inflight, settled, line, sent>>
       ELSE /\ settled' = settled \union {entry.event : entry \in Keyed(c)}
            /\ Pump(pending, inflight \ Keyed(c), <<>>)
    /\ UNCHANGED <<durable, stored, scheduled, clientVars>> /\ NoFault

HandleNak(c) ==
    /\ NextRequest(c, "nak")
    /\ inflight' = inflight \ Keyed(c)
    /\ scheduled' = scheduled \union Keyed(c)
    /\ UNCHANGED <<durable, stored, pending, settled, session, sent, line, clientVars>>
    /\ NoFault

\* A timer of an entry fires.  The nak delay always leads to a new delivery; the
\* ack wait of 30 s does not if the count has reached max_deliver, or is not a
\* number.
TimerFires(entry) ==
    /\ scheduled' = scheduled \ {entry}
    /\ session' = session
    /\ IF entry \in scheduled \/ LessThan(entry.count, MaxDeliver)
       THEN Pump(Append(pending, entry), inflight \ {entry}, <<>>)
       ELSE inflight' = inflight \ {entry} /\ UNCHANGED <<pending, line, sent>>
    /\ UNCHANGED <<durable, stored, settled, requests, clientVars>> /\ NoFault

----------------------------------------------------------------------------
(* The clients.                                                            *)

\* consumers.add creates the durable or finds it; what is stored already is not
\* delivered to a new one.
Start(c) ==
    /\ pc[c] = "down"
    /\ durable' = TRUE
    /\ pc' = [pc EXCEPT ![c] = "added"]
    /\ UNCHANGED <<stored, pending, inflight, scheduled, settled, session, sent,
                   queue, cur, taken, socketVars>> /\ NoFault

\* consume() registers the iterator and then asks for messages.
Consume(c) ==
    /\ pc[c] = "added"
    /\ pc' = [pc EXCEPT ![c] = "opening"]
    /\ requests' = [requests EXCEPT ![c] = Append(@, [op |-> "start"])]
    /\ UNCHANGED <<brokerVars, queue, cur, taken, line>> /\ NoFault

\* Mutation: the iterator is made when consume.start has been answered.
ListeningLate(c) == pc[c] \in {"idle", "busy"}

\* The iterator of c is registered; messages nobody listens for are dropped.
Listening(c) == pc[c] \in {"opening", "idle", "busy"}

ReadLine(c) ==
    /\ pc[c] # "down" /\ line[c] # <<>>
    /\ line' = [line EXCEPT ![c] = Tail(@)]
    /\ IF Head(line[c]) = Started
       THEN pc' = [pc EXCEPT ![c] = "idle"] /\ queue' = queue
       ELSE /\ pc' = pc
            /\ queue' = IF Listening(c)
                        THEN [queue EXCEPT ![c] = Append(@, Head(line[c]))] ELSE queue
    /\ UNCHANGED <<brokerVars, cur, taken, requests>> /\ NoFault

Take(c) ==
    /\ pc[c] = "idle" /\ queue[c] # <<>>
    /\ cur' = [cur EXCEPT ![c] = Head(queue[c])]
    /\ queue' = [queue EXCEPT ![c] = Tail(@)]
    /\ taken' = [taken EXCEPT ![c] = Append(@, Head(queue[c]).event)]
    /\ pc' = [pc EXCEPT ![c] = "busy"]
    /\ UNCHANGED <<brokerVars, socketVars>> /\ NoFault

\* process() returns: it acks, naks or terminates the message, or has thrown.
Answer(c) ==
    /\ pc[c] = "busy"
    /\ pc' = [pc EXCEPT ![c] = "idle"]
    /\ cur' = [cur EXCEPT ![c] = None]
    /\ \/ \E v \in Verdicts :
             requests' = [requests EXCEPT ![c] = Append(@, [op |-> v, message |-> cur[c]])]
       \/ UNCHANGED requests
    /\ UNCHANGED <<brokerVars, queue, taken, line>> /\ NoFault

\* The process of c ends, and its socket with it.  What the emulator has not read
\* is lost, and it sees the socket destroyed at once; it may do both later, which
\* only lengthens the time in which it handles requests of c or writes to it.
Crash(c) ==
    /\ pc[c] # "down"
    /\ Fault("crash")
    /\ pc' = [pc EXCEPT ![c] = "down"]
    /\ queue' = [queue EXCEPT ![c] = <<>>]
    /\ cur' = [cur EXCEPT ![c] = None]
    /\ line' = [line EXCEPT ![c] = <<>>]
    /\ requests' = [requests EXCEPT ![c] = <<>>]
    /\ session' = IF session = c THEN Nobody ELSE session
    /\ UNCHANGED <<durable, stored, pending, inflight, scheduled, settled, sent, taken>>

----------------------------------------------------------------------------

Handle(c) == HandleStart(c) \/ HandleDone(c) \/ HandleNak(c)

Proceed(c) == Start(c) \/ Consume(c) \/ ReadLine(c) \/ Take(c) \/ Answer(c)

Timer == \E entry \in inflight \union scheduled : TimerFires(entry)

Next ==
    \/ \E e \in Event : Publish(e)
    \/ \E c \in Client : Handle(c) \/ Proceed(c) \/ Crash(c)
    \/ Timer

SafeSpec == Init /\ [][Next]_vars

\* Sockets are read, timers expire, and each await of the client ends.
Fairness ==
    /\ \A c \in Client :
          /\ WF_vars(Handle(c)) /\ WF_vars(Start(c) \/ Consume(c))
          /\ WF_vars(ReadLine(c)) /\ WF_vars(Take(c) \/ Answer(c))
    /\ WF_vars(Timer)

Spec == SafeSpec /\ Fairness

----------------------------------------------------------------------------
(* Properties.                                                             *)

TypeOK ==
    /\ durable \in BOOLEAN
    /\ Range(stored) \subseteq Event
    /\ Range(pending) \subseteq Entry
    /\ inflight \subseteq Entry /\ scheduled \subseteq Entry /\ settled \subseteq Event
    /\ session \in Client \union {Nobody}
    /\ sent \in [Event -> Nat]
    /\ \A c \in Client :
          /\ Range(line[c]) \subseteq Message \union {Started}
          /\ Range(requests[c]) \subseteq Request
          /\ pc[c] \in {"down", "added", "opening", "idle", "busy"}
          /\ Range(queue[c]) \subseteq Message
          /\ cur[c] \in Message \union {None}
          /\ Range(taken[c]) \subseteq Event

\* A client is given the events in the order they were published
\* (nats-emulator-server.js:151-159).
InOrder ==
    \A c \in Client : \A i, j \in 1..Len(taken[c]) :
        i < j => \E m, n \in 1..Len(stored) :
                    m < n /\ stored[m] = taken[c][i] /\ stored[n] = taken[c][j]

\* As long as no client crashes, an event that was published after the durable
\* was made reaches process(): neither the change of session nor the messages
\* that overtake the answer to consume.start lose it (nats-shim.js:133-136).
EventuallyTaken ==
    \A e \in Event :
        Tracked(e) ~> (\E c \in Client : e \in Range(taken[c])) \/ faulted # {}

\* An event that was delivered and has deliveries left is settled, or the broker
\* will deliver it again (nats-emulator-server.js:14: "ack-window redelivery,
\* nak(ms)"; README:278-279, "nak-redelivery").
KeepsTrack ==
    \A e \in Event :
        0 < sent[e] /\ sent[e] < MaxDeliver => e \in settled \/ Tracked(e)

=============================================================================
