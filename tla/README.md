# Verification of the user / notification services

TLA+ models of the two event-driven services of this repository, model-checked with TLC and,
where a property matters for every size of the system, proved with TLAPS. Paths are relative to
the root of the repository.

## 1. The system

| Component | State it keeps | Operations | Speaks to |
|---|---|---|---|
| user-service (`user-service/src`) | `users` collection, unique index on `email` | `register`, `login`, `getProfile`, `updateProfile` | MongoDB; publishes to `users.created`, `users.updated` |
| event publisher (`user.publisher.js`) | none | `publish` (awaits a PubAck for 5 s) | NATS JetStream |
| JetStream stream `USER_EVENTS` and durable `notification-service-user-events` | stored events, delivery counts, pending acknowledgements | store, deliver, ack / nak / term, `ack_wait`, `max_deliver` | both services |
| notification consumer (`notification-service/src/events`) | the message in `process()`, the buffer of the `consume()` iterator | `start`, `runLoop`, `process`, `deadLetter`, `stop` | JetStream, MongoDB |
| notification store (`notification.model.js`) | `notifications`, `processedevents` (the ledger, unique `eventId`) | create, find | MongoDB |
| notification HTTP API | none | list, get by id, `/health`, `/ready` | MongoDB |
| api-gateway | rate-limit counters, one proxy per backend | rate limit, authenticate, proxy with timeout, degraded mode | HTTP to both services |
| lifecycle (`server.js` of each service) | the HTTP server, the NATS and MongoDB connections | `start`, `shutdown` on SIGINT or SIGTERM | all of the process |
| emulator and shim (`scripts/`) | an in-memory broker with timers | the broker's operations over TCP | stands in for NATS in the local demo |

A registration writes the account, publishes `user.created` and answers. The consumer gets the
event from the broker, validates it, looks its `eventId` up in the ledger, writes the
notification, writes the ledger row and acknowledges. The services share nothing but the stream.

What is hard in it, and hard to test:

* **Interleaving.** Replicas of the consumer share one durable; handlers of user-service
  interleave at every `await` between a check (`findByEmail`, `findOne`) and a write.
* **Two writes, no transaction.** Account and event; notification and ledger row.
* **Failure.** Processes end at any point, iterators die with buffered messages, a database or
  broker call fails, or is carried out although its caller sees an error.
* **Settlements are fire and forget** and count: a delivery is consumed whether or not anybody
  worked on it, and after `max_deliver` of them the broker is silent.
* **Timeouts.** `ack_wait` may end during a slow handler; the gateway gives up on a request
  whose handler goes on; two timers of the proxy last equally long.
* **Shutdown.** `server.close()` waits for connections and not for handlers, `consumer.stop()` for
  nothing at all, and a second signal makes `drain()` reject.
* **Limits.** A fixed window lets more than one budget through around its end.

`PROJECT.json` lists these hazards at the lines where they bite, with the properties that watch
them; those without a property say why.

## 2. The modules

| Module | Models | Kind |
|---|---|---|
| `JetStream` | the broker as the services use it: one record of phase, delivery count and settlements in flight per event | component (external) |
| `FaultBudget` | a bounded number of faults and a history of their kinds | shared |
| `NotificationConsumer` | replicas of notification-service: `start`, `runLoop`, `process`, `deadLetter`, the two collections; extends `JetStream` | component and composition |
| `EventDelivery` | what the pipeline promises: bounded attempts, then done or given up, for good | abstract specification |
| `UserService` | `register`, `login`, `updateProfile`, the publisher, the clients behind the gateway | component |
| `Pipeline` | both services as instances of their modules, joined by the `USER_EVENTS` stream | composition |
| `UserLifecycle` | a process of user-service from start to exit around the handlers of `UserService` | component |
| `NotificationLifecycle` | a process of notification-service: the consumer, its graceful shutdown, and a client that pages through the list; extends `NotificationConsumer` | component and composition |
| `Gateway` | rate limiter, the checks before the proxy, the proxy with its timers, the process | component |
| `Emulator` | the in-memory broker of the local demo and the shim's connection and iterator (`scripts/`) | component |
| `MCNotificationConsumer`, `MCNotificationLifecycle`, `MCUserService` | constants and symmetry for TLC | model checking |
| `NotificationConsumerProofs`, `NotificationOnceProofs`, `NotificationLifecycleProofs`, `UserServiceProofs`, `UserLifecycleProofs`, `PipelineProofs`, `GatewayProofs`, `EmulatorProofs` | theorems | proofs |

### From code to model

JavaScript runs a handler without interruption between two awaits, so an action is one database
or broker call together with the code up to the next await, and the program counter `pc` names
the call that comes next. In `process()` (`consumer.js:94-195`):

| Code | Action |
|---|---|
| 98-134 classification, dead letter of what is malformed | `TakeMalformed`, `DeadLetter`, `Term` |
| 121-126 unknown type | `TakeUnknown` (acks) |
| 138-143 `ProcessedEvent.findOne` | `LookupHit` (acks), `LookupMiss`, `LookupFails` (returns to `runLoop`, nothing settled) |
| 146-158 handler, one `Notification.create` | `CreateNotification`, `CreateFails`, `CreateTimesOut` |
| 159-176 catch block | `HandlerThrew`: nak, or the dead letter at `FinalAttempt` |
| 178-191 `ProcessedEvent.create` | `RecordEvent` (a duplicate key counts), `RecordFails`, `RecordTimesOut` (nak) |
| 194 | `Ack` |
| 198-213 `deadLetter` | `DeadLetter`, `DeadLetterFails`; both go on to `Term` |

The loop is `Start`, `Consume`, `Disconnect` (a prefix of the buffer survives), `Crash`. A message
is abstracted to its kind (`Kind[e]`): the outcome of `JSON.parse` and of the three validations.
`jsonNull` is the body `null`, which parses, throws on `event.eventId`, and differs from `notJson`
in `deadLetter()`, whose second `JSON.parse` throws only for the latter (`CanCopy`).

In `UserService` an account is named by the request that registered it. `lookup`, `write` and
`publish` are the three awaits of `register` (18-36) and `updateProfile` (60-85); the statuses are
those of `ApiError` and of `errorHandler` (`shared/middleware/index.js:23-54`), which answers 409
to the duplicate key of the unique index. A client whose request the gateway has given up on
hears 503 and its handler continues (`told` and `pc` are separate). An event whose PubAck was not
heard is in `limbo` and may be stored at any later time or never. An event carries the name of the
request that published it: `publish()` draws a fresh `eventId` and no request publishes twice.

`Pipeline` has no state of its own. A step belongs to one of the services and leaves the variables of the
other alone, except that the step in which user-service has an event stored is also the
consumer's `Publish` of that event (`Forward`). That is all the services share, and the reason why
what holds of one of them alone holds of it here.

`Emulator` follows `nats-emulator-server.js` handler by handler (`Publish`, `HandleStart`,
`HandleDone` for `ack` and `term`, `HandleNak`, `TimerFires` for both timers, each with the `pump()` it
ends in) and `nats-shim.js` on the client's side (`Consume` registers and asks, `ReadLine`, `Take`,
`Answer`). Sockets are FIFO in both directions. A delivery count is a number of JavaScript:
`Undefined`, `NaN` and JSON's `Null` are values with the arithmetic and the comparison of the language
(`ToNumber`, `Increment`, `LessThan`, `ToJSON`), because the code computes `undefined + 1`. What `process()` does with a
message is left open: it acks, naks, terminates or throws.

`UserLifecycle` and `NotificationLifecycle` add `stage`, the step of `shutdown()` a process is in, and
wrap the actions of the service they extend: `Run` and `Work` are its steps as long as the connections
they need are open.

| Code | user-service (`server.js:32-44`) | notification-service (`server.js:50-63`) |
|---|---|---|
| signal | `Signal` | `Signal` |
| `httpServer.close()` | `HttpClosed`, when no sender waits any more | `Stop`, when no list request is open |
| `consumer.stop()` | | `Stop`: the iterator accepts nothing new and still yields its buffer |
| `natsConnection.drain()` | `CutShort`: a call of a handler that is left may throw | `Uncopied`: the connection publishes no dead letter any more; `Drained`; then `Linger`, `Unsettled`, `Discard`: rows are written, settlements do not leave |
| `process.exit` | `Exit`, `End` | `Exit`, `End` |
| `start()` | `Start` | `Start` of `NotificationConsumer` |

`exit(1)` after a rejected second `drain()` is an `Exit` from "draining", before MongoDB is closed.
A list response is two queries of one `Promise.all` (`Find`, `Count`, in either order,
`notification.service.js:9-12`); the client asks for page after page until `totalPages`. The sort is by
`createdAt` alone and the only index is on `userId`, so each query may answer in any order that agrees with
`createdAt` (`Orders`): rows of the same millisecond change places from page to page.

In `Gateway` a request is its number in the order of arrival. The counters are in memory, so limiter,
degraded mode, authentication and router are one step (`Limited`, `NotConfigured`, `AnsweredLocally`,
`Forward`); then the request is in the proxy until the backend ends its answer (`Respond`, `Finish`), fails
before its headers (`UpstreamFails`, 503 from the error handler, `proxy.js:54-67`) or after them (`BreaksOff`: the
handler finds `headersSent` and nobody ends the answer), or the client's connection is idle for too
long (`IdleTimeout`, the `timeout` option). `Restart` loses the counters. The library's fixed window is
external: `SpentBy`, `ResetOf` and `Expired` follow `RateLimiterMemory.consume`.

### Abstractions

* Time is left out except for the limiter's clock: `ack_wait`, the 2 s nak delay, the PubAck and proxy
  timeouts are steps that may happen. `"slow"` marks an `ack_wait` that ends while somebody still holds the delivery.
* The broker accepts a settlement of any delivery of an outstanding event, or ignores one of an
  earlier delivery: the client sends it by stream sequence, and both happen.
* Notification rows are named by the delivery that wrote them, so two rows of an event differ.
* Passwords, names, tokens' expiry, HTTP headers and logs are left out. No code deletes or
  deactivates an account, so the 404 of `updateProfile` and the inactive login cannot occur.
* All notifications of `NotificationLifecycle` belong to the one user who pages. The `createdAt` of a new row
  is any instant, also an earlier one or that of another row: it is the clock of the process that writes it.
* `Gateway` leaves out the routes the limiter never sees (`/health`, `/healthz/env`) and CORS preflights, and
  a request's method, path and token. Whether authentication and router forward an admitted request is
  therefore open: `AnsweredLocally` and `Forward` are both possible. Both backends look alike to it.
* `Emulator.Crash` destroys the socket and what was not read from it at once. The server notices later, and may
  until then handle requests of the dead client or write to it; a behaviour in which it does is one in which the
  process crashes later, up to what the dead process would have read, which no property asks about.
* Publishing in `NotificationConsumer` is one step (`Publish`): the stream drops a second message
  with the same `msgID`. What happens before that step is the subject of `UserService`; `Pipeline`
  puts the two together.

## 3. What the runs check

| Run | Instance | Question |
|---|---|---|
| `consumer_safety` | 2 replicas, a valid event and one that is not JSON, 3 deliveries, 3 faults of all 10 kinds | what a ledger row, an ack, a term and a dead letter mean; which faults cost or duplicate a notification |
| `consumer_liveness` | 2 replicas, a valid event and one of unknown type, 2 deliveries, 2 faults, fairness | is every event settled; do fewer faults than deliveries lose nothing; is `EventDelivery` implemented? |
| `notification_lifecycle` | 1 process with 2 buffered deliveries, a valid event and one with an invalid payload, 3 deliveries, 1 fault of 5 kinds, 2 graceful exits, a list of pages of one row, 2 values of `createdAt` | what does an exit cost an event, and what may a walk through the pages miss? |
| `user_safety` | 4 requests, 2 persons, 2 emails, 2 faults of all 8 kinds | what accounts, stream and answers have to do with each other |
| `user_lifecycle` | 2 requests, 2 persons, 2 emails, 2 faults of all 8 kinds, any number of signals and starts, fairness; deadlock checked | whom does a shutdown cut off; is every request answered, and does every shutdown end? |
| `gateway` | 2 addresses, 6 requests, a budget of 2 in a window of 2 ticks (a second), 4 instants, 1 restart, 1 request in the proxy, fairness | what do the window and `Retry-After` promise; does the proxy answer once and let every client go? |
| `pipeline` | 2 requests of one person, 1 replica, 2 deliveries, 1 fault of user-service and 2 of the consumer, fairness | does every account that was promised a welcome get one, at most one, and from no event but its own? |
| `emulator` | 2 clients, 2 events, 2 deliveries, 2 crashes, fairness | is a message of the demo broker delivered in order, and not lost when the session changes? |
| `emulator_redelivery` | 1 client, 1 event, 3 deliveries | does the demo broker deliver again, as documented? (no) |
| `consumer_replay`, `consumer_mongo_down`, `consumer_no_copy` | 1 event, 1 replica, one kind of fault | three statements of the documentation the code does not keep |

`KindByName` names an event by its kind. Deadlock is checked where a process can always be stopped and
started (`user_lifecycle`). Elsewhere it is not: a state in which every event is settled, or every
request is used, and no fault is left is the intended end.

**Bounds.** Three deliveries are the least with a first, a middle and a final attempt
(`finalAttempt`), three faults can consume all of them in three different ways, and with one
fault fewer than deliveries the properties about tolerance are not vacuous. Two replicas are what
an interleaving of lookup and write needs; a third adds no new pair. Two buffered deliveries let a
redelivery queue behind its predecessor. Events do not interact except by occupying a replica, so
two suffice. In `UserService` two emails and four requests allow the exchange of an email between
accounts, two competing registrations next to a retry, and register, login and two patches. In
`pipeline` two requests are the least in which an account has a second event or a registration is
refused; its faults are those that separate the two services' databases, since the
others are the subject of the services' own runs. In `emulator` two clients are what it takes to lose
the session to somebody else, and two events to be out of order. In
`notification_lifecycle` one process that handles one event after the other, with two deliveries in its
buffer, has every interleaving of its own shutdown; two exits and a fault are the three ways to
spend three deliveries, and pages of one row are the smallest that can be missed. Its faults are those that
meet an exit differently: a crash, a lost connection, a failed row, a ledger row written unreported, a slow
handler; the others are in `consumer_safety`, and the theorems are about every set of them. Two values of
`createdAt` for up to three rows give rows that tie, and rows that do not. In `gateway`
four admissions of one address and a refusal fit into two windows with a request of the other address,
the window has an instant in its middle, and `Retry-After` has something to round; requests in the proxy
do not interact, so one suffices there. The proofs of section 4 have no bounds.

**Conditional properties.** A property of the form `Without(kinds) => P` says which faults `P`
survives: all that are not listed. Each kind listed is necessary; the violation runs show the
three that contradict the documentation, and the others are known limits of the design:

* `AtMostOneNotification` fails with a crash, an unreported write or a failed ledger write
  between the two writes, and with slow handling when there are several replicas (README.md:131,
  347 rely on each message going to one replica; after `ack_wait` it goes to another as well).
* `NoSilentDrop` fails with faults that consume the last delivery before or outside the try
  block: a crash, a lost connection, the ledger lookup, the dead-letter publish.
* `AccountsAnnounced` fails with the publish failures README.md:355 names and with a crash or an
  unreported write, which it does not.
* `AnnouncedOrAbandoned` needs the exception it makes: a handler the gateway has given up has no
  connection, so `server.close()` does not wait for it, and the shutdown can end it between the account
  and its event.
* `OneRowPerExit` is exact: an exit between the two writes leaves a row the ledger does not know.
* `WalkMissesNothing` excludes a response that counted the rows before a row was written and read its page
  after it: the page shifts by one and `totalPages` may be one too small (`walk.torn`). And it is about rows
  whose `createdAt` no other row has: of two rows of one millisecond, the first query may put one first and the
  second the other, and the walk shows one of them twice and the other never, with nothing written meanwhile.

**Fairness.** `Proceed(r)` is weakly fair: the event loop runs a ready continuation, every awaited
call ends in an answer or an error, `runLoop` never returns and `restart: unless-stopped`
(`docker-compose.yml:8`) restarts a process. Delivery, settlement and the expiry of `ack_wait` are
weakly fair because the broker keeps running. No fault is fair, and none has to happen. Publishing
is not fair: nobody has to register. In `UserService` each handler proceeds on its own. `Pipeline` has the
fairness of both. In it, a registration that was answered 201 is followed by its notification even
when user-service crashes later: the answer comes after the PubAck. `WelcomedInTheEnd` excepts a
publish that failed or was not heard, which is answered 201 as well (README.md:355).

In `UserLifecycle` a handler proceeds, and `close()` and `drain()` end once nothing keeps them; nobody has
to send a signal, and the gateway need not give up a request, so that `ShutdownEnds` rests on the
handlers' answers alone. In `Gateway` a request in the proxy is not idle for ever: the backend sends or a
timer of Node fires. An answer that is stalled has only the timer. A backend that sends a byte now and then
for ever would keep both timers from firing (`proxy.js:43-44`); the services behind this gateway send JSON of
finite length, so an answer that streams ends.

For `Emulator`: sockets are read, timers expire, awaits end; `EventuallyTaken` excuses a crash, after
which the emulator has forgotten what it wrote to the dead socket.

**Findings.** The four violation runs are disagreements between documentation and code, quoted
in `PROJECT.json`: a failed ledger write duplicates the notification (README.md:144 and the
comment at `consumer.js:186`); with MongoDB down the event is not dead-lettered (README.md:150);
nothing captures `events.deadletter` (README.md:134); the emulator redelivers nothing
(`nats-emulator-server.js:14`, README.md:278-279), since the delivery count is `NaN` from the first delivery on.

## 4. What is proved

All theorems hold for every set of events, replicas, requests, persons and emails, every
assignment of kinds, every `MaxDeliveries >= 1`, every set and number of faults. They rest on the
named assumptions of the modules only, which TLC evaluates in the runs.

* `TypeCorrect` (consumer). `TypeOK` is not inductive: `Dispatch` needs that a ready event has a
  delivery left, and sending a settlement that the replica in the middle of `process()` holds
  one. `TypeInv` adds `PhaseMatchesCount` and `BusyHasDelivery`.
* `AckedIsPersisted`, `LedgerIsTruthful`, `TermIsHopeless`. `SafeInv` says what `process()` knows at each call
  (`WorkInv`), what a settlement on the wire says of its event (`WireInv`), and that no delivery is ahead
  of the broker's count (`CountInv`): the ack was decided several steps before it is received, so
  what justified it has to travel with it.
* `NothingDroppedSilently`. `TraceInv`: at every moment a well-formed event that is at its last
  delivery either has left a trace or somebody owns that delivery and will leave one.
* `NoSecondNotification`, `SettledIsOver`. `SoleInv`: without `"slow"` a delivery has one holder
  (a replica, an inbox or the wire) and it is the current one; with one replica the inbox and the
  message in hand come one after the other. `OnceInv` follows the row from the write to the ledger.
* `ReplayIsSafe`. `DeadInv`: without a fault that misreports, the dead letter is copied by the last delivery,
  which found no row and wrote none, and nobody else can write one after it.
* `FaultsAreTolerated`, `ExitsAreTolerated`. `ChargeInv` is an account: the deliveries of an event so far and
  its naks on the wire are no more than what was paid, plus one while somebody still holds the delivery the event
  waits for. So an early redelivery by a late nak of an older delivery costs nothing that was not paid, and the last
  delivery can fail only when `MaxDeliveries` have been paid. A fault pays when it happens. A graceful exit pays
  when its process lets the delivery go that it holds of the event; until then it is a credit (`Credit`, `Paid`), and
  `LeavingInv` says why there is one delivery at most to let go: who drains gets no other. The same lemma about one
  step serves both theorems.
* `ImplementsPromise`. Each step of consumer and broker is a step of `EventDelivery` or none:
  a delivery is an attempt, a row a notification, an ack received finishes, a term received or the
  last delivery's failure gives up. `SafeInv` justifies the guards of the abstract steps.
* `ExitsLoseNoAck`, `ExitsKeepPromise`. What `server.js` adds to the consumer lets go of deliveries and settles none
  (`LetsGo`), so the invariants of the consumer and its refinement survive any number of exits.
* `ExitsCostOneRow`. `RowsInv`: the rows of an event, together with the processes on their way out, are no more than
  the exits, plus one if the row has its ledger entry or a replica is about to write it; and while nothing
  duplicates work nobody handles an event the ledger knows.
* `WalksMissNothing`. In every order that agrees with `createdAt`, a row with a `createdAt` of its own comes right
  behind the newer ones (`Newer`), however equal ones are arranged. `WalkInv`: such a row that was there at the
  beginning and was not seen yet has as many newer ones as the pages read so far hold rows (`Behind`), because a
  new row adds to them at most; and an answer that was not torn counts it.
* `EmailsUnique`, `EventsAreAboutAccounts`, `NoAccountUnannounced`, `TypeCorrect` (user-service).
  `ExistInv` carries the existence of an account from the write through tokens, patches and events in
  limbo; `AnnounceInv` says that an account that is not announced has its registration at
  `publish`.
* `NobodyOvertakesHimself`. `CalmInv`: where nobody overlaps his requests, a patch that is under way is of an
  account whose `user.created` is stored, because its token came with the answer that followed the PubAck.
* `StreamTellsProfiles`. `OwnInv`: only the owner of an account holds a token of it or patches it, so with one
  request per person at a time an account has one writer (`SoleWriter`). `MirrorInv`: the stored email is the
  last one on the stream, or the request that wrote it is about to publish it.
* `NobodyMeetsHimself`, an action property. `SerialInv`: who waits for his answers has one request under way.
  `KnownInv`: the owner of an account holds its token or its registration is at `publish`, whose failures are
  answered 201 like its success; so the account he meets with another request is one he was told of.
* `NobodyCutOff`, `ExitsKeepAccounts` (`UserLifecycle`). A shutdown adds steps to those of `UserService`, whose `TypeInv` and
  `ExistInv` they keep. `ToldInv`: once NATS is drained, the handlers that are left are those the gateway
  has answered 503 for. `SpokenInv`: an account without its event has its registration at `publish` or
  was given up.
* `TypeCorrect`, `NobodyAnsweredTwice`, `RateIsBounded`, `RetryAfterIsHonoured` (`Gateway`). `WindowInv` ties the
  counters to the history: a window starts with a request that was let in, as many were let in since as
  `spent` says, up to `Points`, and fewer than `Points` were let in less than a window's length before its
  start, because the earlier window started with one of them. That makes two budgets but for one request.
  `RetryInv`: who was refused was sent a time not before the end of the window, or a later window has begun.
* `DemoKeepsOrder`, `EmulatorTypeCorrect` (`Emulator`). `TypeInv` tells entries that were never
  sent (no count: `Fresh`) from those that were (`NaN`: `SentOnce`): only the former wait, only the latter are in
  flight, and what comes back from a client is neither, so nothing is ever settled, nak-ed or delivered again.
  `LaneInv`: what a client was given, its iterator's buffer, its socket and the entries that wait are, one after the
  other, in the order of the stream. A change of session only moves the end of the lane to another client.
  `OnceInv`: the stream holds an event once, and what waits was not sent. That it is sent once only is the defect
  `emulator_redelivery` reports; the proof uses it, and promises nothing about it.
* `NotificationsAreMeant`, `NobodyWelcomedTwice`, `NobodyForgotten` (`Pipeline`). Each service is shown
  to behave as its own module says (`UsersBehave`, `ConsumersBehave`), which carries the theorems
  above over; the assumptions of the two modules are proved from those of `Pipeline`. `LinkInv` joins
  them: the events on the stream are exactly those the broker has, and the event of a
  registration bears the name of its account.

Every safety invariant and action property the passing runs check is proved. Only model-checked are the liveness
properties (`EventuallySettled`, `EventuallyNotified`, `EventuallyAnswered`, `ShutdownEnds`, `EventuallyEnded`,
`EventuallyTaken`, `WelcomedInTheEnd`) and the fairness part of `KeepsPromise`: liveness under fairness is out of the
prover's reach. The four violation runs are counterexamples and need no proof.

## 5. Not modelled

* **Provisioning.** `max_deliver` of an existing durable against a changed `MAX_DELIVERIES`
  (`consumer.js:55`) and retention by age and number (`config/jetstream.js:34`): they are facts about a
  deployment and a backlog nothing in the repository produces. The broker's own permissions
  (`nats.conf:25`) cannot be told from the repository; what they could cost, lost settlements, is a fault.
* **The limiter's key.** README.md:122 and `rateLimiter.js:6` say that authenticated users have a budget each.
  The limiter runs before `authenticate()`, so the key is always the address, and `Gateway` counts so.
  It is a fact of one line, not of a behaviour.
* **Readiness.** `/ready` reads a flag that the NATS client's events set; nothing in the repository acts on it.
* **Reads without effect.** `getProfile`, the fetch of one notification, health, and the documentation routes.
* **Emulator.** Subject matching (`nats-emulator-server.js:25-36`), the requests of the shim that have no
  timeout, the stop of an iterator, and the `require` hook. Messages stored before the durable exists are
  never delivered in the model, as in the code.
* **Composition of exits.** `Pipeline` ends processes by crashes only. A graceful exit is no worse than a crash
  for the event in hand (`OneRowPerExit`, `RestartsTolerated`), and the two lifecycle modules have it in full.
* **Data.** Validation schemas character by character, bcrypt and JWT internals, headers, logging, OpenAPI,
  container builds.

What could be added next: the graceful exits of both services in `Pipeline`, and with them `NobodyForgotten`
for processes that are stopped as well as killed.
