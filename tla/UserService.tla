---------------------------- MODULE UserService ----------------------------
(***************************************************************************)
(* user-service and the clients that reach it through the gateway: the     *)
(* register, login and updateProfile handlers, the users collection with   *)
(* its unique index on the email, and the events the publisher has stored  *)
(* in the USER_EVENTS stream.                                              *)
(*                                                                         *)
(* Each request is handled once; the handlers of different requests        *)
(* interleave at their awaits.  The program counter of a request names the *)
(* database or broker call its handler makes next.  Hashing a password and *)
(* comparing one touch no shared state and belong to the step before.      *)
(*                                                                         *)
(* An account is named by the request that registered it.  Request bodies  *)
(* have passed the Joi validators (validate.js); names, passwords and the  *)
(* expiry of tokens are left out: a person logs in with the password of    *)
(* the accounts he registered and with no other.                           *)
(***************************************************************************)
EXTENDS FaultBudget, Sequences

CONSTANTS
    Request,    \* the requests a behaviour may contain
    Person,     \* who sends them
    Email,
    NoEmail     \* the email of an account that does not exist, of a patch without one

ASSUME EmailAssumption == NoEmail \notin Email

\* "overlap": a person sends a request before he is answered the previous one.
\* "gatewayTimeout": the gateway answers 503 while the handler still runs
\* (PROXY_TIMEOUT_MS).  A call that ...Fails leaves nothing behind, one that
\* ...TimesOut is carried out although the handler sees an error.
FaultKinds ==
    {"overlap", "gatewayTimeout", "crash", "lookupFails", "writeFails",
     "writeTimesOut", "publishFails", "publishTimesOut"}

ASSUME FaultsAssumption == Faults \subseteq FaultKinds
ASSUME BoundsAssumption == MaxFaults \in Nat

VARIABLES
    asked,      \* asked[r]: what request r asks for
    pc,         \* pc[r]: the call the handler of r makes next
    users,      \* users[u]: the email of account u, or NoEmail
    stream,     \* the events the broker has stored
    limbo,      \* events sent by a publisher that did not hear the PubAck
    told,       \* told[r]: the status the sender of r was told, or "none"
    tokens      \* tokens[p]: the accounts for which p was given a token

vars == <<asked, pc, users, stream, limbo, told, tokens, faultVars>>

Nothing == [op |-> "none"]

Registration == [op : {"register"}, person : Person, email : Email]
LoginAttempt == [op : {"login"}, person : Person, email : Email]
Patch == [op : {"update"}, person : Person, user : Request, email : Email \union {NoEmail}]

Statuses == {"200", "201", "401", "409", "500", "503"}

\* The id of an event is that of the request that sends it: publish() draws a
\* fresh eventId and no request publishes twice.
EventRecord ==
    [id : Request, type : {"created"}, user : Request, email : Email]
      \union [id : Request, type : {"updated"}, user : Request,
              email : Email \union {NoEmail}]

Init ==
    /\ asked = [r \in Request |-> Nothing]
    /\ pc = [r \in Request |-> "new"]
    /\ users = [r \in Request |-> NoEmail]
    /\ stream = <<>> /\ limbo = {}
    /\ told = [r \in Request |-> "none"]
    /\ tokens = [p \in Person |-> {}]
    /\ faultsLeft = MaxFaults /\ faulted = {}

InFlight(r) == pc[r] \notin {"new", "done"}

\* The accounts that hold an email: at most one, thanks to the unique index.
Holders(email) == {u \in Request : users[u] = email}

Owner(u) == asked[u].person

\* The account a registration or a patch is about.
Account(r) == IF asked[r].op = "update" THEN asked[r].user ELSE r

\* Mutation: the subject decides the type the wrong way round.
EventOfSwapped(r) ==
    [id |-> r, type |-> IF asked[r].op = "register" THEN "updated" ELSE "created",
     user |-> Account(r), email |-> asked[r].email]

\* publishUserCreated sends the stored user, publishUserUpdated the patch.
EventOf(r) ==
    [id |-> r, type |-> IF asked[r].op = "register" THEN "created" ELSE "updated",
     user |-> Account(r), email |-> asked[r].email]

----------------------------------------------------------------------------
(* Requests and answers.                                                   *)

\* p sends r.  The gateway and authenticate() let a patch through with a token.
Send(r, ask) ==
    /\ pc[r] = "new"
    /\ asked' = [asked EXCEPT ![r] = ask]
    /\ IF \E q \in Request : InFlight(q) /\ told[q] = "none" /\ asked[q].person = ask.person
       THEN Fault("overlap") ELSE NoFault
    /\ UNCHANGED <<users, stream, limbo, told, tokens>>

SendRegister(r, p, email) ==
    /\ Send(r, [op |-> "register", person |-> p, email |-> email])
    /\ pc' = [pc EXCEPT ![r] = "lookup"]

SendLogin(r, p, email) ==
    /\ Send(r, [op |-> "login", person |-> p, email |-> email])
    /\ pc' = [pc EXCEPT ![r] = "lookup"]

\* updateProfile looks the email up only when the patch has one.
SendUpdate(r, p, email) ==
    \E u \in tokens[p] :
        /\ Send(r, [op |-> "update", person |-> p, user |-> u, email |-> email])
        /\ pc' = [pc EXCEPT ![r] = IF email = NoEmail THEN "write" ELSE "lookup"]

\* The handler ends.  Its answer reaches the person unless the gateway has
\* already answered for it.
Answer(r, status, token) ==
    /\ pc' = [pc EXCEPT ![r] = "done"]
    /\ IF told[r] = "none"
       THEN /\ told' = [told EXCEPT ![r] = status]
            /\ tokens' = [tokens EXCEPT ![asked[r].person] = @ \union token]
       ELSE UNCHANGED <<told, tokens>>
    /\ UNCHANGED asked

GatewayTimesOut(r) ==
    /\ InFlight(r) /\ told[r] = "none"
    /\ Fault("gatewayTimeout")
    /\ told' = [told EXCEPT ![r] = "503"]
    /\ UNCHANGED <<asked, pc, users, stream, limbo, tokens>>

\* A replica of user-service ends with the requests it was handling; the events
\* it was sending may have left.
Crash(lost) ==
    /\ lost # {} /\ \A r \in lost : InFlight(r)
    /\ Fault("crash")
    /\ pc' = [r \in Request |-> IF r \in lost THEN "done" ELSE pc[r]]
    /\ told' = [r \in Request |->
                  IF r \in lost /\ told[r] = "none" THEN "503" ELSE told[r]]
    /\ \E sent \in SUBSET {r \in lost : pc[r] = "publish"} :
          limbo' = limbo \union {EventOf(r) : r \in sent}
    /\ UNCHANGED <<asked, users, stream, tokens>>

----------------------------------------------------------------------------
(* The handlers.                                                           *)

\* The request wants an email that belongs to another account.
Clash(r) ==
    asked[r].email # NoEmail /\ Holders(asked[r].email) \ {Account(r)} # {}

\* repo.findByEmail(email).
LookupClash(r) ==
    /\ pc[r] = "lookup" /\ asked[r].op # "login"
    /\ Clash(r)
    /\ Answer(r, "409", {})
    /\ UNCHANGED <<users, stream, limbo>> /\ NoFault

LookupFree(r) ==
    /\ pc[r] = "lookup" /\ asked[r].op # "login"
    /\ ~Clash(r)
    /\ pc' = [pc EXCEPT ![r] = "write"]
    /\ UNCHANGED <<asked, users, stream, limbo, told, tokens>> /\ NoFault

\* The accounts whose email and password are the given ones.
Matching(r) == {u \in Holders(asked[r].email) : Owner(u) = asked[r].person}

Login(r) ==
    /\ pc[r] = "lookup" /\ asked[r].op = "login"
    /\ Answer(r, IF Matching(r) = {} THEN "401" ELSE "200", Matching(r))
    /\ UNCHANGED <<users, stream, limbo>> /\ NoFault

\* errorHandler answers 500 to an error it does not know.
LookupFails(r) ==
    /\ pc[r] = "lookup"
    /\ Fault("lookupFails")
    /\ Answer(r, "500", {})
    /\ UNCHANGED <<users, stream, limbo>>

\* What users becomes: User.create, or $set with the fields of the patch.
Written(r) ==
    IF asked[r].email = NoEmail THEN users
    ELSE [users EXCEPT ![Account(r)] = asked[r].email]

\* Mutations: no unique index, and an answer that does not wait for the PubAck.
WriteUnindexed(r) ==
    /\ pc[r] = "write"
    /\ users' = Written(r)
    /\ pc' = [pc EXCEPT ![r] = "publish"]
    /\ UNCHANGED <<asked, stream, limbo, told, tokens>> /\ NoFault

WriteAnswers(r) ==
    /\ pc[r] = "write" /\ ~Clash(r)
    /\ users' = Written(r)
    /\ pc' = [pc EXCEPT ![r] = "publish"]
    /\ told' = [told EXCEPT ![r] = IF @ = "none" THEN "201" ELSE @]
    /\ tokens' = [tokens EXCEPT ![asked[r].person] = @ \union {Account(r)}]
    /\ UNCHANGED <<asked, stream, limbo>> /\ NoFault

\* User.create, User.findByIdAndUpdate.
Write(r) ==
    /\ pc[r] = "write" /\ ~Clash(r)
    /\ users' = Written(r)
    /\ pc' = [pc EXCEPT ![r] = "publish"]
    /\ UNCHANGED <<asked, stream, limbo, told, tokens>> /\ NoFault

\* Mutation: nobody forwards the rejection to errorHandler.
WriteClashUnhandled(r) ==
    /\ pc[r] = "write" /\ Clash(r)
    /\ FALSE
    /\ UNCHANGED vars

\* The unique index refuses the email (E11000), errorHandler answers 409.
WriteClash(r) ==
    /\ pc[r] = "write" /\ Clash(r)
    /\ Answer(r, "409", {})
    /\ UNCHANGED <<users, stream, limbo>> /\ NoFault

\* Mutation: the error is logged and the handler goes on.
WriteFailsUnnoticed(r) ==
    /\ pc[r] = "write"
    /\ Fault("writeFails")
    /\ pc' = [pc EXCEPT ![r] = "publish"]
    /\ UNCHANGED <<asked, users, stream, limbo, told, tokens>>

WriteFails(r) ==
    /\ pc[r] = "write"
    /\ Fault("writeFails")
    /\ Answer(r, "500", {})
    /\ UNCHANGED <<users, stream, limbo>>

WriteTimesOut(r) ==
    /\ pc[r] = "write" /\ ~Clash(r)
    /\ Fault("writeTimesOut")
    /\ users' = Written(r)
    /\ Answer(r, "500", {})
    /\ UNCHANGED <<stream, limbo>>

\* The answer to a registration carries a token, the answer to a patch none.
Succeed(r) ==
    IF asked[r].op = "register" THEN Answer(r, "201", {r}) ELSE Answer(r, "200", {})

\* js.publish() returns with the PubAck.
Publish(r) ==
    /\ pc[r] = "publish"
    /\ stream' = Append(stream, EventOf(r))
    /\ Succeed(r)
    /\ UNCHANGED <<users, limbo>> /\ NoFault

\* Mutation: a registration that could not be announced is reported as failed.
PublishFailsRequest(r) ==
    /\ pc[r] = "publish"
    /\ Fault("publishFails")
    /\ Answer(r, "500", {})
    /\ UNCHANGED <<users, stream, limbo>>

\* A failed publish is logged and the request succeeds all the same.
PublishFails(r) ==
    /\ pc[r] = "publish"
    /\ Fault("publishFails")
    /\ Succeed(r)
    /\ UNCHANGED <<users, stream, limbo>>

\* No PubAck within 5s, but the event is on its way.
PublishTimesOut(r) ==
    /\ pc[r] = "publish"
    /\ Fault("publishTimesOut")
    /\ limbo' = limbo \union {EventOf(r)}
    /\ Succeed(r)
    /\ UNCHANGED <<users, stream>>

\* An event in limbo is stored late.
StoreLate(event) ==
    /\ event \in limbo
    /\ stream' = Append(stream, event)
    /\ limbo' = limbo \ {event}
    /\ UNCHANGED <<asked, pc, users, told, tokens>> /\ NoFault

----------------------------------------------------------------------------

Handle(r) ==
    \/ LookupClash(r) \/ LookupFree(r) \/ Login(r)
    \/ Write(r) \/ WriteClash(r) \/ Publish(r)

Fail(r) ==
    \/ GatewayTimesOut(r) \/ LookupFails(r) \/ WriteFails(r) \/ WriteTimesOut(r)
    \/ PublishFails(r) \/ PublishTimesOut(r)

Arrive(r) ==
    \E p \in Person :
        \/ \E email \in Email : SendRegister(r, p, email) \/ SendLogin(r, p, email)
        \/ \E email \in Email \union {NoEmail} : SendUpdate(r, p, email)

Next ==
    \/ \E r \in Request : Arrive(r) \/ Handle(r) \/ Fail(r)
    \/ \E lost \in SUBSET Request : Crash(lost)
    \/ \E event \in limbo : StoreLate(event)

SafeSpec == Init /\ [][Next]_vars

\* Every call a handler awaits ends in an answer or an error.
Fairness == \A r \in Request : WF_vars(Handle(r))

Spec == SafeSpec /\ Fairness

----------------------------------------------------------------------------
(* Properties.                                                             *)

TypeOK ==
    /\ asked \in [Request -> {Nothing} \union Registration \union LoginAttempt \union Patch]
    /\ pc \in [Request -> {"new", "lookup", "write", "publish", "done"}]
    /\ users \in [Request -> Email \union {NoEmail}]
    /\ stream \in Seq(EventRecord)
    /\ limbo \subseteq EventRecord
    /\ told \in [Request -> Statuses \union {"none"}]
    /\ tokens \in [Person -> SUBSET Request]
    /\ faultsLeft \in 0..MaxFaults
    /\ faulted \subseteq Faults

\* No two accounts share an email, however registrations and changes of email
\* interleave between the check and the write (user.service.js:19-25, 68-75,
\* user.model.js:10).
OneAccountPerEmail ==
    \A u, v \in Request : users[u] = users[v] /\ users[u] # NoEmail => u = v

Announced(u) ==
    \E i \in 1..Len(stream) : stream[i].type = "created" /\ stream[i].user = u

\* An event, stored or still on its way, is about an account that exists: no
\* failing write leaves an event behind (user.service.js:25-30, 75-79).
EventsMeanAccounts ==
    /\ \A i \in 1..Len(stream) : users[stream[i].user] # NoEmail
    /\ \A event \in limbo : users[event.user] # NoEmail

\* What separates the database from the stream: there is no outbox.
Separating == {"crash", "writeTimesOut", "publishFails", "publishTimesOut"}

\* What lets a person's requests overtake each other.
Overtaking == {"overlap", "gatewayTimeout"}

\* An account whose registration has ended is announced on the stream
\* (user.service.js:27-33, README:355).
AccountsAnnounced ==
    Without(Separating) =>
        \A u \in Request : users[u] # NoEmail /\ ~InFlight(u) => Announced(u)

\* The stream tells of an account before it tells of a change to it: a client
\* that waits for his answers cannot overtake his own user.created, because
\* register() awaits the PubAck before it hands out the token
\* (user.service.js:30-35).
CreatedFirst ==
    Without(Separating \union Overtaking) =>
        \A i \in 1..Len(stream) : stream[i].type = "updated" =>
            \E j \in 1..(i - 1) :
                stream[j].type = "created" /\ stream[j].user = stream[i].user

\* Whoever reads the stream to its end knows the email of every account nobody
\* is changing: the last event that carries an email carries the stored one
\* (user.service.js:75-79, user.publisher.js:27-32).
StreamAgreesWithProfile ==
    Without(Separating \union Overtaking) =>
        \A u \in Request :
            users[u] # NoEmail /\ (\A r \in Request : InFlight(r) => Account(r) # u)
              => \E i \in 1..Len(stream) :
                    /\ stream[i].user = u /\ stream[i].email = users[u]
                    /\ \A j \in (i + 1)..Len(stream) :
                          stream[j].user = u => stream[j].email = NoEmail

\* Nobody is refused an email because of an account of his own that he was not
\* told of: a registration that was not announced still answers 201, so a client
\* has no reason to retry it and meet 409 (user.service.js:27-35).
NoUnexplainedConflict ==
    [][Without({"crash", "writeTimesOut"} \union Overtaking) =>
         \A r \in Request : told[r] # "409" /\ told'[r] = "409" =>
             \A u \in Holders(asked[r].email) :
                 Owner(u) = asked[r].person => u \in tokens[Owner(u)]]_vars

\* Every request is answered, whichever error its handler meets
\* (asyncHandler.js, shared/middleware/index.js:23-54).
EventuallyAnswered == \A r \in Request : InFlight(r) ~> told[r] # "none"

=============================================================================
