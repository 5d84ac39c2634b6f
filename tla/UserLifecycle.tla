---------------------------- MODULE UserLifecycle ----------------------------
(***************************************************************************)
(* One process of user-service from its start to its exit: the handlers of *)
(* UserService, and the graceful shutdown of server.js around them.        *)
(*                                                                         *)
(* What the shutdown waits for are connections, not handlers.  A request   *)
(* the gateway has given up has no connection any more, so its handler may *)
(* still run while NATS is drained and MongoDB is closed, and ends with    *)
(* the process.                                                            *)
(***************************************************************************)
EXTENDS UserService

VARIABLE stage  \* "up", "closing" (HTTP), "draining" (NATS, MongoDB) or "down"

lifeVars == <<vars, stage>>

LifeInit == Init /\ stage = "up"

\* server.close() refuses new connections, and the gateway opens one for each
\* request.  What is refused leaves no trace: the gateway answers 503.
Accept(r) == stage = "up" /\ Arrive(r) /\ UNCHANGED stage

Run(r) == stage # "down" /\ Handle(r) /\ UNCHANGED stage

RunFails(r) == stage # "down" /\ Fail(r) /\ UNCHANGED stage

\* SIGINT or SIGTERM; one that comes while HTTP closes waits for the same close().
Signal ==
    /\ stage \in {"up", "closing"}
    /\ stage' = "closing"
    /\ UNCHANGED vars

\* A request whose sender waits for the answer.
Connected(r) == pc[r] # "new" /\ told[r] = "none"

\* Mutation: the callback of httpServer.close() is not awaited.
HttpClosedUnawaited ==
    /\ stage = "closing"
    /\ stage' = "draining"
    /\ UNCHANGED vars

\* httpServer.close() is done.
HttpClosed ==
    /\ stage = "closing"
    /\ ~\E r \in Request : Connected(r)
    /\ stage' = "draining"
    /\ UNCHANGED vars

\* A call that meets a draining or closed connection throws.  What it asked for
\* may have been carried out, or may still be.
CutShort(r) ==
    /\ stage = "draining" /\ InFlight(r)
    /\ \/ users' = users
       \/ pc[r] = "write" /\ ~Clash(r) /\ users' = Written(r)
    /\ \/ limbo' = limbo
       \/ pc[r] = "publish" /\ limbo' = limbo \union {EventOf(r)}
    /\ IF pc[r] = "publish" THEN Succeed(r) ELSE Answer(r, "500", {})
    /\ UNCHANGED <<stream, stage>> /\ NoFault

\* The process and the handlers in it end; the events they were sending may have
\* left.  Whoever waits is answered 503 by the gateway.
End ==
    /\ stage' = "down"
    /\ pc' = [r \in Request |-> IF InFlight(r) THEN "done" ELSE pc[r]]
    /\ told' = [r \in Request |-> IF Connected(r) THEN "503" ELSE told[r]]
    /\ \E sent \in SUBSET {r \in Request : pc[r] = "publish"} :
          limbo' = limbo \union {EventOf(r) : r \in sent}
    /\ UNCHANGED <<asked, users, stream, tokens>>

\* exit(0) with MongoDB closed; or exit(1) right after a second signal, for
\* drain() rejects when it is called again.
Exit == stage = "draining" /\ End /\ NoFault

ProcessCrash == stage # "down" /\ Fault("crash") /\ End

\* compose starts it again; start() connects to MongoDB, then to NATS, and only
\* then listens.
Start ==
    /\ stage = "down"
    /\ stage' = "up"
    /\ UNCHANGED vars

LifeNext ==
    \/ \E r \in Request : Accept(r) \/ Run(r) \/ RunFails(r) \/ CutShort(r)
    \/ \E event \in limbo : StoreLate(event) /\ UNCHANGED stage
    \/ Signal \/ HttpClosed \/ Exit \/ ProcessCrash \/ Start

SafeLife == LifeInit /\ [][LifeNext]_lifeVars

\* Every call a handler awaits ends, and so do close() and drain() once nothing
\* keeps them; the gateway need not give up a request.
Life ==
    /\ SafeLife
    /\ \A r \in Request : WF_lifeVars(Run(r))
    /\ WF_lifeVars(HttpClosed) /\ WF_lifeVars(Exit)

----------------------------------------------------------------------------
(* Properties.                                                             *)

\* Shutdown loses nothing its owner believes in: whoever was told that his
\* account exists was also announced, and an account that was not is one the
\* gateway had already answered 503 for (user-service server.js:32-44).
AnnouncedOrAbandoned ==
    Without(Separating) =>
        \A u \in Request :
            users[u] # NoEmail /\ ~InFlight(u) => Announced(u) \/ told[u] = "503"

\* A shutdown comes to its end, whatever the handlers that are still connected
\* meet (server.js:32-44).
ShutdownEnds == stage = "closing" ~> stage = "down"

=============================================================================
