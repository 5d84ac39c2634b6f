------------------------------- MODULE Gateway -------------------------------
(***************************************************************************)
(* api-gateway: the rate limiter, the checks before the proxy, the proxy   *)
(* with its two timers, and the life of the process.                       *)
(*                                                                         *)
(* Requests are numbered in the order in which they arrive.  From there to *)
(* the call of the backend the middleware waits for nobody (the counters   *)
(* are in memory), so that is one step.  A backend may answer, fail, break *)
(* off in the middle of an answer, or fall silent.                         *)
(*                                                                         *)
(* The clock is what the limiter reads.  The timers of the proxy measure   *)
(* silence, which the clock does not show: they may fire at any time.      *)
(* Routes outside /api, which the limiter never sees, are left out.        *)
(***************************************************************************)
EXTENDS FaultBudget, FiniteSets

CONSTANTS
    Address,        \* values of req.ip
    Points,         \* RATE_LIMIT_MAX
    Window,         \* RATE_LIMIT_WINDOW_MS, in units of the clock
    Second,         \* a second, in units of the clock
    MaxRequests,    \* bound on the requests of a behaviour
    MaxForwarded,   \* bound on the requests that go to a backend: the first ones
    MaxTime         \* bound on the clock

\* api-gateway/src/config/env.js: both at least 1.
ASSUME LimitAssumption ==
    Points \in Nat \ {0} /\ Window \in Nat \ {0} /\ Second \in Nat \ {0}
ASSUME FaultsAssumption == Faults \subseteq {"restart"}
ASSUME BoundsAssumption ==
    MaxRequests \in Nat /\ MaxForwarded \in Nat /\ MaxTime \in Nat /\ MaxFaults \in Nat

Number == 1..MaxRequests

VARIABLES
    missing,    \* a required environment variable is missing
    now,        \* the clock
    spent,      \* spent[a]: points address a has consumed in its window
    resetAt,    \* resetAt[a]: when the window of a ends
    arrived,    \* how many requests there were
    booted,     \* history: how many there were when this process started
    from,       \* history, for each request: its address,
    at,         \*          the time of its arrival,
    retryAfter, \*          the Retry-After it was sent, in seconds
    pc,         \* pc[n]: where request n is
    told        \* told[n]: whose status line was sent, or "none"

processVars == <<missing, booted>>
limiterVars == <<spent, resetAt>>
arrivalVars == <<arrived, from, at, retryAfter>>
requestVars == <<pc, told>>
vars == <<processVars, now, limiterVars, arrivalVars, requestVars, faultVars>>

\* "waiting": nothing of the answer was sent; "streaming": the answer of the
\* backend is passed on; "stalled": the backend broke off in the middle of it.
Open == {"waiting", "streaming", "stalled"}

\* The requests in the proxy.
Proxied == {n \in Number : pc[n] \in Open}

Init ==
    /\ missing \in BOOLEAN /\ booted = 0
    /\ now = 0
    /\ spent = [a \in Address |-> 0] /\ resetAt = [a \in Address |-> 0]
    /\ arrived = 0
    /\ from \in {[n \in Number |-> a] : a \in Address}
    /\ at = [n \in Number |-> 0] /\ retryAfter = [n \in Number |-> 0]
    /\ pc = [n \in Number |-> "new"] /\ told = [n \in Number |-> "none"]
    /\ faultsLeft = MaxFaults /\ faulted = {}

Tick ==
    /\ now < MaxTime
    /\ now' = now + 1
    /\ UNCHANGED <<processVars, limiterVars, arrivalVars, requestVars>> /\ NoFault

----------------------------------------------------------------------------
(* The middleware, up to the proxy.                                        *)

\* limiter.consume(): the first request after the end of a window starts the
\* next window, and a request that is refused counts as well.
Expired(a) == now >= resetAt[a]
SpentBy(a) == IF Expired(a) THEN 1 ELSE spent[a] + 1
ResetOf(a) == IF Expired(a) THEN now + Window ELSE resetAt[a]

\* Mutation: off by one.
AdmitsOneMore(a) == SpentBy(a) <= Points + 1

Admits(a) == SpentBy(a) <= Points

\* Mutations: the difference the wrong way round, and Math.floor.
SecondsBeforeSwapped(a) == (now - resetAt[a]) \div Second
SecondsBeforeFloor(a) == (resetAt[a] - now) \div Second

\* Math.ceil(rej.msBeforeNext / 1000).
SecondsBefore(a) == (resetAt[a] - now + Second - 1) \div Second

\* The rate limiter is reached by the next request, from address a.
Arrive(a) ==
    /\ arrived < MaxRequests
    /\ arrived' = arrived + 1
    /\ from' = [from EXCEPT ![arrived'] = a]
    /\ at' = [at EXCEPT ![arrived'] = now]
    /\ spent' = [spent EXCEPT ![a] = SpentBy(a)]
    /\ resetAt' = [resetAt EXCEPT ![a] = ResetOf(a)]
    /\ UNCHANGED <<processVars, now>> /\ NoFault

\* The gateway answers request n by itself.
Reply(n, answer) ==
    /\ pc' = [pc EXCEPT ![n] = "ended"]
    /\ told' = [told EXCEPT ![n] = answer]

Limited(a) ==
    /\ ~Admits(a)
    /\ Arrive(a)
    /\ retryAfter' = [retryAfter EXCEPT ![arrived'] = SecondsBefore(a)]
    /\ Reply(arrived', "429")

\* Without its environment the gateway answers 503 to everything under /api.
NotConfigured(a) ==
    /\ Admits(a) /\ missing
    /\ Arrive(a)
    /\ Reply(arrived', "gateway")
    /\ UNCHANGED retryAfter

\* Whether an admitted request goes to a backend depends on its method, path and
\* token, which are left out: either may happen.

\* No valid token (401), or no route: the docs, or 404.
AnsweredLocally(a) ==
    /\ Admits(a) /\ ~missing
    /\ Arrive(a)
    /\ Reply(arrived', "gateway")
    /\ UNCHANGED retryAfter

\* A route of the two services, with a valid token where it asks for one.
Forward(a) ==
    /\ Admits(a) /\ ~missing
    /\ arrived < MaxForwarded
    /\ Arrive(a)
    /\ pc' = [pc EXCEPT ![arrived'] = "waiting"]
    /\ UNCHANGED <<told, retryAfter>>

----------------------------------------------------------------------------
(* The proxy.                                                              *)

\* What happens to request n touches nothing else.
Alone == UNCHANGED <<processVars, now, limiterVars, arrivalVars>> /\ NoFault

\* The backend's status line and headers go to the client.
Respond(n) ==
    /\ pc[n] = "waiting"
    /\ pc' = [pc EXCEPT ![n] = "streaming"]
    /\ told' = [told EXCEPT ![n] = "backend"]
    /\ Alone

Finish(n) ==
    /\ pc[n] = "streaming"
    /\ pc' = [pc EXCEPT ![n] = "ended"]
    /\ UNCHANGED told /\ Alone

\* The backend cannot be reached, resets the connection, or is silent for
\* proxyTimeout, which aborts the call.  The error handler answers 503.
UpstreamFails(n) ==
    /\ pc[n] = "waiting"
    /\ Reply(n, "gateway")
    /\ Alone

\* Mutation: the error handler does not look at headersSent.
BreaksOffAnswered(n) ==
    /\ pc[n] = "streaming"
    /\ Reply(n, "gateway")
    /\ Alone

\* The same after the headers were sent: nothing can be sent any more and nobody
\* ends the answer.
BreaksOff(n) ==
    /\ pc[n] = "streaming"
    /\ pc' = [pc EXCEPT ![n] = "stalled"]
    /\ UNCHANGED told /\ Alone

\* Mutation: without the timeout option only the call of the backend is timed.
IdleTimeoutUpstream(n) ==
    /\ pc[n] \in {"waiting", "streaming"}
    /\ pc' = [pc EXCEPT ![n] = "ended"]
    /\ UNCHANGED told /\ Alone

\* timeout: the connection of the client is idle for too long and is destroyed.
\* Both timers last PROXY_TIMEOUT_MS, so either may be the first to see a silent
\* backend: the client gets the 503 or nothing.
IdleTimeout(n) ==
    /\ pc[n] \in Open
    /\ pc' = [pc EXCEPT ![n] = "ended"]
    /\ UNCHANGED told /\ Alone

----------------------------------------------------------------------------
(* The process.                                                            *)

\* The process ends, by a crash or by a signal (once every connection has ended,
\* or ten seconds later), and is started again.  Its counters are lost, and so
\* are the connections that are still open.
Restart ==
    /\ Fault("restart")
    /\ booted' = arrived
    /\ pc' = [n \in Number |-> IF n \in Proxied THEN "ended" ELSE pc[n]]
    /\ spent' = [a \in Address |-> 0] /\ resetAt' = [a \in Address |-> 0]
    /\ UNCHANGED <<missing, now, arrivalVars, told>>

----------------------------------------------------------------------------

Accept(a) ==
    Limited(a) \/ NotConfigured(a) \/ AnsweredLocally(a) \/ Forward(a)

Proxy(n) ==
    \/ Respond(n) \/ Finish(n) \/ UpstreamFails(n) \/ BreaksOff(n) \/ IdleTimeout(n)

Next ==
    \/ Tick \/ Restart
    \/ \E a \in Address : Accept(a)
    \/ \E n \in Number : Proxy(n)

\* A client is not idle for ever: either the backend sends, or a timer fires.  An
\* answer that streams ends: the backends send JSON of finite length.
Spec == Init /\ [][Next]_vars /\ \A n \in Number : WF_vars(Proxy(n))

----------------------------------------------------------------------------
(* Properties.                                                             *)

Answers == {"429", "gateway", "backend"}

\* The state stays within its types.
TypeOK ==
    /\ missing \in BOOLEAN
    /\ now \in 0..MaxTime
    /\ spent \in [Address -> Nat] /\ resetAt \in [Address -> Nat]
    /\ arrived \in 0..MaxRequests /\ booted \in 0..arrived
    /\ from \in [Number -> Address]
    /\ at \in [Number -> 0..MaxTime] /\ retryAfter \in [Number -> Nat]
    /\ pc \in [Number -> {"new", "ended"} \union Open]
    /\ told \in [Number -> Answers \union {"none"}]
    /\ faultsLeft \in 0..MaxFaults /\ faulted \subseteq Faults

\* The requests of address a in i..j that this process has let through.
AdmittedFrom(a, i, j) ==
    {n \in i..j : n > booted /\ from[n] = a /\ told[n] # "429"}

\* In no interval of the length of the window, wherever it lies, does a process
\* let through more than 2 * Points - 1 requests of an address: a window starts
\* with a request, so the two budgets around its end share none
\* (rateLimiter.js:5-13).
RateBound ==
    \A a \in Address : \A n \in AdmittedFrom(a, 1, arrived) :
        Cardinality({m \in AdmittedFrom(a, n, arrived) : at[m] < at[n] + Window})
            < 2 * Points

\* Who waits as long as Retry-After says is let in, unless others of the same
\* address have used up the next window before (rateLimiter.js:20-23).
RetryAfterHonoured ==
    \A m, n \in (booted + 1)..arrived :
        /\ m < n /\ from[m] = from[n]
        /\ told[m] = "429" /\ told[n] = "429"
        /\ at[n] >= at[m] + Second * retryAfter[m]
        => Cardinality(AdmittedFrom(from[n], m, n)) >= Points

\* A request is answered once: neither a late error of the backend nor a timer
\* follows an answer with another (proxy.js:53-66).
AnsweredOnce ==
    [][\A n \in Number : told[n] # "none" => told'[n] = told[n]]_vars

\* "A hung service cannot hold clients forever" (proxy.js:16), not even one that
\* breaks off in the middle of an answer.
EventuallyEnded == \A n \in Number : n \in Proxied ~> n \notin Proxied

=============================================================================
