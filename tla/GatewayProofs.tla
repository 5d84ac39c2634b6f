---------------------------- MODULE GatewayProofs ----------------------------
(***************************************************************************)
(* Theorems about Gateway for every limit, window, set of addresses and    *)
(* number of requests, checked by TLAPS.                                   *)
(***************************************************************************)
EXTENDS Gateway, FiniteSetTheorems, TLAPS

----------------------------------------------------------------------------
(* Types.                                                                  *)

\* The requests that did not arrive yet are untouched, and nothing was sent to
\* the ones that wait.
Fresh ==
    \A n \in Number :
        /\ n > arrived => pc[n] = "new"
        /\ pc[n] \in {"new", "waiting"} => told[n] = "none"

TypeInv == TypeOK /\ Fresh

LEMMA Numbers ==
  /\ Points \in Nat /\ Points >= 1 /\ Window \in Nat /\ Window >= 1
  /\ Second \in Nat /\ Second >= 1
  /\ MaxRequests \in Nat /\ MaxTime \in Nat /\ MaxFaults \in Nat
BY LimitAssumption, BoundsAssumption

LEMMA TypeInit == Init => TypeInv
BY Numbers DEF Init, TypeInv, TypeOK, Fresh, Number, Answers, Open

LEMMA FaultTypes ==
  ASSUME TypeOK, NEW kind, Fault(kind) \/ NoFault
  PROVE  faultsLeft' \in 0..MaxFaults /\ faulted' \subseteq Faults
BY Numbers DEF TypeOK, Fault, NoFault, faultVars

\* What the arrival of a request does to the limiter and to the history.
LEMMA ArriveTypes ==
  ASSUME TypeInv, NEW a \in Address, Arrive(a)
  PROVE  /\ arrived' \in Number /\ arrived' = arrived + 1 /\ arrived' \in 0..MaxRequests
         /\ spent' \in [Address -> Nat] /\ resetAt' \in [Address -> Nat]
         /\ booted' \in 0..arrived' /\ missing' \in BOOLEAN /\ now' \in 0..MaxTime
         /\ from' \in [Number -> Address] /\ at' \in [Number -> 0..MaxTime]
         /\ faultsLeft' \in 0..MaxFaults /\ faulted' \subseteq Faults
<1>1. arrived' \in Number /\ arrived' = arrived + 1 /\ arrived' \in 0..MaxRequests
  BY Numbers DEF TypeInv, TypeOK, Arrive, Number
<1>2. SpentBy(a) \in Nat /\ ResetOf(a) \in Nat
  BY Numbers DEF TypeInv, TypeOK, SpentBy, ResetOf
<1>3. spent' \in [Address -> Nat] /\ resetAt' \in [Address -> Nat]
  BY <1>2 DEF TypeInv, TypeOK, Arrive
<1>4. from' \in [Number -> Address] /\ at' \in [Number -> 0..MaxTime]
  BY <1>1 DEF TypeInv, TypeOK, Arrive
<1> QED
  BY <1>1, <1>3, <1>4, FaultTypes DEF TypeInv, TypeOK, Arrive, processVars

\* A refused request arrives while the window of its address is still open.
LEMMA LimitedInWindow ==
  ASSUME TypeInv, NEW a \in Address, ~Admits(a)
  PROVE  /\ ~Expired(a) /\ now < resetAt[a]
         /\ SpentBy(a) = spent[a] + 1 /\ ResetOf(a) = resetAt[a] /\ spent[a] >= Points
         /\ SecondsBefore(a) \in Nat
         /\ Second * SecondsBefore(a) >= resetAt[a] - now
<1>1. ~Expired(a) /\ SpentBy(a) = spent[a] + 1 /\ ResetOf(a) = resetAt[a]
  BY Numbers DEF Admits, SpentBy, ResetOf
<1>2. now < resetAt[a] /\ spent[a] >= Points
  BY <1>1, Numbers DEF TypeInv, TypeOK, Expired, Admits
<1>3. resetAt[a] \in Nat /\ now \in Nat
  BY DEF TypeInv, TypeOK
<1>4. \A x, k \in Nat : k >= 1 /\ x >= 1 =>
        (x + k - 1) \div k \in Nat /\ k * ((x + k - 1) \div k) >= x
  OBVIOUS
<1>5. PICK x \in Nat : x = resetAt[a] - now /\ x >= 1
  BY <1>2, <1>3
<1>6. SecondsBefore(a) = (x + Second - 1) \div Second
  BY <1>5 DEF SecondsBefore
<1>7. SecondsBefore(a) \in Nat /\ Second * SecondsBefore(a) >= x
  BY <1>4, <1>5, <1>6, Numbers
<1> QED
  BY <1>1, <1>2, <1>5, <1>7

\* Locally answered requests and those that go to a backend.
LEMMA AcceptTypes ==
  ASSUME TypeInv, NEW a \in Address, Accept(a)
  PROVE  TypeInv'
<1> USE DEF TypeInv
<1>0. /\ pc \in [Number -> {"new", "ended"} \union Open]
      /\ told \in [Number -> Answers \union {"none"}]
      /\ retryAfter \in [Number -> Nat]
      /\ arrived \in Nat /\ Number \subseteq Nat
      /\ \A n \in Number : n > arrived + 1 => n > arrived
  BY Numbers DEF TypeOK, Number
<1>1. CASE Limited(a)
  <2>1. Arrive(a) /\ ~Admits(a) /\ Reply(arrived', "429")
        /\ retryAfter' = [retryAfter EXCEPT ![arrived'] = SecondsBefore(a)]
    BY <1>1 DEF Limited
  <2>2. TypeOK'
    BY <1>0, <2>1, ArriveTypes, LimitedInWindow DEF TypeOK, Reply, Answers, Arrive
  <2>3. Fresh'
    BY <1>0, <2>1, ArriveTypes DEF Fresh, Reply
  <2> QED BY <2>2, <2>3
<1>2. CASE NotConfigured(a) \/ AnsweredLocally(a)
  <2>1. Arrive(a) /\ Reply(arrived', "gateway") /\ UNCHANGED retryAfter
    BY <1>2 DEF NotConfigured, AnsweredLocally
  <2>2. TypeOK'
    BY <1>0, <2>1, ArriveTypes DEF TypeOK, Reply, Answers, Arrive
  <2>3. Fresh'
    BY <1>0, <2>1, ArriveTypes DEF Fresh, Reply
  <2> QED BY <2>2, <2>3
<1>3. CASE Forward(a)
  <2>1. Arrive(a) /\ pc' = [pc EXCEPT ![arrived'] = "waiting"] /\ UNCHANGED <<told, retryAfter>>
    BY <1>3 DEF Forward
  <2>2. TypeOK'
    BY <1>0, <2>1, ArriveTypes DEF TypeOK, Open, Arrive
  <2>3. Fresh'
    BY <1>0, <2>1, ArriveTypes DEF Fresh
  <2> QED BY <2>2, <2>3
<1> QED BY <1>1, <1>2, <1>3 DEF Accept

\* In the proxy only pc and told of one request change.  Its answer is set when
\* nothing was sent yet, and it is not a refusal of the limiter.
LEMMA ProxyStep ==
  ASSUME TypeInv, NEW n \in Number, Proxy(n)
  PROVE  /\ UNCHANGED <<processVars, now, limiterVars, arrivalVars, faultVars>>
         /\ \E place \in {"ended", "streaming", "stalled"} :
               pc' = [pc EXCEPT ![n] = place]
         /\ \/ told' = told
            \/ \E answer \in {"gateway", "backend"} :
                  told[n] = "none" /\ told' = [told EXCEPT ![n] = answer]
         /\ pc[n] \in Open /\ n <= arrived
<1>1. pc[n] \in Open => n <= arrived
  BY Numbers DEF TypeInv, TypeOK, Fresh, Number, Open
<1> QED
  BY <1>1 DEF Proxy, Respond, Finish, UpstreamFails, BreaksOff, IdleTimeout, Reply, Alone,
              NoFault, TypeInv, Fresh, Open

LEMMA TypeNext == TypeInv /\ [Next]_vars => TypeInv'
<1> SUFFICES ASSUME TypeInv, [Next]_vars PROVE TypeInv'
  OBVIOUS
<1>1. CASE \E a \in Address : Accept(a)
  BY <1>1, AcceptTypes
<1>2. ASSUME NEW n \in Number, Proxy(n)
      PROVE  TypeInv'
  <2>1. TypeOK'
    BY <1>2, ProxyStep DEF TypeInv, TypeOK, processVars, limiterVars, arrivalVars, faultVars,
                           Open, Answers
  <2>2. Fresh'
    <3>1. /\ pc \in [Number -> {"new", "ended"} \union Open]
          /\ told \in [Number -> Answers \union {"none"}]
          /\ arrived \in Nat /\ Number \subseteq Nat /\ n \in Nat
      BY Numbers DEF TypeInv, TypeOK, Number
    <3>2. PICK place \in {"ended", "streaming", "stalled"} : pc' = [pc EXCEPT ![n] = place]
      BY <1>2, ProxyStep
    <3>3. \A m \in Number : m > arrived => m # n
      BY <1>2, <3>1, ProxyStep
    <3>4. \A m \in Number : m # n => pc'[m] = pc[m] /\ told'[m] = told[m]
      BY <1>2, <3>1, <3>2, ProxyStep
    <3>5. pc'[n] = place /\ arrived' = arrived
      BY <1>2, <3>1, <3>2, ProxyStep DEF arrivalVars
    <3> QED
      BY <3>3, <3>4, <3>5 DEF TypeInv, Fresh
  <2> QED BY <2>1, <2>2 DEF TypeInv
<1>3. CASE Tick
  BY <1>3, Numbers DEF Tick, TypeInv, TypeOK, Fresh, processVars, limiterVars, arrivalVars,
                       requestVars, NoFault, faultVars
<1>4. CASE Restart
  <2>1. TypeOK'
    BY <1>4, Numbers, FaultTypes DEF Restart, TypeInv, TypeOK, arrivalVars
  <2>2. Fresh'
    BY <1>4 DEF Restart, TypeInv, TypeOK, Fresh, arrivalVars, Proxied, Open
  <2> QED BY <2>1, <2>2 DEF TypeInv
<1>5. CASE UNCHANGED vars
  BY <1>5 DEF vars, TypeInv, TypeOK, Fresh, processVars, limiterVars, arrivalVars,
              requestVars, faultVars
<1> QED
  BY <1>1, <1>2, <1>3, <1>4, <1>5 DEF Next

\* The state stays within its types.
THEOREM TypeCorrect == Spec => []TypeOK
<1>1. TypeInv => TypeOK
  BY DEF TypeInv
<1> QED
  BY TypeInit, TypeNext, <1>1, PTL DEF Spec

----------------------------------------------------------------------------
(* Answers.                                                                *)

\* A request is answered once, whatever backends, timers and restarts do.
THEOREM NobodyAnsweredTwice == Spec => AnsweredOnce
<1>1. TypeInv /\ [Next]_vars =>
        [\A n \in Number : told[n] # "none" => told'[n] = told[n]]_vars
  <2> SUFFICES ASSUME TypeInv, Next, NEW n \in Number, told[n] # "none"
               PROVE  told'[n] = told[n]
    BY DEF vars
  <2>1. told \in [Number -> Answers \union {"none"}]
    BY DEF TypeInv, TypeOK
  <2>2. ASSUME NEW a \in Address, Accept(a)
        PROVE  told'[n] = told[n]
    <3>1. Arrive(a)
      BY <2>2 DEF Accept, Limited, NotConfigured, AnsweredLocally, Forward
    <3>2. ~(n > arrived) /\ arrived \in Nat /\ n \in Nat
      BY Numbers DEF TypeInv, TypeOK, Fresh, Number
    <3>3. n # arrived'
      BY <3>1, <3>2, ArriveTypes
    <3> QED
      BY <2>1, <2>2, <3>3 DEF Accept, Limited, NotConfigured, AnsweredLocally, Forward, Reply
  <2>3. ASSUME NEW m \in Number, Proxy(m)
        PROVE  told'[n] = told[n]
    BY <2>1, <2>3, ProxyStep
  <2>4. CASE Tick \/ Restart
    BY <2>4 DEF Tick, Restart, requestVars
  <2> QED
    BY <2>2, <2>3, <2>4 DEF Next
<1> QED
  BY TypeInit, TypeNext, <1>1, PTL DEF Spec, AnsweredOnce

----------------------------------------------------------------------------
(* Windows.                                                                *)

\* The requests of an address this process has let through: all of them, those
\* of its current window, and those of the time before it that an interval
\* reaching into the window may contain.
Admitted(a) == AdmittedFrom(a, 1, arrived)
Current(a) == {n \in Admitted(a) : at[n] + Window >= resetAt[a]}
Before(a) ==
    {n \in Admitted(a) : at[n] + Window < resetAt[a] /\ resetAt[a] < at[n] + Window + Window}

ClockInv ==
    /\ \A i, j \in 1..arrived : i <= j => at[i] <= at[j]
    /\ \A i \in 1..arrived : at[i] <= now
    /\ \A a \in Address : resetAt[a] <= now + Window

\* A window starts with a request that is let through, and spent counts the
\* requests of the window.
WindowInv ==
    \A a \in Address :
        /\ \A n \in Admitted(a) : at[n] < resetAt[a]
        /\ resetAt[a] # 0 => \E f \in Admitted(a) : at[f] + Window = resetAt[a]
        /\ Cardinality(Current(a)) = IF spent[a] < Points THEN spent[a] ELSE Points
        /\ Cardinality(Before(a)) < Points

\* Who was refused was sent a time not before the end of his window, as long as
\* that window lasts.
RetryInv ==
    \A m \in (booted + 1)..arrived :
        told[m] = "429" =>
            \/ resetAt[from[m]] <= at[m] + Second * retryAfter[m]
            \/ \A k \in Current(from[m]) : k > m

LimiterInv == TypeInv /\ ClockInv /\ WindowInv /\ RateBound /\ RetryInv /\ RetryAfterHonoured

LEMMA AdmittedFinite ==
  ASSUME TypeInv, NEW a \in Address, NEW i \in Nat, NEW j \in Nat
  PROVE  IsFiniteSet(AdmittedFrom(a, i, j))
<1>1. AdmittedFrom(a, i, j) \in SUBSET (i..j)
  BY DEF AdmittedFrom
<1>2. IsFiniteSet(i..j)
  BY FS_Interval
<1> QED BY <1>1, <1>2, FS_Subset

LEMMA WindowsFinite ==
  ASSUME TypeInv, NEW a \in Address
  PROVE  /\ IsFiniteSet(Admitted(a)) /\ IsFiniteSet(Current(a)) /\ IsFiniteSet(Before(a))
         /\ Cardinality(Current(a)) \in Nat /\ Cardinality(Before(a)) \in Nat
<1>1. IsFiniteSet(Admitted(a))
  <2>1. arrived \in Nat
    BY Numbers DEF TypeInv, TypeOK
  <2> QED BY <2>1, AdmittedFinite DEF Admitted
<1>2. Current(a) \in SUBSET Admitted(a) /\ Before(a) \in SUBSET Admitted(a)
  BY DEF Current, Before
<1>3. IsFiniteSet(Current(a)) /\ IsFiniteSet(Before(a))
  BY <1>1, <1>2, FS_Subset
<1> QED BY <1>1, <1>3, FS_CardinalityType

LEMMA LimiterInit == Init => LimiterInv
<1> SUFFICES ASSUME Init PROVE LimiterInv
  OBVIOUS
<1>1. TypeInv
  BY TypeInit
<1>2. arrived = 0 /\ booted = 0 /\ now = 0 /\ 1..arrived = {} /\ (booted + 1)..arrived = {}
      /\ \A a \in Address : spent[a] = 0 /\ resetAt[a] = 0
  BY DEF Init
<1>3. \A a \in Address : Admitted(a) = {} /\ Current(a) = {} /\ Before(a) = {}
  BY <1>2 DEF Admitted, Current, Before, AdmittedFrom
<1>4. WindowInv
  BY <1>2, <1>3, FS_EmptySet, Numbers DEF WindowInv
<1>5. RateBound
  BY <1>3 DEF RateBound, Admitted
<1> QED
  BY <1>1, <1>2, <1>4, <1>5, Numbers
  DEF LimiterInv, ClockInv, RetryInv, RetryAfterHonoured

\* A step that admits nobody, opens no window and starts no process.
LEMMA LimiterUntouched ==
  ASSUME LimiterInv, TypeInv',
         UNCHANGED <<booted, spent, resetAt, arrived, from, at, retryAfter>>,
         now' >= now,
         \A n \in Number : told[n] = "429" <=> told'[n] = "429"
  PROVE  LimiterInv'
<1>1. 1..arrived \subseteq Number /\ booted \in Nat /\ arrived \in Nat
  BY Numbers DEF LimiterInv, TypeInv, TypeOK, Number
<1>2. \A a \in Address : \A i, j \in Nat :
        i >= 1 /\ j <= arrived => AdmittedFrom(a, i, j)' = AdmittedFrom(a, i, j)
  BY <1>1 DEF AdmittedFrom
<1>3. \A a \in Address : Admitted(a)' = Admitted(a)
  BY <1>1 DEF AdmittedFrom, Admitted
<1>4. \A a \in Address : Current(a)' = Current(a) /\ Before(a)' = Before(a)
  BY <1>3 DEF Current, Before
<1>5. ClockInv'
  <2>1. /\ now \in Nat /\ now' \in Nat /\ Window \in Nat
        /\ \A n \in Number : at[n] \in Nat
        /\ \A a \in Address : resetAt[a] \in Nat
    BY Numbers DEF LimiterInv, TypeInv, TypeOK
  <2>2. ClockInv
    BY DEF LimiterInv
  <2> QED BY <1>1, <2>1, <2>2 DEF ClockInv
<1>6. WindowInv'
  BY <1>3, <1>4 DEF LimiterInv, WindowInv
<1>7. RateBound'
  BY <1>1 DEF LimiterInv, RateBound, AdmittedFrom
<1>8. RetryInv'
  <2>1. \A m \in (booted + 1)..arrived : m \in Number /\ from[m] \in Address
    BY <1>1 DEF LimiterInv, TypeInv, TypeOK
  <2>2. RetryInv
    BY DEF LimiterInv
  <2> QED BY <1>4, <2>1, <2>2 DEF RetryInv
<1>9. RetryAfterHonoured'
  <2>1. \A m \in (booted + 1)..arrived :
          m \in Number /\ m \in Nat /\ m >= 1 /\ m <= arrived /\ from[m] \in Address
    BY <1>1 DEF LimiterInv, TypeInv, TypeOK
  <2>2. RetryAfterHonoured
    BY DEF LimiterInv
  <2>3. \A m, n \in (booted + 1)..arrived :
          AdmittedFrom(from[n], m, n)' = AdmittedFrom(from[n], m, n)
    BY <1>1, <2>1 DEF AdmittedFrom
  <2> QED BY <2>1, <2>2, <2>3 DEF RetryAfterHonoured
<1> QED
  BY <1>5, <1>6, <1>7, <1>8, <1>9 DEF LimiterInv

\* A new process has let nobody through and refused nobody.
LEMMA LimiterRestart ==
  ASSUME LimiterInv, TypeInv', Restart
  PROVE  LimiterInv'
<1>1. /\ arrived \in Nat /\ booted' = arrived /\ arrived' = arrived /\ now' = now
      /\ at' = at /\ now \in Nat /\ resetAt' = [a \in Address |-> 0]
      /\ spent' = [a \in Address |-> 0]
      /\ (booted' + 1)..arrived' = {}
  BY Numbers DEF LimiterInv, TypeInv, TypeOK, Restart, arrivalVars
<1>2. \A a \in Address : \A i \in Nat : AdmittedFrom(a, i, arrived)' = {}
  BY <1>1 DEF AdmittedFrom
<1>3. \A a \in Address : Admitted(a)' = {}
  BY <1>1, <1>2 DEF AdmittedFrom, Admitted
<1>4. \A a \in Address : Current(a)' = {} /\ Before(a)' = {}
  BY <1>3 DEF Current, Before
<1>5. ClockInv'
  BY <1>1, Numbers DEF LimiterInv, ClockInv
<1>6. WindowInv'
  BY <1>1, <1>3, <1>4, FS_EmptySet, Numbers DEF WindowInv
<1>7. RateBound'
  BY <1>3 DEF RateBound, Admitted
<1>8. RetryInv' /\ RetryAfterHonoured'
  BY <1>1 DEF RetryInv, RetryAfterHonoured
<1> QED
  BY <1>5, <1>6, <1>7, <1>8 DEF LimiterInv

\* The arrival of a request changes nothing about the earlier ones.
LEMMA ArrivalFacts ==
  ASSUME LimiterInv, TypeInv', NEW a \in Address, Accept(a)
  PROVE  /\ arrived \in Nat /\ booted \in 0..arrived /\ booted' = booted
         /\ now \in Nat /\ now' = now
         /\ arrived' = arrived + 1 /\ arrived' \in Number /\ 1..arrived \subseteq Number
         /\ from'[arrived + 1] = a /\ at'[arrived + 1] = now
         /\ (told'[arrived + 1] = "429") <=> ~Admits(a)
         /\ ~Admits(a) => retryAfter'[arrived + 1] = SecondsBefore(a)
         /\ \A i \in 1..arrived :
               /\ from'[i] = from[i] /\ at'[i] = at[i]
               /\ retryAfter'[i] = retryAfter[i] /\ told'[i] = told[i]
               /\ from[i] \in Address /\ at[i] \in Nat /\ retryAfter[i] \in Nat
         /\ spent'[a] = SpentBy(a) /\ resetAt'[a] = ResetOf(a)
         /\ \A b \in Address : /\ spent[b] \in Nat /\ resetAt[b] \in Nat
                               /\ b # a => spent'[b] = spent[b] /\ resetAt'[b] = resetAt[b]
<1> DEFINE n0 == arrived + 1
<1>1. Arrive(a)
  BY DEF Accept, Limited, NotConfigured, AnsweredLocally, Forward
<1>2. TypeInv
  BY DEF LimiterInv
<1>3. /\ arrived \in Nat /\ booted \in 0..arrived /\ now \in Nat
      /\ 1..arrived \subseteq Number
      /\ from \in [Number -> Address] /\ at \in [Number -> 0..MaxTime]
      /\ retryAfter \in [Number -> Nat] /\ told \in [Number -> Answers \union {"none"}]
      /\ spent \in [Address -> Nat] /\ resetAt \in [Address -> Nat]
  <2>1. TypeOK /\ arrived \in Nat /\ now \in Nat
    BY <1>2, Numbers DEF TypeInv, TypeOK
  <2>2. 1..arrived \subseteq Number
    BY <2>1, Numbers DEF TypeOK, Number
  <2> QED BY <2>1, <2>2 DEF TypeOK
<1>4. arrived' = n0 /\ n0 \in Number /\ \A i \in 1..arrived : i # n0
  BY <1>1, <1>2, <1>3, ArriveTypes
<1>5. /\ booted' = booted /\ now' = now
      /\ from' = [from EXCEPT ![n0] = a] /\ at' = [at EXCEPT ![n0] = now]
      /\ spent' = [spent EXCEPT ![a] = SpentBy(a)]
      /\ resetAt' = [resetAt EXCEPT ![a] = ResetOf(a)]
  BY <1>1, <1>4 DEF Arrive, processVars
<1>6. /\ (told'[n0] = "429") <=> ~Admits(a)
      /\ ~Admits(a) => retryAfter'[n0] = SecondsBefore(a)
  <2>1. told[n0] = "none"
    BY <1>2, <1>3, <1>4, Numbers DEF TypeInv, Fresh
  <2>2. CASE Limited(a)
    BY <1>3, <1>4, <2>2 DEF Limited, Reply
  <2>3. CASE NotConfigured(a) \/ AnsweredLocally(a) \/ Forward(a)
    BY <1>3, <1>4, <2>1, <2>3 DEF NotConfigured, AnsweredLocally, Forward, Reply
  <2> QED BY <2>2, <2>3 DEF Accept
<1>7. \A i \in 1..arrived : retryAfter'[i] = retryAfter[i] /\ told'[i] = told[i]
  BY <1>3, <1>4 DEF Accept, Limited, NotConfigured, AnsweredLocally, Forward, Reply
<1>8. \A i \in 1..arrived : /\ from'[i] = from[i] /\ at'[i] = at[i]
                            /\ from[i] \in Address /\ at[i] \in Nat /\ retryAfter[i] \in Nat
  BY <1>3, <1>4, <1>5, Numbers
<1>9. from'[n0] = a /\ at'[n0] = now
  BY <1>3, <1>4, <1>5
<1>10. /\ spent'[a] = SpentBy(a) /\ resetAt'[a] = ResetOf(a)
       /\ \A b \in Address : /\ spent[b] \in Nat /\ resetAt[b] \in Nat
                             /\ b # a => spent'[b] = spent[b] /\ resetAt'[b] = resetAt[b]
  BY <1>3, <1>5
<1> QED
  BY <1>3, <1>4, <1>5, <1>6, <1>7, <1>8, <1>9, <1>10, Zenon

\* An arrival adds to the requests let through of its address, and only if it is
\* admitted.
LEMMA ArrivalSets ==
  ASSUME LimiterInv, TypeInv', NEW a \in Address, Accept(a),
         NEW b \in Address, NEW i \in Nat, i >= 1, NEW last \in Nat, last = arrived + 1
  PROVE  /\ \A j \in Nat : j <= arrived => AdmittedFrom(b, i, j)' = AdmittedFrom(b, i, j)
         /\ b # a \/ ~Admits(a) =>
               AdmittedFrom(b, i, last)' = AdmittedFrom(b, i, arrived)
         /\ b = a /\ Admits(a) /\ i <= last =>
               AdmittedFrom(b, i, last)' = AdmittedFrom(b, i, arrived) \union {last}
<1>1. arrived \in Nat /\ booted \in 0..arrived /\ booted' = booted
  BY ArrivalFacts
<1>2. \A j \in Nat : j <= arrived => i..j \subseteq 1..arrived
  BY <1>1
<1>3. \A k \in 1..arrived : from'[k] = from[k] /\ told'[k] = told[k]
  BY ArrivalFacts
<1>4. \A j \in Nat : j <= arrived => AdmittedFrom(b, i, j)' = AdmittedFrom(b, i, j)
  BY <1>1, <1>2, <1>3 DEF AdmittedFrom
<1>5. /\ i <= last => i..last = i..arrived \union {last}
      /\ i > last => i..last = {} /\ i..arrived = {}
      /\ i..arrived \subseteq 1..arrived
      /\ last > booted
  BY <1>1
<1>6. from'[last] = a /\ (told'[last] = "429" <=> ~Admits(a))
  BY ArrivalFacts
<1>7. CASE b # a \/ ~Admits(a)
  BY <1>1, <1>3, <1>4, <1>5, <1>6, <1>7 DEF AdmittedFrom
<1>8. CASE b = a /\ Admits(a)
  BY <1>1, <1>3, <1>4, <1>5, <1>6, <1>8 DEF AdmittedFrom
<1> QED BY <1>4, <1>7, <1>8

\* The windows of everybody else, and of who is refused, stay.
LEMMA WindowsStay ==
  ASSUME LimiterInv, TypeInv', NEW a \in Address, Accept(a),
         NEW b \in Address, b # a \/ ~Admits(a)
  PROVE  /\ resetAt'[b] = resetAt[b]
         /\ Admitted(b)' = Admitted(b) /\ Current(b)' = Current(b) /\ Before(b)' = Before(b)
<1>1. resetAt'[b] = resetAt[b]
  BY ArrivalFacts, LimitedInWindow DEF LimiterInv
<1>2. Admitted(b)' = Admitted(b)
  <2>1. PICK last \in Nat : last = arrived + 1 /\ arrived' = last
    BY ArrivalFacts
  <2> QED BY <2>1, ArrivalSets DEF Admitted, AdmittedFrom
<1>3. Admitted(b) \subseteq 1..arrived
  BY DEF Admitted, AdmittedFrom
<1>4. \A n \in Admitted(b) : at'[n] = at[n]
  BY <1>3, ArrivalFacts
<1> QED BY <1>1, <1>2, <1>4 DEF Current, Before

\* Who is admitted joins the current window, or starts one.
LEMMA WindowsOfAdmitted ==
  ASSUME LimiterInv, TypeInv', NEW a \in Address, Accept(a), Admits(a)
  PROVE  /\ Admitted(a)' = Admitted(a) \union {arrived + 1}
         /\ ~Expired(a) => /\ resetAt'[a] = resetAt[a]
                           /\ Current(a)' = Current(a) \union {arrived + 1}
                           /\ Before(a)' = Before(a)
         /\ Expired(a) => /\ resetAt'[a] = now + Window
                          /\ Current(a)' = {arrived + 1}
                          /\ \/ Before(a)' = {}
                             \/ \E f \in Current(a) : Before(a)' \subseteq Current(a) \ {f}
<1> DEFINE n0 == arrived + 1
<1>1. /\ arrived \in Nat /\ now \in Nat /\ now' = now /\ arrived' = n0
      /\ at'[n0] = now /\ Window \in Nat /\ Window >= 1
      /\ resetAt[a] \in Nat /\ resetAt'[a] = ResetOf(a)
  BY ArrivalFacts, Numbers
<1>2. Admitted(a)' = Admitted(a) \union {n0}
  <2>1. PICK last \in Nat : last = arrived + 1 /\ arrived' = last
    BY <1>1
  <2>2. AdmittedFrom(a, 1, last)' = AdmittedFrom(a, 1, arrived) \union {last}
    BY <1>1, <2>1, ArrivalSets
  <2> QED BY <2>1, <2>2 DEF Admitted, AdmittedFrom
<1>3. \A n \in Admitted(a) : n # n0 /\ at'[n] = at[n] /\ at[n] \in Nat
  BY <1>1, ArrivalFacts DEF Admitted, AdmittedFrom
<1>4. \A n \in Admitted(a) : at[n] < resetAt[a]
  BY DEF LimiterInv, WindowInv
<1>5. CASE ~Expired(a)
  <2>1. resetAt'[a] = resetAt[a] /\ resetAt[a] <= now + Window
    BY <1>1, <1>5 DEF ResetOf, LimiterInv, ClockInv
  <2>2. Current(a)' = Current(a) \union {n0}
    BY <1>1, <1>2, <1>3, <2>1 DEF Current
  <2>3. Before(a)' = Before(a)
    BY <1>1, <1>2, <1>3, <2>1 DEF Before
  <2> QED BY <1>2, <1>5, <2>1, <2>2, <2>3
<1>6. CASE Expired(a)
  <2>1. resetAt'[a] = now + Window /\ resetAt[a] <= now
    BY <1>1, <1>6 DEF ResetOf, Expired
  <2>2. Current(a)' = {n0}
    BY <1>1, <1>2, <1>3, <1>4, <2>1 DEF Current
  <2>3. \A n \in Before(a)' : n \in Admitted(a) /\ now + Window < at[n] + Window + Window
    BY <1>1, <1>2, <1>3, <2>1 DEF Before
  <2>4. CASE resetAt[a] = 0
    BY <1>2, <1>3, <1>4, <1>6, <2>1, <2>2, <2>3, <2>4
  <2>5. CASE resetAt[a] # 0
    <3>1. PICK f \in Admitted(a) : at[f] + Window = resetAt[a]
      BY <2>5 DEF LimiterInv, WindowInv
    <3>2. f \in Current(a)
      BY <1>1, <1>3, <3>1 DEF Current
    <3>3. \A n \in Before(a)' : n \in Current(a) /\ n # f
      BY <1>1, <1>3, <2>1, <2>3, <3>1 DEF Current
    <3> QED BY <1>2, <1>6, <2>1, <2>2, <3>2, <3>3
  <2> QED BY <2>4, <2>5
<1> QED BY <1>5, <1>6

LEMMA ArrivalClock ==
  ASSUME LimiterInv, TypeInv', NEW a \in Address, Accept(a)
  PROVE  ClockInv'
<1>1. /\ arrived \in Nat /\ now \in Nat /\ now' = now /\ arrived' = arrived + 1
      /\ at'[arrived + 1] = now /\ Window \in Nat /\ Window >= 1
  BY ArrivalFacts, Numbers
<1>2. 1..(arrived + 1) = 1..arrived \union {arrived + 1}
  BY <1>1
<1>3. \A i \in 1..arrived : at'[i] = at[i] /\ at[i] \in Nat /\ i \in Nat /\ i < arrived + 1
  BY <1>1, ArrivalFacts
<1>4. ClockInv
  BY DEF LimiterInv
<1>5. \A b \in Address : resetAt'[b] <= now + Window
  <2>1. ResetOf(a) <= now + Window
    BY <1>1, <1>4, ArrivalFacts DEF ResetOf, ClockInv
  <2> QED BY <1>4, <2>1, ArrivalFacts DEF ClockInv
<1>6. \A i, j \in 1..(arrived + 1) : i <= j => at'[i] <= at'[j]
  BY <1>1, <1>2, <1>3, <1>4 DEF ClockInv
<1>7. \A i \in 1..(arrived + 1) : at'[i] <= now
  BY <1>1, <1>2, <1>3, <1>4 DEF ClockInv
<1> QED BY <1>1, <1>5, <1>6, <1>7 DEF ClockInv

LEMMA ArrivalWindow ==
  ASSUME LimiterInv, TypeInv', NEW a \in Address, Accept(a)
  PROVE  WindowInv'
<1> DEFINE Kept(b) ==
      /\ \A n \in Admitted(b) : at[n] < resetAt[b]
      /\ resetAt[b] # 0 => \E f \in Admitted(b) : at[f] + Window = resetAt[b]
      /\ Cardinality(Current(b)) = IF spent[b] < Points THEN spent[b] ELSE Points
      /\ Cardinality(Before(b)) < Points
<1>1. \A b \in Address : Kept(b)
  BY DEF LimiterInv, WindowInv
<1>2. /\ arrived \in Nat /\ now \in Nat /\ now' = now /\ arrived' = arrived + 1
      /\ at'[arrived + 1] = now /\ spent'[a] = SpentBy(a)
      /\ \A n \in 1..arrived : at'[n] = at[n] /\ at[n] \in Nat
      /\ spent[a] \in Nat /\ resetAt[a] \in Nat
  BY ArrivalFacts
<1>3. TypeInv
  BY DEF LimiterInv
<1>4. \A b \in Address : Admitted(b) \subseteq 1..arrived
  BY DEF Admitted, AdmittedFrom
<1>5. ASSUME NEW b \in Address, b # a \/ ~Admits(a)
      PROVE  Kept(b)'
  <2>1. Cardinality(Current(b)) = IF spent'[b] < Points THEN spent'[b] ELSE Points
    <3>1. CASE b # a
      BY <1>1, <3>1, ArrivalFacts
    <3>2. CASE b = a /\ ~Admits(a)
      <4>1. spent[a] >= Points /\ spent'[a] = spent[a] + 1
        BY <1>2, <1>3, <3>2, LimitedInWindow
      <4> QED BY <1>1, <1>2, <3>2, <4>1, Numbers
    <3> QED BY <1>5, <3>1, <3>2
  <2>2. \A n \in Admitted(b) : at'[n] = at[n]
    BY <1>2, <1>4
  <2> QED BY <1>1, <1>5, <2>1, <2>2, WindowsStay
<1>6. ASSUME Admits(a)
      PROVE  Kept(a)'
  <2>1. /\ IsFiniteSet(Current(a)) /\ IsFiniteSet(Before(a))
        /\ arrived + 1 \notin Current(a)
    BY <1>2, <1>3, <1>4, WindowsFinite DEF Current
  <2>2. \A n \in Admitted(a)' :
          \/ n = arrived + 1
          \/ n \in Admitted(a) /\ at'[n] = at[n] /\ at[n] \in Nat
    <3>1. Admitted(a)' = Admitted(a) \union {arrived + 1}
      BY <1>6, WindowsOfAdmitted
    <3>2. \A n \in Admitted(a) : at'[n] = at[n] /\ at[n] \in Nat
      BY <1>2, <1>4
    <3> QED BY <3>1, <3>2
  <2>3. CASE ~Expired(a)
    <3>1. /\ resetAt'[a] = resetAt[a] /\ Before(a)' = Before(a)
          /\ Current(a)' = Current(a) \union {arrived + 1}
          /\ Admitted(a)' = Admitted(a) \union {arrived + 1}
      BY <1>6, <2>3, WindowsOfAdmitted
    <3>2. spent'[a] = spent[a] + 1 /\ spent[a] < Points
      BY <1>2, <1>6, <2>3, Numbers DEF SpentBy, Admits
    <3>3. Cardinality(Current(a)') = Cardinality(Current(a)) + 1
      BY <2>1, <3>1, FS_AddElement
    <3>4. Cardinality(Current(a)') = IF spent'[a] < Points THEN spent'[a] ELSE Points
      BY <1>1, <1>2, <3>2, <3>3, Numbers
    <3>5. now < resetAt[a]
      BY <1>2, <2>3 DEF Expired
    <3>6. \A n \in Admitted(a)' : at'[n] < resetAt'[a]
      BY <1>1, <1>2, <2>2, <3>1, <3>5
    <3>7. resetAt'[a] # 0 => \E f \in Admitted(a)' : at'[f] + Window = resetAt'[a]
      BY <1>1, <1>2, <1>4, <3>1
    <3> QED BY <1>1, <3>1, <3>4, <3>6, <3>7
  <2>4. CASE Expired(a)
    <3>1. /\ resetAt'[a] = now + Window /\ Current(a)' = {arrived + 1}
          /\ Admitted(a)' = Admitted(a) \union {arrived + 1}
      BY <1>6, <2>4, WindowsOfAdmitted
    <3>2. Cardinality(Current(a)') = IF spent'[a] < Points THEN spent'[a] ELSE Points
      <4>1. spent'[a] = 1
        BY <1>2, <2>4 DEF SpentBy
      <4>2. Cardinality(Current(a)') = 1
        BY <3>1, FS_Singleton
      <4> QED BY <4>1, <4>2, Numbers
    <3>3. Cardinality(Before(a)') < Points
      <4>1. CASE Before(a)' = {}
        BY <4>1, FS_EmptySet, Numbers
      <4>2. ASSUME NEW f \in Current(a), Before(a)' \subseteq Current(a) \ {f}
            PROVE  Cardinality(Before(a)') < Points
        <5>1. /\ Cardinality(Current(a) \ {f}) = Cardinality(Current(a)) - 1
              /\ IsFiniteSet(Current(a) \ {f})
          BY <2>1, <4>2, FS_RemoveElement
        <5>2. Cardinality(Before(a)') <= Cardinality(Current(a) \ {f})
          BY <4>2, <5>1, FS_Subset
        <5>3. Cardinality(Current(a)) \in Nat /\ Cardinality(Current(a)) <= Points
          BY <1>1, <1>2, Numbers
        <5>4. Cardinality(Before(a)') \in Nat
          BY <4>2, <5>1, FS_Subset, FS_CardinalityType
        <5> QED BY <5>1, <5>2, <5>3, <5>4, Numbers
      <4> QED BY <1>6, <2>4, <4>1, <4>2, WindowsOfAdmitted
    <3>4. \A n \in Admitted(a)' : at'[n] < resetAt'[a]
      BY <1>1, <1>2, <2>2, <2>4, <3>1, Numbers DEF Expired
    <3>5. \E f \in Admitted(a)' : at'[f] + Window = resetAt'[a]
      BY <1>2, <3>1
    <3> QED BY <3>2, <3>3, <3>4, <3>5
  <2> QED BY <2>3, <2>4
<1> QED BY <1>5, <1>6 DEF WindowInv

\* The requests of an interval are those of at most two windows.
LEMMA ArrivalRate ==
  ASSUME LimiterInv, TypeInv', NEW a \in Address, Accept(a), ClockInv', WindowInv'
  PROVE  RateBound'
<1> SUFFICES ASSUME NEW b \in Address, NEW n \in Admitted(b)'
             PROVE  Cardinality({m \in AdmittedFrom(b, n, arrived)' : at'[m] < at'[n] + Window})
                      < 2 * Points
  BY DEF RateBound, Admitted
<1> DEFINE S == {m \in AdmittedFrom(b, n, arrived)' : at'[m] < at'[n] + Window}
           Old == {m \in AdmittedFrom(b, n, arrived) : at[m] < at[n] + Window}
<1>1. /\ arrived \in Nat /\ now \in Nat /\ now' = now /\ arrived' = arrived + 1
      /\ at'[arrived + 1] = now
      /\ \A m \in 1..arrived : at'[m] = at[m] /\ at[m] \in Nat
  BY ArrivalFacts
<1>2. n \in 1..(arrived + 1) /\ n \in Nat /\ n >= 1
  BY <1>1 DEF Admitted, AdmittedFrom
<1>3. PICK last \in Nat : last = arrived + 1 /\ arrived' = last
  BY <1>1
<1>4. AdmittedFrom(b, n, arrived)' = AdmittedFrom(b, n, last)'
  BY <1>3 DEF AdmittedFrom
<1>5. AdmittedFrom(b, n, arrived) \subseteq n..arrived /\ n..arrived \subseteq 1..arrived
  BY <1>1, <1>2 DEF AdmittedFrom
<1>6. n \in Admitted(b) => Cardinality(Old) < 2 * Points
  BY DEF LimiterInv, RateBound, Admitted
<1>7. \A m \in Admitted(b) : at'[m] = at[m]
  BY <1>1 DEF Admitted, AdmittedFrom
<1>8. CASE b # a \/ ~Admits(a)
  <2>1. n \in Admitted(b) /\ AdmittedFrom(b, n, arrived)' = AdmittedFrom(b, n, arrived)
    BY <1>2, <1>3, <1>4, <1>8, WindowsStay, ArrivalSets
  <2>2. S = Old
    BY <1>1, <1>5, <1>7, <2>1
  <2> QED BY <1>6, <2>1, <2>2
<1>9. CASE b = a /\ Admits(a) /\ at'[n] + Window <= now
  <2>1. n # arrived + 1
    BY <1>1, <1>9, Numbers
  <2>2. n \in Admitted(a)
    BY <1>9, <2>1, WindowsOfAdmitted
  <2>3. AdmittedFrom(b, n, arrived)' = AdmittedFrom(b, n, arrived) \union {arrived + 1}
    BY <1>2, <1>3, <1>4, <1>9, ArrivalSets
  <2>4. \A m \in AdmittedFrom(b, n, arrived) : at'[m] = at[m]
    BY <1>1, <1>5
  <2>5. at'[n] = at[n] /\ ~(at'[arrived + 1] < at'[n] + Window)
    BY <1>1, <1>2, <1>7, <1>9, <2>1, <2>2, Numbers
  <2>6. S = Old
    BY <2>3, <2>4, <2>5
  <2> QED BY <1>6, <1>9, <2>2, <2>6
<1>10. CASE b = a /\ Admits(a) /\ at'[n] + Window > now
  <2>1. /\ IsFiniteSet(Current(a)') /\ IsFiniteSet(Before(a)')
        /\ Cardinality(Current(a)') \in Nat /\ Cardinality(Before(a)') \in Nat
    <3>1. Admitted(a)' \subseteq 1..(arrived + 1)
      BY <1>1 DEF Admitted, AdmittedFrom
    <3>2. IsFiniteSet(Admitted(a)')
      BY <1>1, <3>1, FS_Interval, FS_Subset
    <3>3. Current(a)' \subseteq Admitted(a)' /\ Before(a)' \subseteq Admitted(a)'
      BY DEF Current, Before
    <3> QED BY <3>2, <3>3, FS_Subset, FS_CardinalityType
  <2>2. Cardinality(Current(a)') <= Points /\ Cardinality(Before(a)') <= Points - 1
    <3>1. /\ Cardinality(Current(a)') = IF spent'[a] < Points THEN spent'[a] ELSE Points
          /\ Cardinality(Before(a)') < Points
      BY DEF WindowInv
    <3>2. spent'[a] \in Nat
      BY DEF TypeInv, TypeOK
    <3> QED BY <2>1, <3>1, <3>2, Numbers
  <2>3. resetAt'[a] <= now + Window /\ resetAt'[a] \in Nat
    BY <1>1 DEF ClockInv, TypeInv, TypeOK
  <2>4. \A m \in 1..(arrived + 1) : m >= n => at'[n] <= at'[m] /\ at'[m] \in Nat /\ at'[n] \in Nat
    BY <1>1, <1>2, <1>3 DEF ClockInv
  <2>5. S \subseteq Admitted(a)' /\ \A m \in S : m \in 1..(arrived + 1) /\ m >= n
    BY <1>1, <1>2, <1>3, <1>10 DEF Admitted, AdmittedFrom
  <2>6. S \subseteq Current(a)' \union Before(a)'
    BY <1>1, <1>10, <2>3, <2>4, <2>5, Numbers DEF Current, Before
  <2>7. /\ IsFiniteSet(Current(a)' \union Before(a)')
        /\ Cardinality(Current(a)' \union Before(a)')
             <= Cardinality(Current(a)') + Cardinality(Before(a)')
    <3>1. /\ IsFiniteSet(Current(a)' \intersect Before(a)')
          /\ Cardinality(Current(a)' \intersect Before(a)') \in Nat
      BY <2>1, FS_Intersection, FS_CardinalityType
    <3>2. /\ IsFiniteSet(Current(a)' \union Before(a)')
          /\ Cardinality(Current(a)' \union Before(a)')
               = Cardinality(Current(a)') + Cardinality(Before(a)')
                   - Cardinality(Current(a)' \intersect Before(a)')
      BY <2>1, FS_Union
    <3> QED BY <2>1, <3>1, <3>2
  <2>8. /\ Cardinality(S) <= Cardinality(Current(a)' \union Before(a)')
        /\ IsFiniteSet(S)
    BY <2>6, <2>7, FS_Subset
  <2>9. Cardinality(S) \in Nat /\ Cardinality(Current(a)' \union Before(a)') \in Nat
    BY <2>7, <2>8, FS_CardinalityType
  <2> HIDE DEF S
  <2>10. Cardinality(S) < 2 * Points
    BY <2>1, <2>2, <2>7, <2>8, <2>9, Numbers
  <2> QED BY <2>10 DEF S
<1> QED
  <2>1. at'[n] \in Nat
    BY <1>1, <1>2
  <2> QED BY <1>1, <1>8, <1>9, <1>10, <2>1, Numbers

LEMMA ArrivalRetry ==
  ASSUME LimiterInv, TypeInv', NEW a \in Address, Accept(a)
  PROVE  RetryInv'
<1>1. /\ arrived \in Nat /\ booted \in 0..arrived /\ booted' = booted
      /\ arrived' = arrived + 1 /\ at'[arrived + 1] = now /\ from'[arrived + 1] = a
      /\ now \in Nat
      /\ \A m \in 1..arrived : /\ at'[m] = at[m] /\ from'[m] = from[m]
                              /\ retryAfter'[m] = retryAfter[m] /\ told'[m] = told[m]
                              /\ from[m] \in Address
  BY ArrivalFacts
<1> SUFFICES ASSUME NEW m \in (booted + 1)..(arrived + 1), told'[m] = "429"
             PROVE  \/ resetAt'[from'[m]] <= at'[m] + Second * retryAfter'[m]
                    \/ \A k \in Current(from[m])' : k > m
  BY <1>1 DEF RetryInv
<1>2. CASE m = arrived + 1
  <2>1. ~Admits(a) /\ retryAfter'[m] = SecondsBefore(a)
    BY <1>2, ArrivalFacts
  <2>2. resetAt'[a] = resetAt[a] /\ resetAt[a] \in Nat
    BY <2>1, WindowsStay, ArrivalFacts
  <2>3. /\ SecondsBefore(a) \in Nat /\ Second * SecondsBefore(a) >= resetAt[a] - now
        /\ Second \in Nat
    BY <2>1, LimitedInWindow, Numbers DEF LimiterInv
  <2>4. PICK x \in Nat : x = Second * SecondsBefore(a)
    BY <2>3
  <2>5. resetAt[a] <= now + x
    BY <1>1, <2>2, <2>3, <2>4
  <2> QED BY <1>1, <1>2, <2>1, <2>2, <2>4, <2>5
<1>3. CASE m # arrived + 1
  <2>1. m \in 1..arrived /\ m \in (booted + 1)..arrived /\ m \in Nat /\ m < arrived + 1
    BY <1>1, <1>3
  <2>2. told[m] = "429" /\ from[m] \in Address
    BY <1>1, <2>1
  <2>3. \/ resetAt[from[m]] <= at[m] + Second * retryAfter[m]
        \/ \A k \in Current(from[m]) : k > m
    BY <2>1, <2>2 DEF LimiterInv, RetryInv
  <2>4. PICK b \in Address : b = from[m] /\ b = from'[m]
    BY <1>1, <2>1, <2>2
  <2>5. \/ resetAt'[b] = resetAt[b] /\ \A k \in Current(b)' : k \in Current(b) \/ k = arrived + 1
        \/ Current(b)' = {arrived + 1}
    <3>1. CASE b # a \/ ~Admits(a)
      BY <3>1, WindowsStay
    <3>2. CASE b = a /\ Admits(a)
      BY <3>2, WindowsOfAdmitted
    <3> QED BY <3>1, <3>2
  <2>6. Current(from[m])' = Current(b)'
    BY <1>1, <2>1, <2>4 DEF Current, Admitted, AdmittedFrom
  <2> QED BY <1>1, <2>1, <2>3, <2>4, <2>5, <2>6
<1> QED BY <1>2, <1>3

\* Whoever was told to wait until his window ends, and is refused after that time,
\* is refused in a later window, all of which was let in after him.
LEMMA ArrivalHonoured ==
  ASSUME LimiterInv, TypeInv', NEW a \in Address, Accept(a)
  PROVE  RetryAfterHonoured'
<1>1. /\ arrived \in Nat /\ booted \in 0..arrived /\ booted' = booted
      /\ arrived' = arrived + 1 /\ at'[arrived + 1] = now /\ from'[arrived + 1] = a
      /\ now \in Nat
      /\ \A m \in 1..arrived : /\ at'[m] = at[m] /\ from'[m] = from[m]
                              /\ retryAfter'[m] = retryAfter[m] /\ told'[m] = told[m]
                              /\ from[m] \in Address /\ at[m] \in Nat
                              /\ retryAfter[m] \in Nat
  BY ArrivalFacts
<1> SUFFICES ASSUME NEW m \in (booted + 1)..(arrived + 1), NEW n \in (booted + 1)..(arrived + 1),
                    m < n, from'[m] = from'[n], told'[m] = "429", told'[n] = "429",
                    at'[n] >= at'[m] + Second * retryAfter'[m]
             PROVE  Cardinality(AdmittedFrom(from[n], m, n)') >= Points
  BY <1>1 DEF RetryAfterHonoured, AdmittedFrom
<1>2. m \in 1..arrived /\ m \in (booted + 1)..arrived /\ m \in Nat /\ n \in Nat
  BY <1>1
<1>3. CASE n # arrived + 1
  <2>1. n \in 1..arrived /\ n \in (booted + 1)..arrived
    BY <1>1, <1>3
  <2>2. Cardinality(AdmittedFrom(from[n], m, n)) >= Points
    BY <1>1, <1>2, <2>1 DEF LimiterInv, RetryAfterHonoured
  <2>3. PICK b \in Address : b = from[n] /\ b = from'[n]
    BY <1>1, <2>1
  <2>4. AdmittedFrom(b, m, n)' = AdmittedFrom(b, m, n)
    BY <1>1, <1>2, <2>1, <2>3, ArrivalSets
  <2>5. AdmittedFrom(from[n], m, n)' = AdmittedFrom(b, m, n)'
    BY <2>3, <2>4 DEF AdmittedFrom
  <2> QED BY <2>2, <2>3, <2>4, <2>5
<1>4. CASE n = arrived + 1
  <2>1. ~Admits(a) /\ from[m] = a /\ at'[n] = now /\ told[m] = "429"
    BY <1>1, <1>2, <1>4, ArrivalFacts
  <2>2. TypeInv /\ now < resetAt[a] /\ spent[a] >= Points /\ spent[a] \in Nat /\ resetAt[a] \in Nat
    BY <2>1, LimitedInWindow, ArrivalFacts DEF LimiterInv
  <2>3. now >= at[m] + Second * retryAfter[m] /\ Second * retryAfter[m] \in Nat
    BY <1>1, <1>2, <2>1, Numbers
  <2>4. ~(resetAt[a] <= at[m] + Second * retryAfter[m])
    <3>1. PICK x \in Nat : x = Second * retryAfter[m]
      BY <2>3
    <3> QED BY <1>1, <1>2, <2>2, <2>3, <3>1
  <2>5. \A k \in Current(a) : k > m
    BY <1>2, <2>1, <2>4 DEF LimiterInv, RetryInv
  <2>6. Cardinality(Current(a)) = Points
    BY <2>2, Numbers DEF LimiterInv, WindowInv
  <2>7. Current(a) \subseteq AdmittedFrom(a, m, arrived)
    <3>1. \A k \in Current(a) : k \in Admitted(a) /\ k > m /\ k \in 1..arrived /\ k \in Nat
      BY <2>5 DEF Current, Admitted, AdmittedFrom
    <3> QED BY <1>1, <1>2, <3>1 DEF Admitted, AdmittedFrom
  <2>8. IsFiniteSet(AdmittedFrom(a, m, arrived))
    BY <1>1, <1>2, <2>2, AdmittedFinite
  <2>9. Cardinality(Current(a)) <= Cardinality(AdmittedFrom(a, m, arrived))
    BY <2>7, <2>8, FS_Subset
  <2>10. AdmittedFrom(a, m, n)' = AdmittedFrom(a, m, arrived)
    BY <1>1, <1>2, <1>4, <2>1, ArrivalSets
  <2>11. AdmittedFrom(from[n], m, n)' = AdmittedFrom(a, m, n)'
    BY <1>1, <1>4 DEF AdmittedFrom
  <2> QED BY <2>6, <2>9, <2>10, <2>11
<1> QED BY <1>3, <1>4

LEMMA LimiterNext == LimiterInv /\ [Next]_vars => LimiterInv'
<1> SUFFICES ASSUME LimiterInv, [Next]_vars PROVE LimiterInv'
  OBVIOUS
<1>1. TypeInv /\ TypeInv'
  BY TypeNext DEF LimiterInv
<1>2. /\ now \in Nat /\ told \in [Number -> Answers \union {"none"}]
  BY <1>1 DEF TypeInv, TypeOK
<1>3. ASSUME NEW a \in Address, Accept(a)
      PROVE  LimiterInv'
  BY <1>1, <1>3, ArrivalClock, ArrivalWindow, ArrivalRate, ArrivalRetry, ArrivalHonoured
  DEF LimiterInv
<1>4. ASSUME NEW n \in Number, Proxy(n)
      PROVE  LimiterInv'
  <2>1. UNCHANGED <<booted, spent, resetAt, arrived, from, at, retryAfter>> /\ now' = now
    BY <1>1, <1>4, ProxyStep DEF processVars, limiterVars, arrivalVars
  <2>2. \A m \in Number : told[m] = "429" <=> told'[m] = "429"
    BY <1>1, <1>2, <1>4, ProxyStep
  <2> QED BY <1>1, <1>2, <2>1, <2>2, LimiterUntouched
<1>5. CASE Tick
  BY <1>1, <1>2, <1>5, LimiterUntouched
  DEF Tick, processVars, limiterVars, arrivalVars, requestVars
<1>6. CASE Restart
  BY <1>1, <1>6, LimiterRestart
<1>7. CASE UNCHANGED vars
  BY <1>1, <1>2, <1>7, LimiterUntouched
  DEF vars, processVars, limiterVars, arrivalVars, requestVars
<1> QED
  BY <1>3, <1>4, <1>5, <1>6, <1>7 DEF Next

\* Wherever an interval of the length of the window lies, a process lets through
\* fewer than two budgets of an address in it.
THEOREM RateIsBounded == Spec => []RateBound
<1>1. LimiterInv => RateBound
  BY DEF LimiterInv
<1> QED
  BY LimiterInit, LimiterNext, <1>1, PTL DEF Spec

\* Who waits as long as he was told is let in, or others of his address used up
\* the next window before.
THEOREM RetryAfterIsHonoured == Spec => []RetryAfterHonoured
<1>1. LimiterInv => RetryAfterHonoured
  BY DEF LimiterInv
<1> QED
  BY LimiterInit, LimiterNext, <1>1, PTL DEF Spec

=============================================================================
