------------------------ MODULE UserLifecycleProofs ------------------------
(***************************************************************************)
(* What the graceful shutdown of user-service keeps, for every set of      *)
(* requests, persons, emails and faults, checked by TLAPS.                 *)
(***************************************************************************)
EXTENDS UserLifecycle, UserServiceProofs

----------------------------------------------------------------------------
(* The steps server.js adds to those of the handlers.                      *)

\* A step that leaves the handlers alone.
Standing == UNCHANGED vars

\* A step that ends handlers: the broker may get what they were sending.
LEMMA EndKeeps ==
  ASSUME TypeInv, ExistInv, End, NoFault \/ Fault("crash")
  PROVE  TypeInv' /\ ExistInv'
<1>1. faultsLeft' \in 0..MaxFaults /\ faulted' \subseteq Faults
  BY FaultTypes DEF TypeInv
<1>2. /\ UNCHANGED <<asked, users, stream, tokens>>
      /\ \A r \in Request : pc'[r] \in {pc[r], "done"}
      /\ \A r \in Request : pc[r] = "new" => pc'[r] = "new"
  BY DEF End, InFlight, TypeInv, TypeOK
<1>3. \A event \in limbo' :
        event \in limbo \/ \E q \in Request : pc[q] = "publish" /\ event = EventOf(q)
  BY DEF End
<1>4. limbo' \subseteq EventRecord
  BY <1>3, EventTyped DEF TypeInv, TypeOK
<1>5. /\ pc' \in [Request -> {"new", "lookup", "write", "publish", "done"}]
      /\ told' \in [Request -> Statuses \union {"none"}]
  BY DEF End, TypeInv, TypeOK, Statuses
<1>6. AskInv'
  <2>1. \A r \in Request : pc'[r] # "new" => pc[r] # "new"
    BY <1>2
  <2>2. \A r \in Request : pc'[r] \in {"write", "publish"} => pc[r] = pc'[r]
    BY <1>2
  <2> QED BY <1>2, <2>1, <2>2 DEF TypeInv, AskInv
<1>7. TypeInv'
  BY <1>1, <1>2, <1>4, <1>5, <1>6 DEF TypeInv, TypeOK
<1>8. \A q \in Request : pc[q] = "publish" => Exists(EventOf(q).user)
  BY EventTyped DEF ExistInv
<1>9. \A q \in Request : pc'[q] = "publish" => pc[q] = "publish"
  BY <1>2
<1>10. ExistInv'
  BY <1>2, <1>3, <1>8, <1>9 DEF ExistInv, EventsMeanAccounts, Exists, Account
<1> QED BY <1>7, <1>10

\* What a call that is cut short may leave behind.
LEMMA CutShortUsers ==
  ASSUME TypeInv, ExistInv, NEW r \in Request, CutShort(r)
  PROVE  /\ users' \in [Request -> Email \union {NoEmail}]
         /\ \A u \in Request : Exists(u) => Exists(u)'
         /\ \A u \in Request : Exists(u)' /\ ~Exists(u) => u = r
<1>1. CASE users' = users
  BY <1>1 DEF TypeInv, TypeOK, Exists
<1>2. CASE pc[r] = "write" /\ users' = Written(r)
  <2>1. /\ Written(r) \in [Request -> Email \union {NoEmail}]
        /\ asked[r] \in Registration \union Patch /\ Account(r) \in Request
    BY <1>2, WrittenTyped, AskedFields DEF TypeInv, AskInv
  <2>2. \A u \in Request : Exists(u) => Exists(u)'
    BY <1>2, <2>1 DEF Written, Exists, TypeInv, TypeOK
  <2>3. ASSUME NEW u \in Request, Exists(u)', ~Exists(u)
        PROVE  u = r
    <3>1. u = Account(r)
      BY <1>2, <2>1, <2>3 DEF Written, Exists, TypeInv, TypeOK
    <3>2. asked[r] \notin Patch
      BY <2>3, <3>1 DEF ExistInv, Account, Patch
    <3> QED BY <2>1, <3>1, <3>2 DEF Account, Registration
  <2> QED BY <1>2, <2>1, <2>2, <2>3
<1> QED BY <1>1, <1>2 DEF CutShort

LEMMA CutShortKeeps ==
  ASSUME TypeInv, ExistInv, NEW r \in Request, CutShort(r)
  PROVE  TypeInv' /\ ExistInv'
<1>1. /\ InFlight(r) /\ asked[r] # Nothing
      /\ faultsLeft' \in 0..MaxFaults /\ faulted' \subseteq Faults
      /\ UNCHANGED stream
  BY FaultTypes DEF CutShort, InFlight, TypeInv, AskInv
<1>2. /\ users' \in [Request -> Email \union {NoEmail}]
      /\ \A u \in Request : Exists(u) => Exists(u)'
  BY CutShortUsers
<1>3. limbo' \subseteq EventRecord /\ \A event \in limbo' : Exists(event.user)'
  <2>1. \A event \in limbo : event \in EventRecord /\ event.user \in Request /\ Exists(event.user)
    BY DEF TypeInv, TypeOK, EventRecord, ExistInv, EventsMeanAccounts, Exists
  <2>2. pc[r] = "publish" =>
          /\ EventOf(r) \in EventRecord /\ EventOf(r).user \in Request
          /\ Exists(EventOf(r).user)
    BY <1>1, EventTyped, AskedFields DEF ExistInv
  <2>3. \A event \in limbo' : event \in limbo \/ (pc[r] = "publish" /\ event = EventOf(r))
    BY DEF CutShort
  <2> QED BY <1>2, <2>1, <2>2, <2>3
<1>4. PICK status \in Statuses, token \in SUBSET Request :
        Answer(r, status, token) /\ \A u \in token : Exists(u)
  <2>1. "200" \in Statuses /\ "201" \in Statuses /\ "500" \in Statuses /\ {} \in SUBSET Request
    BY DEF Statuses
  <2>2. CASE pc[r] = "publish"
    <3>1. asked[r].op = "register" => Exists(r)
      BY <2>2 DEF ExistInv, Account
    <3>2. Succeed(r) /\ {r} \in SUBSET Request
      BY <2>2 DEF CutShort
    <3> QED BY <2>1, <3>1, <3>2 DEF Succeed
  <2>3. CASE pc[r] # "publish"
    <3>1. Answer(r, "500", {})
      BY <2>3 DEF CutShort
    <3> QED BY <2>1, <3>1
  <2> QED BY <2>2, <2>3
<1>5. TypeInv'
  BY <1>1, <1>2, <1>3, <1>4, AnswerTypes DEF TypeInv, TypeOK
<1>6. EventsMeanAccounts'
  <2>1. \A i \in 1..Len(stream) : stream[i].user \in Request
    BY ElementOfSeq DEF TypeInv, TypeOK, EventRecord
  <2> QED BY <1>1, <1>2, <1>3, <2>1 DEF ExistInv, EventsMeanAccounts, Exists
<1>7. ExistInv'
  BY <1>1, <1>2, <1>4, <1>6, ExistAnswer
<1> QED BY <1>5, <1>7

\* Every step is one of the handlers, or one of those that server.js adds.
LEMMA LifeSteps ==
  ASSUME [LifeNext]_lifeVars
  PROVE  \/ \E r \in Request : Arrive(r) /\ stage = "up" /\ stage' = stage
         \/ \E r \in Request : (Handle(r) \/ Fail(r)) /\ stage' = stage
         \/ \E r \in Request : CutShort(r)
         \/ \E event \in limbo : StoreLate(event) /\ stage' = stage
         \/ End /\ (NoFault \/ Fault("crash"))
         \/ Standing /\ (stage' = "draining" /\ stage # "draining" =>
                            ~\E r \in Request : Connected(r))
BY DEF LifeNext, lifeVars, Accept, Run, RunFails, Signal, HttpClosed, Exit, ProcessCrash, Start,
       Standing

LEMMA LifeTypes == TypeInv /\ ExistInv /\ [LifeNext]_lifeVars => TypeInv' /\ ExistInv'
<1> SUFFICES ASSUME TypeInv, ExistInv, [LifeNext]_lifeVars PROVE TypeInv' /\ ExistInv'
  OBVIOUS
<1>1. CASE [Next]_vars
  BY <1>1, TypeStep, ExistStep
<1>2. ASSUME NEW r \in Request, CutShort(r) PROVE TypeInv' /\ ExistInv'
  BY <1>2, CutShortKeeps
<1>3. CASE End /\ (NoFault \/ Fault("crash"))
  BY <1>3, EndKeeps
<1> QED BY <1>1, <1>2, <1>3, LifeSteps DEF Next, Standing

----------------------------------------------------------------------------
(* Announced, or given up by the gateway.                                  *)

\* An account is announced, or its registration was given up, or is about to
\* announce it.
SpokenFor(u) ==
    Announced(u) \/ told[u] = "503" \/ (pc[u] = "publish" /\ asked[u] \in Registration)

\* Nobody is told anything before he asks; a handler that runs has not answered;
\* and the handlers that are left when the connections have ended are those of
\* requests the gateway gave up.
ToldInv ==
    /\ \A r \in Request : pc[r] = "new" => told[r] = "none"
    /\ \A r \in Request : InFlight(r) => told[r] \in {"none", "503"}
    /\ stage = "draining" => \A r \in Request : InFlight(r) => told[r] = "503"

SpokenInv == Without(Separating) => \A u \in Request : Exists(u) => SpokenFor(u)

LifeInv == TypeInv /\ ExistInv /\ ToldInv /\ SpokenInv

\* What a step of the handler of r does to the answers.
LEMMA HandlerTells ==
  ASSUME TypeInv, NEW r \in Request, Handle(r) \/ Fail(r) \/ CutShort(r)
  PROVE  /\ InFlight(r) /\ pc'[r] # "new" /\ asked' = asked
         /\ \A q \in Request \ {r} : pc'[q] = pc[q] /\ told'[q] = told[q]
         /\ told[r] # "none" => told'[r] = told[r]
         /\ pc'[r] # "done" => told'[r] \in {told[r], "503"}
<1> USE DEF Answer, Succeed, InFlight, TypeInv, TypeOK
<1>1. CASE Handle(r)
  BY <1>1 DEF Handle, LookupClash, LookupFree, Login, Write, WriteClash, Publish
<1>2. CASE Fail(r)
  BY <1>2 DEF Fail, GatewayTimesOut, LookupFails, WriteFails, WriteTimesOut, PublishFails,
              PublishTimesOut
<1>3. CASE CutShort(r)
  BY <1>3 DEF CutShort
<1> QED BY <1>1, <1>2, <1>3

LEMMA ToldStep == LifeInv /\ [LifeNext]_lifeVars => ToldInv'
<1> SUFFICES ASSUME LifeInv, [LifeNext]_lifeVars PROVE ToldInv'
  OBVIOUS
<1> USE DEF LifeInv
<1>0. /\ pc \in [Request -> {"new", "lookup", "write", "publish", "done"}]
      /\ told \in [Request -> Statuses \union {"none"}]
  BY DEF TypeInv, TypeOK
<1>1. ASSUME NEW r \in Request, Arrive(r), stage = "up", stage' = stage PROVE ToldInv'
  <2>1. /\ told' = told /\ pc[r] = "new"
        /\ \E step \in {"lookup", "write"} : pc' = [pc EXCEPT ![r] = step]
    BY <1>1 DEF Arrive, SendRegister, SendLogin, SendUpdate, Send
  <2> QED BY <1>0, <1>1, <2>1 DEF ToldInv, InFlight
<1>2. ASSUME NEW r \in Request, Handle(r) \/ Fail(r) \/ CutShort(r), stage' = stage
      PROVE  ToldInv'
  <2>1. /\ InFlight(r) /\ pc'[r] # "new"
        /\ \A q \in Request \ {r} : pc'[q] = pc[q] /\ told'[q] = told[q]
        /\ told[r] # "none" => told'[r] = told[r]
        /\ pc'[r] # "done" => told'[r] \in {told[r], "503"}
    BY <1>2, HandlerTells
  <2>2. /\ InFlight(r)' => told'[r] \in {"none", "503"}
        /\ stage' = "draining" => (InFlight(r)' => told'[r] = "503")
    BY <1>2, <2>1 DEF ToldInv, InFlight
  <2> QED BY <1>2, <2>1, <2>2 DEF ToldInv, InFlight
<1>3. ASSUME NEW event \in limbo, StoreLate(event), stage' = stage PROVE ToldInv'
  BY <1>3 DEF StoreLate, ToldInv, InFlight
<1>4. CASE End
  BY <1>0, <1>4 DEF End, ToldInv, InFlight, Connected
<1>5. CASE Standing /\ (stage' = "draining" /\ stage # "draining" =>
                          ~\E r \in Request : Connected(r))
  <2>1. UNCHANGED <<pc, told>>
    BY <1>5 DEF Standing, vars
  <2>2. stage' = "draining" /\ stage # "draining" =>
          \A r \in Request : InFlight(r) => told[r] # "none"
    BY <1>5 DEF Connected, InFlight
  <2> QED BY <2>1, <2>2 DEF ToldInv, InFlight
<1>6. \A r \in Request : CutShort(r) => stage' = stage
  BY DEF CutShort
<1> QED BY <1>1, <1>2, <1>3, <1>4, <1>5, <1>6, LifeSteps

\* A step that creates no account and keeps what speaks for each.
LEMMA SpokenKept ==
  ASSUME SpokenInv, faulted \subseteq faulted', users' = users,
         Without(Separating)' => \A u \in Request : SpokenFor(u) => SpokenFor(u)'
  PROVE  SpokenInv'
BY DEF SpokenInv, Without, Exists

LEMMA SpokenHandle ==
  ASSUME LifeInv, NEW r \in Request, Handle(r) \/ Fail(r)
  PROVE  SpokenInv'
<1> USE DEF LifeInv
<1>0. /\ pc \in [Request -> {"new", "lookup", "write", "publish", "done"}]
      /\ asked' = asked
      /\ \A q \in Request \ {r} : pc'[q] = pc[q] /\ told'[q] = told[q]
      /\ \A q \in Request : told[q] = "503" => told'[q] = "503"
  BY HandlerTells DEF TypeInv, TypeOK
<1>1. CASE LookupClash(r) \/ LookupFree(r) \/ Login(r) \/ LookupFails(r) \/ WriteClash(r)
             \/ WriteFails(r) \/ GatewayTimesOut(r)
  <2>1. /\ users' = users /\ stream' = stream /\ faulted \subseteq faulted'
        /\ pc[r] = "publish" => pc'[r] = "publish"
    BY <1>1 DEF LookupClash, LookupFree, Login, LookupFails, WriteClash, WriteFails,
                GatewayTimesOut, Fault, NoFault, faultVars
  <2>2. \A u \in Request : SpokenFor(u) => SpokenFor(u)'
    BY <1>0, <2>1 DEF SpokenFor, Announced
  <2> QED BY <2>1, <2>2, SpokenKept
<1>2. CASE Write(r)
  <2>1. /\ pc[r] = "write" /\ users' = Written(r) /\ UNCHANGED <<stream, faulted>>
        /\ pc'[r] = "publish"
    BY <1>2 DEF Write, NoFault, faultVars, TypeInv, TypeOK
  <2>2. asked[r] \in Registration \union Patch /\ Account(r) \in Request
    BY <2>1, AskedFields DEF AskInv, TypeInv
  <2>3. ASSUME NEW u \in Request, Exists(u)', ~Exists(u)
        PROVE  pc'[u] = "publish" /\ asked'[u] \in Registration
    <3>1. u = Account(r)
      BY <2>1, <2>2, <2>3 DEF Written, Exists, TypeInv, TypeOK
    <3>2. asked[r] \notin Patch
      BY <2>3, <3>1 DEF ExistInv, Account, Patch
    <3>3. asked[r] \in Registration /\ u = r
      BY <2>2, <3>1, <3>2 DEF Account, Registration
    <3> QED BY <1>0, <2>1, <3>3
  <2>4. \A u \in Request : SpokenFor(u) => SpokenFor(u)'
    BY <1>0, <2>1 DEF SpokenFor, Announced
  <2>5. Without(Separating)' => Without(Separating)
    BY <2>1 DEF Without
  <2> QED BY <2>3, <2>4, <2>5 DEF SpokenInv, SpokenFor
<1>3. CASE WriteTimesOut(r) \/ PublishFails(r) \/ PublishTimesOut(r)
  BY <1>3 DEF WriteTimesOut, PublishFails, PublishTimesOut, Fault, Without, Separating, SpokenInv
<1>4. CASE Publish(r)
  <2>1. /\ pc[r] = "publish" /\ stream' = Append(stream, EventOf(r))
        /\ users' = users /\ faulted \subseteq faulted'
    BY <1>4 DEF Publish, NoFault, faultVars
  <2>2. EventOf(r) \in EventRecord
    BY <2>1, EventTyped
  <2>3. \A u : Announced(u) => Announced(u)'
    BY <2>1, <2>2, AppendAnnounces
  <2>4. ASSUME asked[r] \in Registration PROVE Announced(r)'
    <3>1. EventOf(r).type = "created" /\ EventOf(r).user = r
      BY <2>4 DEF EventOf, Account, Registration
    <3> QED BY <2>1, <2>2, <3>1, AppendAnnounces
  <2>5. \A u \in Request : SpokenFor(u) => SpokenFor(u)'
    BY <1>0, <2>3, <2>4 DEF SpokenFor
  <2> QED BY <2>1, <2>5, SpokenKept
<1> QED BY <1>1, <1>2, <1>3, <1>4 DEF Handle, Fail

LEMMA SpokenStep == LifeInv /\ [LifeNext]_lifeVars => SpokenInv'
<1> SUFFICES ASSUME LifeInv, [LifeNext]_lifeVars PROVE SpokenInv'
  OBVIOUS
<1> USE DEF LifeInv
<1>1. ASSUME NEW r \in Request, Arrive(r) PROVE SpokenInv'
  <2>1. /\ UNCHANGED <<users, stream, told>> /\ pc[r] = "new" /\ faulted \subseteq faulted'
        /\ \A u \in Request \ {r} : pc'[u] = pc[u] /\ asked'[u] = asked[u]
    BY <1>1 DEF Arrive, SendRegister, SendLogin, SendUpdate, Send, Fault, NoFault, faultVars,
                TypeInv, TypeOK
  <2>2. \A u \in Request : SpokenFor(u) => SpokenFor(u)'
    BY <2>1 DEF SpokenFor, Announced
  <2> QED BY <2>1, <2>2, SpokenKept
<1>2. ASSUME NEW r \in Request, CutShort(r) PROVE SpokenInv'
  <2>1. told[r] = "503" /\ told'[r] = "503"
    BY <1>2, HandlerTells DEF CutShort, ToldInv
  <2>2. /\ asked' = asked /\ stream' = stream /\ faulted' = faulted
        /\ \A q \in Request \ {r} : pc'[q] = pc[q] /\ told'[q] = told[q]
    BY <1>2, HandlerTells DEF CutShort, NoFault, faultVars
  <2>3. \A u \in Request : SpokenFor(u) => SpokenFor(u)'
    BY <2>1, <2>2 DEF SpokenFor, Announced
  <2>4. \A u \in Request : Exists(u)' /\ ~Exists(u) => u = r
    BY <1>2, CutShortUsers
  <2> QED BY <2>1, <2>2, <2>3, <2>4 DEF SpokenInv, SpokenFor, Without
<1>3. ASSUME NEW event \in limbo, StoreLate(event) PROVE SpokenInv'
  <2>1. event \in EventRecord /\ stream' = Append(stream, event)
        /\ UNCHANGED <<users, pc, asked, told, faulted>>
    BY <1>3 DEF StoreLate, TypeInv, TypeOK, NoFault, faultVars
  <2>2. \A u \in Request : SpokenFor(u) => SpokenFor(u)'
    BY <2>1, AppendAnnounces DEF SpokenFor
  <2> QED BY <2>1, <2>2, SpokenKept
<1>4. CASE End /\ (NoFault \/ Fault("crash"))
  <2>1. UNCHANGED <<asked, users, stream>> /\ faulted \subseteq faulted'
    BY <1>4 DEF End, NoFault, Fault, faultVars
  <2>2. ASSUME NEW u \in Request, pc[u] = "publish" \/ told[u] = "503"
        PROVE  told'[u] = "503"
    BY <1>4, <2>2 DEF End, Connected, ToldInv, InFlight, TypeInv, TypeOK
  <2>3. \A u \in Request : SpokenFor(u) => SpokenFor(u)'
    BY <2>1, <2>2 DEF SpokenFor, Announced
  <2> QED BY <2>1, <2>3, SpokenKept
<1>5. CASE Standing
  BY <1>5 DEF Standing, vars, faultVars, SpokenInv, SpokenFor, Without, Exists, Announced
<1> QED BY <1>1, <1>2, <1>3, <1>4, <1>5, SpokenHandle, LifeSteps

\* Neither a shutdown nor a handler that outlives its connection loses an
\* announcement its owner counts on: an account that was never announced is one
\* whose registration the gateway had given up.
THEOREM NobodyCutOff == SafeLife => []AnnouncedOrAbandoned
<1>1. LifeInit => LifeInv
  BY TypeInit DEF LifeInit, LifeInv, Init, ExistInv, EventsMeanAccounts, Patch, Nothing, Exists,
     ToldInv, SpokenInv, InFlight
<1>2. LifeInv /\ [LifeNext]_lifeVars => LifeInv'
  BY LifeTypes, ToldStep, SpokenStep DEF LifeInv
<1>3. LifeInv => AnnouncedOrAbandoned
  BY DEF LifeInv, SpokenInv, SpokenFor, AnnouncedOrAbandoned, InFlight, Exists
<1> QED BY <1>1, <1>2, <1>3, PTL DEF SafeLife

----------------------------------------------------------------------------
(* What the handlers guarantee without conditions outlives the process.    *)

LEMMA LifeUnique ==
  TypeInv /\ OneAccountPerEmail /\ [LifeNext]_lifeVars => OneAccountPerEmail'
<1> SUFFICES ASSUME TypeInv, OneAccountPerEmail, [LifeNext]_lifeVars PROVE OneAccountPerEmail'
  OBVIOUS
<1>1. CASE [Next]_vars
  BY <1>1, OneStep
<1>2. ASSUME NEW r \in Request, CutShort(r) PROVE OneAccountPerEmail'
  <2>1. CASE users' = users
    BY <2>1 DEF OneAccountPerEmail
  <2>2. CASE pc[r] = "write" /\ ~Clash(r) /\ users' = Written(r)
    BY <2>2, WriteKeepsUnique
  <2> QED BY <1>2, <2>1, <2>2 DEF CutShort
<1>3. CASE End
  BY <1>3 DEF End, OneAccountPerEmail
<1> QED BY <1>1, <1>2, <1>3, LifeSteps DEF Next, Standing

\* However often the process is stopped, signalled twice or killed, with
\* handlers that outlive the shutdown of their connections: emails stay unique
\* and no event is about an account that does not exist (user-service
\* server.js:32-44, user.service.js:25-30).
THEOREM ExitsKeepAccounts == SafeLife => [](OneAccountPerEmail /\ EventsMeanAccounts)
<1>1. LifeInit => TypeInv /\ ExistInv /\ OneAccountPerEmail
  BY TypeInit DEF LifeInit, Init, ExistInv, EventsMeanAccounts, Patch, Nothing, OneAccountPerEmail
<1>2. ExistInv => EventsMeanAccounts
  BY DEF ExistInv
<1> QED BY <1>1, <1>2, LifeTypes, LifeUnique, PTL DEF SafeLife

=============================================================================
