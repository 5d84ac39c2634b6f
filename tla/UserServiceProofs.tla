------------------------- MODULE UserServiceProofs -------------------------
(***************************************************************************)
(* Theorems about UserService for every set of requests, persons, emails   *)
(* and faults, checked by TLAPS.                                           *)
(***************************************************************************)
EXTENDS UserService, SequenceTheorems, TLAPS

----------------------------------------------------------------------------
(* Types.                                                                  *)

\* A request that is on its way asks for something, and only registrations and
\* patches write.
AskInv ==
    \A r \in Request :
        /\ pc[r] # "new" => asked[r] # Nothing
        /\ pc[r] \in {"write", "publish"} => asked[r] \in Registration \union Patch

TypeInv == TypeOK /\ AskInv

LEMMA TypeInit == Init => TypeInv
BY BoundsAssumption, EmptySeq DEF Init, TypeInv, TypeOK, AskInv

\* The fault budget stays within its types.
LEMMA FaultTypes ==
  ASSUME TypeOK, NEW kind, Fault(kind) \/ NoFault
  PROVE  faultsLeft' \in 0..MaxFaults /\ faulted' \subseteq Faults
BY BoundsAssumption DEF TypeOK, Fault, NoFault, faultVars

\* Fields of a request that is on its way.
LEMMA AskedFields ==
  ASSUME TypeInv, NEW r \in Request, asked[r] # Nothing
  PROVE  /\ asked[r] \in Registration \union LoginAttempt \union Patch
         /\ asked[r].person \in Person
         /\ asked[r].email \in Email \union {NoEmail}
         /\ asked[r].op \in {"register", "login", "update"}
         /\ asked[r].op = "update" <=> asked[r] \in Patch
         /\ asked[r].op = "register" <=> asked[r] \in Registration
         /\ asked[r].op # "update" => asked[r].email \in Email
         /\ Account(r) \in Request
BY DEF TypeInv, TypeOK, Registration, LoginAttempt, Patch, Account

LEMMA EventTyped ==
  ASSUME TypeInv, NEW r \in Request, pc[r] = "publish"
  PROVE  EventOf(r) \in EventRecord /\ EventOf(r).user = Account(r)
<1>1. asked[r] # Nothing /\ asked[r] \in Registration \union Patch
  BY DEF TypeInv, AskInv
<1> QED BY <1>1, AskedFields DEF EventOf, EventRecord

LEMMA WrittenTyped ==
  ASSUME TypeInv, NEW r \in Request, pc[r] = "write"
  PROVE  Written(r) \in [Request -> Email \union {NoEmail}]
<1>1. asked[r] # Nothing
  BY DEF TypeInv, AskInv
<1> QED BY <1>1, AskedFields DEF Written, TypeInv, TypeOK

\* What an answer does to the types.
LEMMA AnswerTypes ==
  ASSUME TypeInv, NEW r \in Request, asked[r] # Nothing, NEW status \in Statuses,
         NEW token \in SUBSET Request, Answer(r, status, token)
  PROVE  /\ pc' \in [Request -> {"new", "lookup", "write", "publish", "done"}]
         /\ told' \in [Request -> Statuses \union {"none"}]
         /\ tokens' \in [Person -> SUBSET Request]
         /\ asked' = asked
         /\ AskInv'
<1>1. asked[r].person \in Person
  BY AskedFields
<1> QED BY <1>1 DEF Answer, TypeInv, TypeOK, AskInv

LEMMA SendTypes ==
  ASSUME TypeInv, NEW r \in Request,
         NEW ask \in Registration \union LoginAttempt \union Patch, Send(r, ask),
         NEW step \in {"lookup", "write"}, pc' = [pc EXCEPT ![r] = step],
         step = "write" => ask \in Patch
  PROVE  TypeInv'
<1>1. faultsLeft' \in 0..MaxFaults /\ faulted' \subseteq Faults
  BY FaultTypes DEF TypeInv, Send
<1>2. ask # Nothing
  BY DEF Registration, LoginAttempt, Patch, Nothing
<1> QED BY <1>1, <1>2 DEF Send, TypeInv, TypeOK, AskInv

LEMMA TypeArrive ==
  ASSUME TypeInv, NEW r \in Request, Arrive(r)
  PROVE  TypeInv'
<1>1. PICK p \in Person :
        \/ \E email \in Email : SendRegister(r, p, email) \/ SendLogin(r, p, email)
        \/ \E email \in Email \union {NoEmail} : SendUpdate(r, p, email)
  BY DEF Arrive
<1>2. ASSUME NEW email \in Email, SendRegister(r, p, email) PROVE TypeInv'
  BY <1>2, SendTypes DEF SendRegister, Registration
<1>3. ASSUME NEW email \in Email, SendLogin(r, p, email) PROVE TypeInv'
  BY <1>3, SendTypes DEF SendLogin, LoginAttempt
<1>4. ASSUME NEW email \in Email \union {NoEmail}, SendUpdate(r, p, email)
      PROVE  TypeInv'
  <2>1. PICK u \in tokens[p] :
          /\ Send(r, [op |-> "update", person |-> p, user |-> u, email |-> email])
          /\ pc' = [pc EXCEPT ![r] = IF email = NoEmail THEN "write" ELSE "lookup"]
    BY <1>4 DEF SendUpdate
  <2>2. u \in Request
    BY DEF TypeInv, TypeOK
  <2>3. [op |-> "update", person |-> p, user |-> u, email |-> email] \in Patch
    BY <2>2 DEF Patch
  <2> QED BY <2>1, <2>3, SendTypes
<1> QED BY <1>1, <1>2, <1>3, <1>4

LEMMA SucceedIsAnswer ==
  ASSUME NEW r \in Request, Succeed(r)
  PROVE  \E status \in Statuses, token \in SUBSET Request : Answer(r, status, token)
<1>1. "200" \in Statuses /\ "201" \in Statuses /\ {} \in SUBSET Request /\ {r} \in SUBSET Request
  BY DEF Statuses
<1> QED BY <1>1 DEF Succeed

LEMMA TypeHandle ==
  ASSUME TypeInv, NEW r \in Request, Handle(r) \/ Fail(r)
  PROVE  TypeInv'
<1> USE DEF TypeInv
<1>1. pc[r] # "new" /\ asked[r] # Nothing
  BY DEF Handle, Fail, LookupClash, LookupFree, Login, Write, WriteClash, Publish,
         GatewayTimesOut, LookupFails, WriteFails, WriteTimesOut, PublishFails,
         PublishTimesOut, InFlight, AskInv
<1>2. faultsLeft' \in 0..MaxFaults /\ faulted' \subseteq Faults
  BY FaultTypes
  DEF Handle, Fail, LookupClash, LookupFree, Login, Write, WriteClash, Publish,
      GatewayTimesOut, LookupFails, WriteFails, WriteTimesOut, PublishFails,
      PublishTimesOut
<1>3. /\ "409" \in Statuses /\ "500" \in Statuses /\ "401" \in Statuses
      /\ "200" \in Statuses /\ "503" \in Statuses
      /\ {} \in SUBSET Request /\ Matching(r) \in SUBSET Request
  BY DEF Statuses, Matching, Holders
<1>4. CASE LookupClash(r) \/ Login(r) \/ LookupFails(r) \/ WriteClash(r) \/ WriteFails(r)
  <2>1. \E status \in Statuses, token \in SUBSET Request : Answer(r, status, token)
    BY <1>3, <1>4 DEF LookupClash, Login, LookupFails, WriteClash, WriteFails
  <2>2. UNCHANGED <<users, stream, limbo>>
    BY <1>4 DEF LookupClash, Login, LookupFails, WriteClash, WriteFails
  <2> QED BY <1>1, <1>2, <2>1, <2>2, AnswerTypes DEF TypeOK
<1>5. CASE LookupFree(r)
  <2>1. asked[r] \in Registration \union Patch
    BY <1>1, <1>5, AskedFields DEF LookupFree
  <2>2. pc' = [pc EXCEPT ![r] = "write"]
        /\ UNCHANGED <<asked, users, stream, limbo, told, tokens>>
    BY <1>5 DEF LookupFree
  <2>3. AskInv'
    BY <1>1, <2>1, <2>2 DEF AskInv, TypeOK
  <2> QED BY <1>2, <2>2, <2>3 DEF TypeOK
<1>6. CASE Write(r)
  <2>1. Written(r) \in [Request -> Email \union {NoEmail}]
    BY <1>6, WrittenTyped DEF Write
  <2>2. users' = Written(r) /\ pc' = [pc EXCEPT ![r] = "publish"]
        /\ UNCHANGED <<asked, stream, limbo, told, tokens>>
    BY <1>6 DEF Write
  <2>3. AskInv'
    BY <1>1, <1>6, <2>2 DEF Write, AskInv, TypeOK
  <2> QED BY <1>2, <2>1, <2>2, <2>3 DEF TypeOK
<1>7. CASE WriteTimesOut(r)
  <2>1. Written(r) \in [Request -> Email \union {NoEmail}]
    BY <1>7, WrittenTyped DEF WriteTimesOut
  <2>2. Answer(r, "500", {}) /\ users' = Written(r) /\ UNCHANGED <<stream, limbo>>
    BY <1>7 DEF WriteTimesOut
  <2> QED BY <1>1, <1>2, <1>3, <2>1, <2>2, AnswerTypes DEF TypeOK
<1>8. CASE Publish(r) \/ PublishFails(r) \/ PublishTimesOut(r)
  <2>1. pc[r] = "publish" /\ Succeed(r) /\ UNCHANGED users
    BY <1>8 DEF Publish, PublishFails, PublishTimesOut
  <2>2. EventOf(r) \in EventRecord
    BY <2>1, EventTyped
  <2>3. stream' \in Seq(EventRecord) /\ limbo' \subseteq EventRecord
    <3>1. stream \in Seq(EventRecord) /\ limbo \subseteq EventRecord
      BY DEF TypeOK
    <3>2. Append(stream, EventOf(r)) \in Seq(EventRecord)
      BY <2>2, <3>1, AppendProperties
    <3> QED BY <1>8, <2>2, <3>1, <3>2 DEF Publish, PublishFails, PublishTimesOut
  <2>4. PICK status \in Statuses, token \in SUBSET Request : Answer(r, status, token)
    BY <2>1, SucceedIsAnswer
  <2> QED BY <1>1, <1>2, <2>1, <2>3, <2>4, AnswerTypes DEF TypeOK
<1>9. CASE GatewayTimesOut(r)
  BY <1>2, <1>3, <1>9 DEF GatewayTimesOut, TypeOK, AskInv
<1> QED BY <1>4, <1>5, <1>6, <1>7, <1>8, <1>9 DEF Handle, Fail

LEMMA TypeStep == TypeInv /\ [Next]_vars => TypeInv'
<1> SUFFICES ASSUME TypeInv, [Next]_vars PROVE TypeInv'
  OBVIOUS
<1>1. CASE UNCHANGED vars
  BY <1>1 DEF vars, faultVars, TypeInv, TypeOK, AskInv
<1>2. ASSUME NEW lost \in SUBSET Request, Crash(lost) PROVE TypeInv'
  <2>1. faultsLeft' \in 0..MaxFaults /\ faulted' \subseteq Faults
    BY <1>2, FaultTypes DEF Crash, TypeInv
  <2>2. limbo' \subseteq EventRecord
    BY <1>2, EventTyped DEF Crash, TypeInv, TypeOK
  <2>3. "503" \in Statuses
    BY DEF Statuses
  <2>4. \A r \in lost : pc[r] # "new"
    BY <1>2 DEF Crash, InFlight
  <2> QED BY <1>2, <2>1, <2>2, <2>3, <2>4 DEF Crash, TypeInv, TypeOK, AskInv
<1>3. ASSUME NEW event \in limbo, StoreLate(event) PROVE TypeInv'
  <2>1. stream' \in Seq(EventRecord) /\ limbo' \subseteq EventRecord
    BY <1>3, AppendProperties DEF StoreLate, TypeInv, TypeOK
  <2> QED BY <1>3, <2>1 DEF StoreLate, NoFault, faultVars, TypeInv, TypeOK, AskInv
<1> QED BY <1>1, <1>2, <1>3, TypeArrive, TypeHandle DEF Next

\* Every variable stays within its type.
THEOREM TypeCorrect == SafeSpec => []TypeOK
<1>1. TypeInv => TypeOK
  BY DEF TypeInv
<1> QED BY <1>1, TypeInit, TypeStep, PTL DEF SafeSpec

----------------------------------------------------------------------------
(* One account per email.                                                  *)

\* Accounts change only by a write the unique index lets through.
LEMMA UsersChange ==
  ASSUME [Next]_vars
  PROVE  \/ UNCHANGED users
         \/ \E r \in Request : pc[r] = "write" /\ ~Clash(r) /\ users' = Written(r)
<1>1. ASSUME NEW r \in Request, Arrive(r) PROVE UNCHANGED users
  BY <1>1 DEF Arrive, SendRegister, SendLogin, SendUpdate, Send
<1>2. ASSUME NEW r \in Request, Handle(r) \/ Fail(r)
      PROVE  UNCHANGED users \/ (pc[r] = "write" /\ ~Clash(r) /\ users' = Written(r))
  BY <1>2 DEF Handle, Fail, LookupClash, LookupFree, Login, Write, WriteClash, Publish,
              GatewayTimesOut, LookupFails, WriteFails, WriteTimesOut, PublishFails,
              PublishTimesOut
<1> QED BY <1>1, <1>2 DEF Next, vars, Crash, StoreLate

\* The index admits one holder.
LEMMA WriteKeepsUnique ==
  ASSUME TypeInv, OneAccountPerEmail, NEW r \in Request, pc[r] = "write", ~Clash(r),
         users' = Written(r)
  PROVE  OneAccountPerEmail'
<1>1. CASE asked[r].email = NoEmail
  BY <1>1 DEF Written, OneAccountPerEmail
<1>2. CASE asked[r].email # NoEmail
  <2>1. Account(r) \in Request /\ users \in [Request -> Email \union {NoEmail}]
    BY AskedFields DEF TypeInv, TypeOK, AskInv
  <2>2. users' = [users EXCEPT ![Account(r)] = asked[r].email]
    BY <1>2 DEF Written
  <2>3. \A u \in Request \ {Account(r)} : users[u] # asked[r].email
    BY <1>2 DEF Clash, Holders
  <2> QED BY <2>1, <2>2, <2>3 DEF OneAccountPerEmail
<1> QED BY <1>1, <1>2

LEMMA OneStep ==
  TypeInv /\ OneAccountPerEmail /\ [Next]_vars => OneAccountPerEmail'
<1> SUFFICES ASSUME TypeInv, OneAccountPerEmail, [Next]_vars PROVE OneAccountPerEmail'
  OBVIOUS
<1>1. CASE UNCHANGED users
  BY <1>1 DEF OneAccountPerEmail
<1> QED BY <1>1, UsersChange, WriteKeepsUnique

\* Emails are unique whatever fails and however requests interleave.
THEOREM EmailsUnique == SafeSpec => []OneAccountPerEmail
<1>1. Init => OneAccountPerEmail
  BY DEF Init, OneAccountPerEmail
<1> QED BY <1>1, TypeInit, TypeStep, OneStep, PTL DEF SafeSpec

----------------------------------------------------------------------------
(* Events, tokens and patches are about accounts that exist.               *)

Exists(u) == users[u] # NoEmail

ExistInv ==
    /\ EventsMeanAccounts
    /\ \A p \in Person : \A u \in tokens[p] : Exists(u)
    /\ \A r \in Request : asked[r] \in Patch => Exists(asked[r].user)
    /\ \A r \in Request : pc[r] = "publish" => Exists(Account(r))

\* Accounts are never deleted.
LEMMA AccountsStay ==
  ASSUME TypeInv, [Next]_vars, NEW u \in Request, Exists(u)
  PROVE  Exists(u)'
<1>1. ASSUME NEW r \in Request, pc[r] = "write", users' = Written(r) PROVE Exists(u)'
  <2>1. Account(r) \in Request /\ users \in [Request -> Email \union {NoEmail}]
    BY <1>1, AskedFields DEF TypeInv, TypeOK, AskInv
  <2> QED BY <1>1, <2>1 DEF Written, Exists
<1> QED BY <1>1, UsersChange DEF Exists

\* The account of a request does not change once it is sent.
LEMMA AccountFixed ==
  ASSUME NEW r \in Request, asked'[r] = asked[r]
  PROVE  Account(r)' = Account(r) /\ EventOf(r)' = EventOf(r)
BY DEF Account, EventOf

\* What a step of the stream adds.
LEMMA StreamGrows ==
  ASSUME TypeInv, NEW m \in EventRecord, Exists(m.user), EventsMeanAccounts,
         stream' = Append(stream, m), UNCHANGED users
  PROVE  \A i \in 1..Len(stream') : users[stream'[i].user] # NoEmail
<1>1. stream \in Seq(EventRecord)
  BY DEF TypeInv, TypeOK
<1>2. /\ Len(stream) \in Nat /\ Len(stream') = Len(stream) + 1
      /\ \A i \in 1..Len(stream) : stream'[i] = stream[i]
      /\ stream'[Len(stream) + 1] = m
  BY <1>1, AppendProperties, LenProperties
<1> QED BY <1>2 DEF EventsMeanAccounts, Exists

LEMMA ExistArrive ==
  ASSUME TypeInv, ExistInv, NEW r \in Request, Arrive(r)
  PROVE  ExistInv'
<1>1. PICK ask \in Registration \union LoginAttempt \union Patch :
        /\ Send(r, ask) /\ (ask \in Patch => Exists(ask.user))
        /\ \E step \in {"lookup", "write"} : pc' = [pc EXCEPT ![r] = step]
  <2>1. ASSUME NEW p \in Person, NEW email \in Email, SendRegister(r, p, email)
        PROVE  [op |-> "register", person |-> p, email |-> email] \in Registration
               /\ [op |-> "register", person |-> p, email |-> email] \notin Patch
    BY DEF Registration, Patch
  <2>2. ASSUME NEW p \in Person, NEW email \in Email, SendLogin(r, p, email)
        PROVE  [op |-> "login", person |-> p, email |-> email] \in LoginAttempt
               /\ [op |-> "login", person |-> p, email |-> email] \notin Patch
    BY DEF LoginAttempt, Patch
  <2>3. ASSUME NEW p \in Person, NEW email \in Email \union {NoEmail}, NEW u \in tokens[p]
        PROVE  [op |-> "update", person |-> p, user |-> u, email |-> email] \in Patch
               /\ Exists(u)
    BY DEF Patch, ExistInv, TypeInv, TypeOK
  <2> QED BY <2>1, <2>2, <2>3 DEF Arrive, SendRegister, SendLogin, SendUpdate
<1>2. UNCHANGED <<users, stream, limbo, tokens>>
  BY <1>1 DEF Send
<1>3. \A q \in Request \ {r} : asked'[q] = asked[q] /\ pc'[q] = pc[q]
  BY <1>1 DEF Send, TypeInv, TypeOK
<1>4. asked'[r] = ask /\ pc'[r] # "publish"
  BY <1>1 DEF Send, TypeInv, TypeOK
<1>5. \A q \in Request \ {r} : Account(q)' = Account(q)
  BY <1>3 DEF Account
<1> QED BY <1>1, <1>2, <1>3, <1>4, <1>5 DEF ExistInv, EventsMeanAccounts, Exists

\* An answer hands out tokens of accounts that exist.
LEMMA ExistAnswer ==
  ASSUME TypeInv, ExistInv, NEW r \in Request, asked[r] # Nothing, NEW status,
         NEW token \in SUBSET Request, Answer(r, status, token),
         \A u \in token : Exists(u), \A u \in Request : Exists(u) => Exists(u)',
         EventsMeanAccounts'
  PROVE  ExistInv'
<1>1. asked' = asked /\ \A q \in Request : pc'[q] = "publish" => pc[q] = "publish"
  BY DEF Answer, TypeInv, TypeOK
<1>2. \A p \in Person : \A u \in tokens'[p] : Exists(u) /\ u \in Request
  BY AskedFields DEF Answer, TypeInv, TypeOK, ExistInv
<1>3. \A q \in Request : Account(q)' = Account(q)
  BY <1>1 DEF Account
<1>4. \A q \in Request : pc[q] = "publish" => Account(q) \in Request
  BY AskedFields DEF TypeInv, AskInv
<1>5. \A q \in Request : asked[q] \in Patch => asked[q].user \in Request
  BY DEF Patch
<1> QED BY <1>1, <1>2, <1>3, <1>4, <1>5 DEF ExistInv

LEMMA ExistHandle ==
  ASSUME TypeInv, ExistInv, NEW r \in Request, Handle(r) \/ Fail(r),
         \A u \in Request : Exists(u) => Exists(u)'
  PROVE  ExistInv'
<1>1. pc[r] # "new" /\ asked[r] # Nothing
  BY DEF Handle, Fail, LookupClash, LookupFree, Login, Write, WriteClash, Publish,
         GatewayTimesOut, LookupFails, WriteFails, WriteTimesOut, PublishFails,
         PublishTimesOut, InFlight, AskInv, TypeInv
<1>2. CASE LookupClash(r) \/ Login(r) \/ LookupFails(r) \/ WriteClash(r) \/ WriteFails(r)
  <2>1. Matching(r) \in SUBSET Request
    BY DEF Matching, Holders
  <2>2. ASSUME asked[r].op = "login" PROVE \A u \in Matching(r) : Exists(u)
    BY <1>1, <2>2, AskedFields, EmailAssumption DEF Matching, Holders, Exists
  <2>3. PICK status \in Statuses, token \in SUBSET Request :
          Answer(r, status, token) /\ \A u \in token : Exists(u)
    <3>1. /\ "401" \in Statuses /\ "200" \in Statuses
          /\ "409" \in Statuses /\ "500" \in Statuses
      BY DEF Statuses
    <3>2. CASE Login(r)
      <4>1. Answer(r, IF Matching(r) = {} THEN "401" ELSE "200", Matching(r))
            /\ asked[r].op = "login"
        BY <3>2 DEF Login
      <4> QED BY <2>1, <2>2, <3>1, <4>1
    <3>3. CASE LookupClash(r) \/ LookupFails(r) \/ WriteClash(r) \/ WriteFails(r)
      <4>1. Answer(r, "409", {}) \/ Answer(r, "500", {})
        BY <3>3 DEF LookupClash, LookupFails, WriteClash, WriteFails
      <4> QED BY <3>1, <4>1
    <3> QED BY <1>2, <3>2, <3>3
  <2>4. UNCHANGED <<users, stream, limbo>>
    BY <1>2 DEF LookupClash, Login, LookupFails, WriteClash, WriteFails
  <2>5. EventsMeanAccounts'
    BY <2>4 DEF ExistInv, EventsMeanAccounts
  <2> QED BY <1>1, <2>3, <2>5, ExistAnswer
<1>3. CASE LookupFree(r)
  <2>1. /\ UNCHANGED <<asked, users, stream, limbo, tokens>>
        /\ \A q \in Request : pc'[q] = "publish" => pc[q] = "publish"
    BY <1>3 DEF LookupFree, TypeInv, TypeOK
  <2> QED BY <2>1 DEF ExistInv, EventsMeanAccounts, Exists, Account
<1>4. CASE Write(r) \/ WriteTimesOut(r)
  <2>1. pc[r] = "write" /\ users' = Written(r) /\ UNCHANGED <<asked, stream, limbo>>
    BY <1>4 DEF Write, WriteTimesOut, Answer
  <2>2. Account(r) \in Request /\ asked[r] \in Registration \union Patch
    BY <1>1, <2>1, AskedFields DEF TypeInv, AskInv
  <2>3. Exists(Account(r))'
    <3>1. CASE asked[r].email # NoEmail
      BY <2>1, <2>2, <3>1 DEF Written, Exists, Account, TypeInv, TypeOK
    <3>2. CASE asked[r].email = NoEmail
      <4>1. asked[r] \in Patch /\ asked[r].op = "update"
        BY <2>2, <3>2, EmailAssumption DEF Registration, Patch
      <4>2. Exists(Account(r)) /\ Account(r)' = Account(r)
        BY <2>1, <4>1 DEF Account, ExistInv
      <4> QED BY <2>2, <4>2
    <3> QED BY <3>1, <3>2
  <2>4. EventsMeanAccounts'
    <3>1. \A i \in 1..Len(stream) : stream[i].user \in Request
      BY ElementOfSeq DEF TypeInv, TypeOK, EventRecord
    <3>2. \A event \in limbo : event.user \in Request
      BY DEF TypeInv, TypeOK, EventRecord
    <3> QED BY <2>1, <3>1, <3>2 DEF ExistInv, EventsMeanAccounts, Exists
  <2>5. CASE WriteTimesOut(r)
    <3>1. Answer(r, "500", {}) /\ {} \in SUBSET Request
      BY <2>5 DEF WriteTimesOut
    <3> QED BY <1>1, <2>4, <3>1, ExistAnswer
  <2>6. CASE Write(r)
    <3>1. UNCHANGED tokens /\ \A q \in Request \ {r} : pc'[q] = pc[q]
      BY <2>6 DEF Write, TypeInv, TypeOK
    <3>2. \A q \in Request : Account(q)' = Account(q)
      BY <2>1 DEF Account
    <3>3. \A q \in Request : pc[q] = "publish" => Account(q) \in Request
      BY AskedFields DEF TypeInv, AskInv
    <3>4. \A q \in Request : asked[q] \in Patch => asked[q].user \in Request
      BY DEF Patch
    <3>5. \A p \in Person : tokens[p] \subseteq Request
      BY DEF TypeInv, TypeOK
    <3> QED BY <2>1, <2>3, <2>4, <3>1, <3>2, <3>3, <3>4, <3>5 DEF ExistInv
  <2> QED BY <1>4, <2>5, <2>6
<1>5. CASE Publish(r) \/ PublishFails(r) \/ PublishTimesOut(r)
  <2>1. pc[r] = "publish" /\ Succeed(r) /\ UNCHANGED users
    BY <1>5 DEF Publish, PublishFails, PublishTimesOut
  <2>2. EventOf(r) \in EventRecord /\ Exists(EventOf(r).user)
    BY <2>1, EventTyped DEF ExistInv
  <2>3. EventsMeanAccounts'
    <3>1. CASE Publish(r)
      BY <2>1, <2>2, <3>1, StreamGrows DEF Publish, ExistInv, EventsMeanAccounts
    <3>2. CASE PublishFails(r) \/ PublishTimesOut(r)
      BY <2>1, <2>2, <3>2
         DEF PublishFails, PublishTimesOut, ExistInv, EventsMeanAccounts, Exists
    <3> QED BY <1>5, <3>1, <3>2
  <2>4. PICK status \in Statuses, token \in SUBSET Request :
          Answer(r, status, token) /\ \A u \in token : Exists(u)
    <3>1. asked[r].op = "register" => Exists(r)
      BY <2>1 DEF ExistInv, Account
    <3>2. "200" \in Statuses /\ "201" \in Statuses /\ {r} \in SUBSET Request
      BY DEF Statuses
    <3> QED BY <2>1, <3>1, <3>2 DEF Succeed
  <2> QED BY <1>1, <2>3, <2>4, ExistAnswer
<1>6. CASE GatewayTimesOut(r)
  BY <1>6 DEF GatewayTimesOut, ExistInv, EventsMeanAccounts, Exists, Account
<1> QED BY <1>2, <1>3, <1>4, <1>5, <1>6 DEF Handle, Fail

LEMMA ExistStep == TypeInv /\ ExistInv /\ [Next]_vars => ExistInv'
<1> SUFFICES ASSUME TypeInv, ExistInv, [Next]_vars PROVE ExistInv'
  OBVIOUS
<1>1. CASE UNCHANGED vars
  BY <1>1 DEF vars, ExistInv, EventsMeanAccounts, Exists, Account
<1>2. ASSUME NEW lost \in SUBSET Request, Crash(lost) PROVE ExistInv'
  <2>1. /\ UNCHANGED <<asked, users, stream, tokens>>
        /\ \A q \in Request : pc'[q] = "publish" => pc[q] = "publish"
    BY <1>2 DEF Crash
  <2>2. \A event \in limbo' :
          event \in limbo \/ \E q \in Request : pc[q] = "publish" /\ event = EventOf(q)
    BY <1>2 DEF Crash
  <2>3. \A q \in Request : pc[q] = "publish" => Exists(EventOf(q).user)
    BY EventTyped DEF ExistInv
  <2> QED BY <2>1, <2>2, <2>3 DEF ExistInv, EventsMeanAccounts, Exists, Account
<1>3. ASSUME NEW event \in limbo, StoreLate(event) PROVE ExistInv'
  <2>1. event \in EventRecord /\ Exists(event.user)
    BY DEF TypeInv, TypeOK, ExistInv, EventsMeanAccounts, Exists
  <2>2. EventsMeanAccounts'
    BY <1>3, <2>1, StreamGrows DEF StoreLate, ExistInv, EventsMeanAccounts
  <2> QED BY <1>3, <2>2 DEF StoreLate, ExistInv, Exists, Account
<1> QED BY <1>1, <1>2, <1>3, ExistArrive, ExistHandle, AccountsStay DEF Next

\* No event, stored or on its way, is about an account that does not exist.
THEOREM EventsAreAboutAccounts == SafeSpec => []EventsMeanAccounts
<1>1. Init => ExistInv
  BY DEF Init, ExistInv, EventsMeanAccounts, Patch, Nothing
<1>2. ExistInv => EventsMeanAccounts
  BY DEF ExistInv
<1> QED BY <1>1, <1>2, TypeInit, TypeStep, ExistStep, PTL DEF SafeSpec

----------------------------------------------------------------------------
(* Accounts are announced.                                                 *)

\* Without faults that separate database and stream, an account that is not
\* announced yet is about to be, by the registration that created it.
AnnounceInv ==
    Without(Separating) =>
        \A u \in Request : Exists(u) =>
            Announced(u) \/ (pc[u] = "publish" /\ asked[u] \in Registration)

\* Faults are not forgotten.
LEMMA FaultsStay == [Next]_vars /\ Without(Separating)' => Without(Separating)
<1> SUFFICES ASSUME [Next]_vars PROVE faulted \subseteq faulted'
  BY DEF Without
<1>1. ASSUME NEW r \in Request, Arrive(r) PROVE faulted \subseteq faulted'
  BY <1>1 DEF Arrive, SendRegister, SendLogin, SendUpdate, Send, Fault, NoFault, faultVars
<1>2. ASSUME NEW r \in Request, Handle(r) \/ Fail(r) PROVE faulted \subseteq faulted'
  BY <1>2 DEF Handle, Fail, LookupClash, LookupFree, Login, Write, WriteClash, Publish,
              GatewayTimesOut, LookupFails, WriteFails, WriteTimesOut, PublishFails,
              PublishTimesOut, Fault, NoFault, faultVars
<1> QED BY <1>1, <1>2 DEF Next, vars, faultVars, Crash, StoreLate, Fault, NoFault

\* What appending an event does to the announcements.
LEMMA AppendAnnounces ==
  ASSUME TypeInv, NEW m \in EventRecord, stream' = Append(stream, m)
  PROVE  /\ \A u : Announced(u) => Announced(u)'
         /\ m.type = "created" => Announced(m.user)'
<1>1. stream \in Seq(EventRecord)
  BY DEF TypeInv, TypeOK
<1>2. /\ Len(stream) \in Nat /\ Len(stream') = Len(stream) + 1
      /\ \A i \in 1..Len(stream) : stream'[i] = stream[i]
      /\ stream'[Len(stream) + 1] = m
  BY <1>1, AppendProperties, LenProperties
<1>3. Len(stream) + 1 \in 1..Len(stream')
  BY <1>2
<1>4. \A i \in 1..Len(stream) : i \in 1..Len(stream')
  BY <1>2
<1> QED BY <1>2, <1>3, <1>4 DEF Announced

\* An account keeps its announcement, or the prospect of one, through a step that
\* neither writes accounts nor ends its registration.
LEMMA AnnounceKept ==
  ASSUME TypeInv, AnnounceInv, [Next]_vars, UNCHANGED users,
         \A u \in Request : Announced(u) => Announced(u)',
         Without(Separating)' => \A u \in Request :
            pc[u] = "publish" /\ asked[u] \in Registration =>
                Announced(u)' \/ (pc'[u] = "publish" /\ asked'[u] = asked[u])
  PROVE  AnnounceInv'
BY FaultsStay DEF AnnounceInv, Exists

LEMMA AnnounceHandle ==
  ASSUME TypeInv, ExistInv, AnnounceInv, [Next]_vars,
         NEW r \in Request, Handle(r) \/ Fail(r)
  PROVE  AnnounceInv'
<1> USE DEF TypeInv
<1>1. CASE LookupClash(r) \/ LookupFree(r) \/ Login(r) \/ LookupFails(r) \/ WriteClash(r)
             \/ WriteFails(r) \/ GatewayTimesOut(r)
  <2>1. UNCHANGED <<users, stream, asked>>
        /\ \A u \in Request : pc[u] = "publish" => pc'[u] = "publish"
    BY <1>1 DEF LookupClash, LookupFree, Login, LookupFails, WriteClash, WriteFails,
                GatewayTimesOut, Answer, TypeOK
  <2> QED BY <2>1, AnnounceKept DEF Announced
<1>2. CASE Write(r)
  <2>1. /\ pc[r] = "write" /\ users' = Written(r) /\ UNCHANGED <<asked, stream, faulted>>
        /\ pc' = [pc EXCEPT ![r] = "publish"]
    BY <1>2 DEF Write, NoFault, faultVars
  <2>2. asked[r] \in Registration \union Patch /\ Account(r) \in Request
    BY <2>1, AskedFields DEF AskInv
  <2>3. ASSUME NEW u \in Request, Exists(u)', ~Exists(u)
        PROVE  pc'[u] = "publish" /\ asked'[u] \in Registration
    <3>1. u = Account(r)
      BY <2>1, <2>2, <2>3 DEF Written, Exists, TypeOK
    <3>2. asked[r] \notin Patch
      BY <2>3, <3>1 DEF ExistInv, Account, Patch
    <3>3. asked[r] \in Registration /\ u = r
      BY <2>2, <3>1, <3>2 DEF Account, Registration
    <3> QED BY <2>1, <3>3 DEF TypeOK
  <2>4. Without(Separating)' => Without(Separating)
    BY <2>1 DEF Without
  <2>5. \A u \in Request : Announced(u)' <=> Announced(u)
    BY <2>1 DEF Announced
  <2>6. \A u \in Request : pc[u] = "publish" => pc'[u] = "publish"
    BY <2>1 DEF TypeOK
  <2> QED BY <2>1, <2>3, <2>4, <2>5, <2>6 DEF AnnounceInv
<1>3. CASE WriteTimesOut(r) \/ PublishFails(r) \/ PublishTimesOut(r)
  <2>1. ~Without(Separating)'
    BY <1>3 DEF WriteTimesOut, PublishFails, PublishTimesOut, Fault, Without, Separating
  <2> QED BY <2>1 DEF AnnounceInv
<1>4. CASE Publish(r)
  <2>1. /\ pc[r] = "publish" /\ stream' = Append(stream, EventOf(r))
        /\ UNCHANGED <<users, asked>>
        /\ \A u \in Request \ {r} : pc'[u] = pc[u]
    BY <1>4 DEF Publish, Succeed, Answer, TypeOK
  <2>2. EventOf(r) \in EventRecord
    BY <2>1, EventTyped
  <2>3. \A u : Announced(u) => Announced(u)'
    BY <2>1, <2>2, AppendAnnounces
  <2>4. ASSUME asked[r] \in Registration PROVE Announced(r)'
    <3>1. EventOf(r).type = "created" /\ EventOf(r).user = r
      BY <2>4 DEF EventOf, Account, Registration
    <3> QED BY <2>1, <2>2, <3>1, AppendAnnounces
  <2> QED BY <2>1, <2>3, <2>4, AnnounceKept
<1> QED BY <1>1, <1>2, <1>3, <1>4 DEF Handle, Fail

LEMMA AnnounceStep == TypeInv /\ ExistInv /\ AnnounceInv /\ [Next]_vars => AnnounceInv'
<1> SUFFICES ASSUME TypeInv, ExistInv, AnnounceInv, [Next]_vars PROVE AnnounceInv'
  OBVIOUS
<1>1. CASE UNCHANGED vars
  BY <1>1 DEF vars, faultVars, AnnounceInv, Without, Exists, Announced
<1>2. ASSUME NEW r \in Request, Arrive(r) PROVE AnnounceInv'
  <2>1. /\ UNCHANGED <<users, stream>> /\ pc[r] = "new"
        /\ \A u \in Request \ {r} : pc'[u] = pc[u] /\ asked'[u] = asked[u]
    BY <1>2 DEF Arrive, SendRegister, SendLogin, SendUpdate, Send, TypeInv, TypeOK
  <2>2. \A u \in Request : pc[u] = "publish" => u # r
    BY <2>1
  <2> QED BY <2>1, <2>2, AnnounceKept DEF Announced
<1>3. ASSUME NEW lost \in SUBSET Request, Crash(lost) PROVE AnnounceInv'
  <2>1. ~Without(Separating)'
    BY <1>3 DEF Crash, Fault, Without, Separating
  <2> QED BY <2>1 DEF AnnounceInv
<1>4. ASSUME NEW event \in limbo, StoreLate(event) PROVE AnnounceInv'
  <2>1. event \in EventRecord /\ stream' = Append(stream, event)
        /\ UNCHANGED <<users, pc, asked>>
    BY <1>4 DEF StoreLate, TypeInv, TypeOK
  <2> QED BY <2>1, AppendAnnounces, AnnounceKept
<1> QED BY <1>1, <1>2, <1>3, <1>4, AnnounceHandle DEF Next

\* Whatever else fails, an account is announced unless the service crashed, a
\* write reported an error although it was made, or a publish failed.
THEOREM NoAccountUnannounced == SafeSpec => []AccountsAnnounced
<1>1. Init => ExistInv /\ AnnounceInv
  BY DEF Init, ExistInv, EventsMeanAccounts, Patch, Nothing, AnnounceInv, Exists
<1>2. AnnounceInv => AccountsAnnounced
  BY DEF AnnounceInv, AccountsAnnounced, InFlight, Exists
<1> QED BY <1>1, <1>2, TypeInit, TypeStep, ExistStep, AnnounceStep, PTL DEF SafeSpec

----------------------------------------------------------------------------
(* A client that waits for his answers cannot overtake his own events.     *)

Calm == Without(Separating \union Overtaking)

CreatedBefore(i) ==
    stream[i].type = "updated" =>
        \E j \in 1..(i - 1) : stream[j].type = "created" /\ stream[j].user = stream[i].user

\* A person has one request at a time, and is given tokens of announced accounts
\* only, so what he changes was announced.
CalmInv ==
    Calm =>
        /\ limbo = {}
        /\ \A r \in Request : pc[r] # "done" => told[r] = "none"
        /\ \A r, q \in Request :
              InFlight(r) /\ InFlight(q) /\ asked[r].person = asked[q].person => r = q
        /\ \A p \in Person : \A u \in tokens[p] : Announced(u)
        /\ \A r \in Request : asked[r] \in Patch => Announced(asked[r].user)
        /\ \A i \in 1..Len(stream) : CreatedBefore(i)

LEMMA CalmInit == Init => CalmInv
BY DEF Init, CalmInv, Patch, Nothing, InFlight

\* Faults are not forgotten.
LEMMA CalmBefore == [Next]_vars /\ Calm' => Calm
<1> SUFFICES ASSUME [Next]_vars PROVE faulted \subseteq faulted'
  BY DEF Calm, Without
<1>1. ASSUME NEW r \in Request, Arrive(r) PROVE faulted \subseteq faulted'
  BY <1>1 DEF Arrive, SendRegister, SendLogin, SendUpdate, Send, Fault, NoFault, faultVars
<1>2. ASSUME NEW r \in Request, Handle(r) \/ Fail(r) PROVE faulted \subseteq faulted'
  BY <1>2 DEF Handle, Fail, LookupClash, LookupFree, Login, Write, WriteClash, Publish,
              GatewayTimesOut, LookupFails, WriteFails, WriteTimesOut, PublishFails,
              PublishTimesOut, Fault, NoFault, faultVars
<1> QED BY <1>1, <1>2 DEF Next, vars, faultVars, Crash, StoreLate, Fault, NoFault

LEMMA CalmArrive ==
  ASSUME TypeInv, CalmInv, NEW r \in Request, Arrive(r)
  PROVE  CalmInv'
<1>1. PICK p \in Person, ask \in Registration \union LoginAttempt \union Patch :
        /\ Send(r, ask) /\ ask.person = p
        /\ ask \in Patch => ask.user \in tokens[p]
        /\ \E step \in {"lookup", "write"} : pc' = [pc EXCEPT ![r] = step]
  <2>1. ASSUME NEW p \in Person, NEW email \in Email, SendRegister(r, p, email)
        PROVE  [op |-> "register", person |-> p, email |-> email] \in Registration \ Patch
    BY DEF Registration, Patch
  <2>2. ASSUME NEW p \in Person, NEW email \in Email, SendLogin(r, p, email)
        PROVE  [op |-> "login", person |-> p, email |-> email] \in LoginAttempt \ Patch
    BY DEF LoginAttempt, Patch
  <2>3. ASSUME NEW p \in Person, NEW email \in Email \union {NoEmail}, NEW u \in tokens[p]
        PROVE  [op |-> "update", person |-> p, user |-> u, email |-> email] \in Patch
    BY DEF Patch, TypeInv, TypeOK
  <2>4. CASE \E p \in Person, email \in Email : SendRegister(r, p, email)
    BY <2>1, <2>4 DEF SendRegister
  <2>5. CASE \E p \in Person, email \in Email : SendLogin(r, p, email)
    BY <2>2, <2>5 DEF SendLogin
  <2>6. CASE \E p \in Person, email \in Email \union {NoEmail} : SendUpdate(r, p, email)
    BY <2>3, <2>6 DEF SendUpdate
  <2> QED BY <2>4, <2>5, <2>6 DEF Arrive
<1> SUFFICES ASSUME Calm' PROVE CalmInv'
  BY DEF CalmInv
<1>2. Calm
  BY <1>1 DEF Send, Calm, Without, Fault, NoFault, faultVars
<1>3. /\ UNCHANGED <<users, stream, limbo, told, tokens>> /\ pc[r] = "new"
      /\ asked'[r] = ask /\ InFlight(r)' /\ pc'[r] # "done"
      /\ \A q \in Request \ {r} :
            asked'[q] = asked[q] /\ pc'[q] = pc[q] /\ InFlight(q)' = InFlight(q)
  BY <1>1 DEF Send, InFlight, TypeInv, TypeOK
<1>4. ~\E q \in Request : InFlight(q) /\ told[q] = "none" /\ asked[q].person = p
  BY <1>1 DEF Send, Fault, Calm, Without, Overtaking
<1>5. \A q \in Request \ {r} : InFlight(q) => asked[q].person # p
  BY <1>2, <1>4 DEF CalmInv, InFlight
<1>6. \A x, y \in Request :
        InFlight(x)' /\ InFlight(y)' /\ asked'[x].person = asked'[y].person => x = y
  BY <1>1, <1>2, <1>3, <1>5 DEF CalmInv
<1>7. \A x \in Request : asked'[x] \in Patch => Announced(asked'[x].user)
  BY <1>1, <1>2, <1>3 DEF CalmInv
<1>8. \A u : Announced(u)' <=> Announced(u)
  BY <1>3 DEF Announced
<1>9. \A x \in Request : asked'[x] \in Patch => Announced(asked[x].user)'
  BY <1>3, <1>7 DEF Announced
<1> QED BY <1>2, <1>3, <1>6, <1>8, <1>9 DEF CalmInv, CreatedBefore

\* A step that ends a request or lets it go on, and tells the stream nothing.
LEMMA CalmKept ==
  ASSUME TypeInv, CalmInv, NEW r \in Request, InFlight(r), faulted \subseteq faulted',
         asked' = asked, stream' = stream, limbo' = limbo,
         \A q \in Request \ {r} : pc'[q] = pc[q] /\ told'[q] = told[q],
         pc'[r] = "done" \/ (pc'[r] # "new" /\ told'[r] = told[r]),
         Calm => \A p \in Person : \A u \in tokens'[p] : u \in tokens[p] \/ Announced(u)
  PROVE  CalmInv'
<1> SUFFICES ASSUME Calm' PROVE CalmInv'
  BY DEF CalmInv
<1>1. Calm
  BY DEF Calm, Without
<1>2. \A u : Announced(u)' <=> Announced(u)
  BY DEF Announced
<1>3. \A q \in Request : InFlight(q)' => InFlight(q)
  BY DEF InFlight
<1>4. \A p \in Person : \A u \in tokens'[p] : Announced(u)'
  BY <1>1, <1>2 DEF CalmInv
<1>5. \A q \in Request : pc'[q] # "done" => told'[q] = "none"
  BY <1>1 DEF CalmInv, InFlight
<1>6. \A q \in Request : asked'[q] \in Patch => Announced(asked[q].user)'
  BY <1>1 DEF CalmInv, Announced
<1> QED BY <1>1, <1>3, <1>4, <1>5, <1>6 DEF CalmInv, CreatedBefore

LEMMA CalmHandle ==
  ASSUME TypeInv, ExistInv, AnnounceInv, CalmInv, NEW r \in Request, Handle(r) \/ Fail(r)
  PROVE  CalmInv'
<1> USE DEF TypeInv
<1>0. InFlight(r) /\ asked[r] # Nothing /\ asked[r].person \in Person
  <2>1. InFlight(r) /\ asked[r] # Nothing
    BY DEF Handle, Fail, LookupClash, LookupFree, Login, Write, WriteClash, Publish,
           GatewayTimesOut, LookupFails, WriteFails, WriteTimesOut, PublishFails,
           PublishTimesOut, InFlight, AskInv
  <2> QED BY <2>1, AskedFields
<1>1. CASE LookupClash(r) \/ LookupFails(r) \/ WriteClash(r) \/ WriteFails(r)
             \/ LookupFree(r) \/ Write(r)
  <2>1. /\ faulted \subseteq faulted' /\ UNCHANGED <<asked, stream, limbo>>
        /\ \A q \in Request \ {r} : pc'[q] = pc[q] /\ told'[q] = told[q]
        /\ pc'[r] = "done" \/ (pc'[r] # "new" /\ told'[r] = told[r])
        /\ \A p \in Person : tokens'[p] = tokens[p]
    BY <1>0, <1>1 DEF LookupClash, LookupFails, WriteClash, WriteFails, LookupFree, Write, Answer,
                TypeOK, Fault, NoFault, faultVars
  <2> QED BY <1>0, <2>1, CalmKept
<1>2. CASE Login(r)
  <2>1. /\ asked[r].op = "login" /\ Answer(r, IF Matching(r) = {} THEN "401" ELSE "200", Matching(r))
        /\ UNCHANGED <<stream, limbo, faulted>>
    BY <1>2 DEF Login, NoFault, faultVars
  <2>2. ASSUME Calm, NEW u \in Matching(r)
        PROVE  Announced(u)
    <3>1. u \in Request /\ asked[u].person = asked[r].person /\ Exists(u)
      BY <1>0, <2>1, AskedFields, EmailAssumption DEF Matching, Holders, Owner, Exists
    <3>2. Without(Separating)
      BY <2>2 DEF Calm, Without
    <3>3. CASE pc[u] = "publish" /\ asked[u] \in Registration
      <4>1. u = r
        BY <1>0, <2>2, <3>1, <3>3 DEF CalmInv, InFlight
      <4> QED BY <2>1, <3>3, <4>1 DEF Registration
    <3> QED BY <3>1, <3>2, <3>3 DEF AnnounceInv
  <2>3. /\ asked' = asked
        /\ \A q \in Request \ {r} : pc'[q] = pc[q] /\ told'[q] = told[q]
        /\ pc'[r] = "done"
        /\ \A p \in Person : \A u \in tokens'[p] : u \in tokens[p] \/ u \in Matching(r)
    BY <1>0, <2>1 DEF Answer, TypeOK
  <2>4. faulted \subseteq faulted' /\ stream' = stream /\ limbo' = limbo
    BY <2>1
  <2> QED BY <1>0, <2>2, <2>3, <2>4, CalmKept
<1>3. CASE WriteTimesOut(r) \/ PublishFails(r) \/ PublishTimesOut(r) \/ GatewayTimesOut(r)
  BY <1>3 DEF WriteTimesOut, PublishFails, PublishTimesOut, GatewayTimesOut, Fault, Without,
              Separating, Overtaking, Calm, CalmInv
<1>4. CASE Publish(r)
  <2> SUFFICES ASSUME Calm' PROVE CalmInv'
    BY DEF CalmInv
  <2>1. /\ pc[r] = "publish" /\ stream' = Append(stream, EventOf(r))
        /\ UNCHANGED <<limbo, faulted, asked>> /\ Calm
    BY <1>4 DEF Publish, Succeed, Answer, NoFault, faultVars, Calm, Without
  <2>2. EventOf(r) \in EventRecord /\ EventOf(r).user = Account(r)
        /\ asked[r] \in Registration \union Patch
    BY <2>1, EventTyped DEF AskInv
  <2>3. \A u : Announced(u) => Announced(u)'
    BY <2>1, <2>2, AppendAnnounces
  <2>4. asked[r] \in Registration => Announced(r)'
    <3>1. asked[r] \in Registration => EventOf(r).type = "created" /\ EventOf(r).user = r
      BY DEF EventOf, Account, Registration
    <3> QED BY <2>1, <2>2, <3>1, AppendAnnounces
  <2>5. /\ pc'[r] = "done"
        /\ \A q \in Request \ {r} : pc'[q] = pc[q] /\ told'[q] = told[q]
        /\ \A p \in Person : \A u \in tokens'[p] :
              u \in tokens[p] \/ (u = r /\ asked[r].op = "register")
    BY <1>0, <1>4 DEF Publish, Succeed, Answer, TypeOK
  <2>6. \A p \in Person : \A u \in tokens'[p] : Announced(u)'
    <3>1. asked[r].op = "register" => asked[r] \in Registration
      BY <1>0, AskedFields
    <3> QED BY <2>1, <2>3, <2>4, <2>5, <3>1 DEF CalmInv
  <2>7. \A q \in Request : asked[q] \in Patch => Announced(asked[q].user)'
    <3>1. \A q \in Request : asked[q] \in Patch => Announced(asked[q].user)
      BY <2>1 DEF CalmInv
    <3>2. \A q, u : asked'[q] = asked[q] /\ u = asked[q].user /\ Announced(u)
                      => Announced(asked[q].user)'
      BY <2>1, <2>3 DEF Announced
    <3> QED BY <2>1, <3>1, <3>2
  <2>8. \A i \in 1..Len(stream') : CreatedBefore(i)'
    <3>1. stream \in Seq(EventRecord)
      BY DEF TypeOK
    <3>2. /\ Len(stream) \in Nat /\ Len(stream') = Len(stream) + 1
          /\ \A i \in 1..Len(stream) : stream'[i] = stream[i]
          /\ stream'[Len(stream) + 1] = EventOf(r)
      BY <2>1, <2>2, <3>1, AppendProperties, LenProperties
    <3>3. ASSUME NEW i \in 1..Len(stream)
          PROVE  CreatedBefore(i)'
      BY <2>1, <3>2, <3>3 DEF CalmInv, CreatedBefore
    <3>4. ASSUME EventOf(r).type = "updated"
          PROVE  \E j \in 1..Len(stream) :
                    stream[j].type = "created" /\ stream[j].user = EventOf(r).user
      <4>1. asked[r] \in Patch
        BY <2>2, <3>4 DEF EventOf, Registration
      <4>2. Announced(EventOf(r).user)
        BY <2>1, <2>2, <4>1 DEF CalmInv, Account, Patch
      <4> QED BY <4>2 DEF Announced
    <3>5. ASSUME NEW i \in 1..Len(stream'), i = Len(stream) + 1
          PROVE  CreatedBefore(i)'
      BY <3>2, <3>4, <3>5 DEF CreatedBefore
    <3> QED BY <3>2, <3>3, <3>5
  <2>9. \A q \in Request : (pc'[q] # "done" => told'[q] = "none") /\ (InFlight(q)' => InFlight(q))
    BY <2>1, <2>5 DEF CalmInv, InFlight
  <2>10. \A x, y \in Request :
          InFlight(x)' /\ InFlight(y)' /\ asked'[x].person = asked'[y].person => x = y
    BY <2>1, <2>9 DEF CalmInv
  <2>11. limbo' = {}
    BY <2>1 DEF CalmInv
  <2> QED BY <2>1, <2>6, <2>7, <2>8, <2>9, <2>10, <2>11 DEF CalmInv
<1> QED BY <1>1, <1>2, <1>3, <1>4 DEF Handle, Fail

LEMMA CalmStep ==
  TypeInv /\ ExistInv /\ AnnounceInv /\ CalmInv /\ [Next]_vars => CalmInv'
<1> SUFFICES ASSUME TypeInv, ExistInv, AnnounceInv, CalmInv, [Next]_vars PROVE CalmInv'
  OBVIOUS
<1>1. CASE UNCHANGED vars
  BY <1>1 DEF vars, faultVars, CalmInv, Calm, Without, Announced, CreatedBefore, InFlight
<1>2. ASSUME NEW lost \in SUBSET Request, Crash(lost) PROVE CalmInv'
  BY <1>2 DEF Crash, Fault, Calm, Without, Separating, CalmInv
<1>3. ASSUME NEW event \in limbo, StoreLate(event) PROVE CalmInv'
  BY <1>3 DEF StoreLate, NoFault, faultVars, CalmInv, Calm, Without
<1> QED BY <1>1, <1>2, <1>3, CalmArrive, CalmHandle DEF Next

\* Whoever waits for his answers finds his account announced before the first
\* change to it, as long as database and stream are not separated.
THEOREM NobodyOvertakesHimself == SafeSpec => []CreatedFirst
<1>1. Init => ExistInv /\ AnnounceInv /\ CalmInv
  BY CalmInit DEF Init, ExistInv, EventsMeanAccounts, Patch, Nothing, AnnounceInv, Exists
<1>2. CalmInv => CreatedFirst
  BY DEF CalmInv, CreatedFirst, CreatedBefore, Calm
<1> QED BY <1>1, <1>2, TypeInit, TypeStep, ExistStep, AnnounceStep, CalmStep, PTL DEF SafeSpec

----------------------------------------------------------------------------
(* The stream tells the email of every account.                            *)

\* An account belongs to whoever registered it, and only he has a token of it.
OwnInv ==
    /\ \A u \in Request : Exists(u) => pc[u] # "new"
    /\ \A p \in Person : \A u \in tokens[p] : asked[u].person = p
    /\ \A r \in Request : asked[r] \in Patch => asked[asked[r].user].person = asked[r].person

\* Requests that were sent stay as they are.
LEMMA AskedStays ==
  ASSUME TypeInv, [Next]_vars, NEW r \in Request, pc[r] # "new"
  PROVE  asked'[r] = asked[r] /\ pc'[r] # "new"
<1>1. ASSUME NEW q \in Request, Arrive(q) PROVE asked'[r] = asked[r] /\ pc'[r] # "new"
  BY <1>1 DEF Arrive, SendRegister, SendLogin, SendUpdate, Send, TypeInv, TypeOK
<1>2. ASSUME NEW q \in Request, Handle(q) \/ Fail(q)
      PROVE  asked'[r] = asked[r] /\ pc'[r] # "new"
  BY <1>2 DEF Handle, Fail, LookupClash, LookupFree, Login, Write, WriteClash, Publish, Succeed,
              GatewayTimesOut, LookupFails, WriteFails, WriteTimesOut, PublishFails,
              PublishTimesOut, Answer, TypeInv, TypeOK
<1>3. ASSUME NEW lost \in SUBSET Request, Crash(lost)
      PROVE  asked'[r] = asked[r] /\ pc'[r] # "new"
  BY <1>3 DEF Crash
<1> QED BY <1>1, <1>2, <1>3 DEF Next, vars, StoreLate

\* A token is handed to the owner of the account, and a patch carries a token.
LEMMA OwnSteps ==
  ASSUME TypeInv, ExistInv, OwnInv, [Next]_vars
  PROVE  /\ \A p \in Person : \A u \in tokens'[p] : u \in tokens[p] \/ asked[u].person = p
         /\ \A r \in Request : asked'[r] \in Patch =>
               asked'[r] = asked[r] \/ asked'[r].user \in tokens[asked'[r].person]
         /\ tokens' = tokens \/ asked' = asked
<1>1. ASSUME NEW r \in Request, Arrive(r)
      PROVE  /\ tokens' = tokens /\ \A q \in Request \ {r} : asked'[q] = asked[q]
             /\ asked'[r] \in Patch => asked'[r].user \in tokens[asked'[r].person]
  <2>1. ASSUME NEW p \in Person, NEW email \in Email,
               SendRegister(r, p, email) \/ SendLogin(r, p, email)
        PROVE  tokens' = tokens /\ asked'[r] \notin Patch
               /\ \A q \in Request \ {r} : asked'[q] = asked[q]
    BY <2>1 DEF SendRegister, SendLogin, Send, Patch, TypeInv, TypeOK
  <2>2. ASSUME NEW p \in Person, NEW email \in Email \union {NoEmail}, SendUpdate(r, p, email)
        PROVE  tokens' = tokens /\ asked'[r].user \in tokens[asked'[r].person]
               /\ \A q \in Request \ {r} : asked'[q] = asked[q]
    BY <2>2 DEF SendUpdate, Send, TypeInv, TypeOK
  <2> QED BY <1>1, <2>1, <2>2 DEF Arrive
<1>2. ASSUME NEW r \in Request, Handle(r) \/ Fail(r)
      PROVE  /\ asked' = asked
             /\ \A p \in Person : \A u \in tokens'[p] : u \in tokens[p] \/ asked[u].person = p
  <2>1. \A u \in Matching(r) : asked[u].person = asked[r].person
    BY DEF Matching, Owner
  <2> QED BY <1>2, <2>1 DEF Handle, Fail, LookupClash, LookupFree, Login, Write, WriteClash,
              Publish, Succeed, GatewayTimesOut, LookupFails, WriteFails, WriteTimesOut,
              PublishFails, PublishTimesOut, Answer, TypeInv, TypeOK
<1> QED BY <1>1, <1>2 DEF Next, vars, Crash, StoreLate

LEMMA OwnStep == TypeInv /\ ExistInv /\ OwnInv /\ [Next]_vars => OwnInv'
<1> SUFFICES ASSUME TypeInv, ExistInv, OwnInv, [Next]_vars PROVE OwnInv'
  OBVIOUS
<1>1. \A u \in Request : Exists(u) => asked'[u] = asked[u] /\ pc'[u] # "new"
  BY AskedStays DEF OwnInv
<1>2. \A p \in Person : tokens[p] \subseteq Request /\ tokens'[p] \subseteq Request
  BY TypeStep DEF TypeInv, TypeOK
<1>3. ASSUME NEW u \in Request, Exists(u)'
      PROVE  pc'[u] # "new"
  <2>1. CASE Exists(u)
    BY <1>1, <2>1
  <2>2. CASE ~Exists(u)
    <3>1. PICK r \in Request : pc[r] = "write" /\ users' = Written(r)
      BY <1>3, <2>2, UsersChange DEF Exists
    <3>2. Account(r) \in Request /\ asked[r] \in Registration \union Patch
      BY <3>1, AskedFields DEF TypeInv, AskInv
    <3>3. u = Account(r)
      BY <1>3, <2>2, <3>1, <3>2 DEF Written, Exists, TypeInv, TypeOK
    <3>4. u = r
      BY <2>2, <3>2, <3>3 DEF ExistInv, Account, Registration, Patch
    <3> QED BY <3>1, <3>4, AskedStays
  <2> QED BY <2>1, <2>2
<1>4. ASSUME NEW p \in Person, NEW u \in tokens'[p]
      PROVE  asked'[u].person = p
  <2>1. CASE u \in tokens[p]
    BY <1>1, <1>2, <2>1 DEF ExistInv, OwnInv
  <2>2. CASE u \notin tokens[p]
    <3>1. asked[u].person = p /\ tokens' # tokens
      BY <1>4, <2>2, OwnSteps
    <3> QED BY <3>1, OwnSteps, <1>2
  <2> QED BY <2>1, <2>2
<1>5. ASSUME NEW r \in Request, asked'[r] \in Patch
      PROVE  asked'[asked'[r].user].person = asked'[r].person
  <2>1. asked'[r].person \in Person /\ asked'[r].user \in Request
    BY <1>5 DEF Patch
  <2>2. CASE asked'[r] = asked[r]
    BY <1>1, <1>5, <2>1, <2>2 DEF ExistInv, OwnInv
  <2>3. CASE asked'[r].user \in tokens[asked'[r].person]
    BY <1>1, <1>2, <2>1, <2>3 DEF ExistInv, OwnInv
  <2> QED BY <1>5, <2>2, <2>3, OwnSteps
<1> QED BY <1>3, <1>4, <1>5 DEF OwnInv

\* The last event of u that carries an email carries the one that is stored.
Mirrored(u) ==
    \E i \in 1..Len(stream) :
        /\ stream[i].user = u /\ stream[i].email = users[u]
        /\ \A j \in (i + 1)..Len(stream) : stream[j].user = u => stream[j].email = NoEmail

\* r has written the email of u and is about to publish it.
Announces(r, u) == pc[r] = "publish" /\ Account(r) = u /\ asked[r].email = users[u]

MirrorInv ==
    Calm =>
        /\ \A r \in Request : pc[r] = "publish" /\ asked[r].email # NoEmail =>
               Announces(r, Account(r))
        /\ \A u \in Request : Exists(u) => Mirrored(u) \/ \E r \in Request : Announces(r, u)

\* Nobody else writes or announces an account while a request of its owner does.
LEMMA SoleWriter ==
  ASSUME TypeInv, OwnInv, CalmInv, Calm, NEW r \in Request, NEW q \in Request,
         pc[r] \in {"write", "publish"}, pc[q] \in {"write", "publish"}, Account(r) = Account(q)
  PROVE  r = q
<1>1. \A x \in {r, q} : asked[x] \in Registration \union Patch
  BY DEF TypeInv, AskInv
<1>2. \A x \in {r, q} : asked[Account(x)].person = asked[x].person
  BY <1>1 DEF OwnInv, Account, Registration, Patch
<1> QED BY <1>2 DEF CalmInv, InFlight

\* A step that changes neither the accounts nor the stream and publishes nothing.
LEMMA MirrorKept ==
  ASSUME TypeInv, MirrorInv, [Next]_vars, UNCHANGED <<users, stream>>,
         \A r \in Request : pc[r] = "publish" <=> pc'[r] = "publish"
  PROVE  MirrorInv'
<1> SUFFICES ASSUME Calm' PROVE MirrorInv'
  BY DEF MirrorInv
<1>1. Calm
  BY CalmBefore
<1>2. \A r \in Request : pc[r] = "publish" =>
          asked'[r] = asked[r] /\ Account(r)' = Account(r)
  BY AskedStays DEF Account
<1>3. \A r, u \in Request : Announces(r, u) <=> Announces(r, u)'
  BY <1>2 DEF Announces
<1>4. \A u \in Request : Mirrored(u) <=> Mirrored(u)'
  BY DEF Mirrored
<1>5. \A r \in Request : pc[r] = "publish" => Account(r) \in Request
  BY AskedFields DEF TypeInv, AskInv
<1> QED BY <1>1, <1>2, <1>3, <1>4, <1>5 DEF MirrorInv, Exists

LEMMA MirrorWrite ==
  ASSUME TypeInv, OwnInv, CalmInv, MirrorInv, [Next]_vars, NEW r \in Request, Write(r)
  PROVE  MirrorInv'
<1> SUFFICES ASSUME Calm' PROVE MirrorInv'
  BY DEF MirrorInv
<1>1. /\ pc[r] = "write" /\ users' = Written(r) /\ pc' = [pc EXCEPT ![r] = "publish"]
      /\ UNCHANGED <<asked, stream>> /\ Calm
  BY CalmBefore DEF Write
<1>2. /\ Account(r) \in Request /\ asked[r].email \in Email \union {NoEmail}
      /\ \A q \in Request : Account(q)' = Account(q)
      /\ \A q \in Request : pc[q] = "publish" => Account(q) \in Request
  BY <1>1, AskedFields DEF TypeInv, AskInv, Account
<1>3. /\ pc'[r] = "publish" /\ \A q \in Request \ {r} : pc'[q] = pc[q]
      /\ \A u \in Request \ {Account(r)} : users'[u] = users[u]
      /\ asked[r].email # NoEmail => users'[Account(r)] = asked[r].email
      /\ asked[r].email = NoEmail => users' = users
  BY <1>1, <1>2 DEF Written, TypeInv, TypeOK
<1>4. \A q \in Request \ {r} : pc[q] = "publish" => Account(q) # Account(r)
  BY <1>1, SoleWriter
<1>5. ASSUME NEW q \in Request, pc'[q] = "publish", asked'[q].email # NoEmail
      PROVE  Announces(q, Account(q))'
  BY <1>1, <1>2, <1>3, <1>4, <1>5 DEF MirrorInv, Announces
<1>6. ASSUME NEW u \in Request, Exists(u)'
      PROVE  Mirrored(u)' \/ \E q \in Request : Announces(q, u)'
  <2>1. CASE u = Account(r) /\ asked[r].email # NoEmail
    BY <1>1, <1>2, <1>3, <2>1 DEF Announces
  <2>2. CASE ~(u = Account(r) /\ asked[r].email # NoEmail)
    <3>1. users'[u] = users[u]
      BY <1>3, <2>2
    <3>2. Mirrored(u) => Mirrored(u)'
      BY <1>1, <3>1 DEF Mirrored
    <3>3. \A q \in Request : Announces(q, u) => Announces(q, u)'
      BY <1>1, <1>2, <1>3, <3>1 DEF Announces
    <3> QED BY <1>1, <1>6, <3>1, <3>2, <3>3 DEF MirrorInv, Exists
  <2> QED BY <2>1, <2>2
<1> QED BY <1>5, <1>6 DEF MirrorInv

LEMMA MirrorPublish ==
  ASSUME TypeInv, ExistInv, OwnInv, CalmInv, MirrorInv, [Next]_vars, NEW r \in Request, Publish(r)
  PROVE  MirrorInv'
<1> SUFFICES ASSUME Calm' PROVE MirrorInv'
  BY DEF MirrorInv
<1> DEFINE m == EventOf(r)
<1>1. /\ pc[r] = "publish" /\ stream' = Append(stream, m) /\ UNCHANGED <<users, asked>>
      /\ pc'[r] = "done" /\ \A q \in Request \ {r} : pc'[q] = pc[q]
      /\ Calm
  BY CalmBefore DEF Publish, Succeed, Answer, TypeInv, TypeOK
<1>2. m \in EventRecord /\ m.user = Account(r) /\ m.email = asked[r].email /\ Account(r) \in Request
  BY <1>1, EventTyped, AskedFields DEF EventOf, TypeInv, AskInv
<1> HIDE DEF m
<1>3. stream \in Seq(EventRecord)
  BY DEF TypeInv, TypeOK
<1>4. /\ Len(stream) \in Nat /\ Len(stream') = Len(stream) + 1
      /\ \A i \in 1..Len(stream) : stream'[i] = stream[i]
      /\ stream'[Len(stream) + 1] = m
  BY <1>1, <1>2, <1>3, AppendProperties, LenProperties
<1>5. \A q, u \in Request : q # r => (Announces(q, u) <=> Announces(q, u)')
  BY <1>1 DEF Announces, Account
<1>6. ASSUME NEW u \in Request, Mirrored(u), m.user = u => m.email = NoEmail
      PROVE  Mirrored(u)'
  <2>1. PICK i \in 1..Len(stream) :
          /\ stream[i].user = u /\ stream[i].email = users[u]
          /\ \A j \in (i + 1)..Len(stream) : stream[j].user = u => stream[j].email = NoEmail
    BY <1>6 DEF Mirrored
  <2>2. i \in 1..Len(stream') /\ stream'[i] = stream[i]
    BY <1>4
  <2>3. ASSUME NEW j \in (i + 1)..Len(stream'), stream'[j].user = u
        PROVE  stream'[j].email = NoEmail
    <3>1. CASE j = Len(stream) + 1
      BY <1>4, <1>6, <2>3, <3>1
    <3>2. CASE j # Len(stream) + 1
      <4>1. j \in (i + 1)..Len(stream) /\ j \in 1..Len(stream)
        BY <1>4, <3>2
      <4> QED BY <1>4, <2>1, <2>3, <4>1
    <3> QED BY <3>1, <3>2
  <2> QED BY <1>1, <2>1, <2>2, <2>3 DEF Mirrored
<1>7. asked[r].email # NoEmail => Mirrored(Account(r))'
  <2>1. SUFFICES ASSUME asked[r].email # NoEmail PROVE Mirrored(Account(r))'
    OBVIOUS
  <2>2. users[Account(r)] = m.email
    BY <1>1, <1>2, <2>1 DEF MirrorInv, Announces
  <2>3. Len(stream) + 1 \in 1..Len(stream')
    BY <1>4
  <2>4. \A j \in (Len(stream) + 1 + 1)..Len(stream') : FALSE
    BY <1>4
  <2>5. Account(r)' = Account(r)
    BY <1>1 DEF Account
  <2> QED BY <1>1, <1>2, <1>4, <2>2, <2>3, <2>4, <2>5 DEF Mirrored
<1>8. ASSUME NEW q \in Request, pc'[q] = "publish", asked'[q].email # NoEmail
      PROVE  Announces(q, Account(q))'
  BY <1>1, <1>8 DEF MirrorInv, Announces, Account
<1>9. ASSUME NEW u \in Request, Exists(u)'
      PROVE  Mirrored(u)' \/ \E q \in Request : Announces(q, u)'
  <2>1. Exists(u)
    BY <1>1, <1>9 DEF Exists
  <2>2. CASE u = Account(r) /\ asked[r].email # NoEmail
    BY <1>1, <1>7, <2>2 DEF Mirrored, Account
  <2>3. CASE ~(u = Account(r) /\ asked[r].email # NoEmail)
    <3>1. Mirrored(u) => Mirrored(u)'
      BY <1>2, <1>6, <2>3
    <3>2. ~Announces(r, u)
      BY <2>1, <2>3 DEF Announces, Exists
    <3> QED BY <1>1, <1>5, <2>1, <3>1, <3>2 DEF MirrorInv
  <2> QED BY <2>2, <2>3
<1> QED BY <1>8, <1>9 DEF MirrorInv

LEMMA MirrorStep ==
  TypeInv /\ ExistInv /\ OwnInv /\ CalmInv /\ MirrorInv /\ [Next]_vars => MirrorInv'
<1> SUFFICES ASSUME TypeInv, ExistInv, OwnInv, CalmInv, MirrorInv, [Next]_vars PROVE MirrorInv'
  OBVIOUS
<1>1. CASE UNCHANGED vars
  BY <1>1, MirrorKept DEF vars
<1>2. ASSUME NEW r \in Request, Arrive(r) PROVE MirrorInv'
  BY <1>2, MirrorKept DEF Arrive, SendRegister, SendLogin, SendUpdate, Send, TypeInv, TypeOK
<1>3. ASSUME NEW r \in Request, LookupClash(r) \/ LookupFree(r) \/ Login(r) \/ WriteClash(r)
                                  \/ LookupFails(r) \/ WriteFails(r)
      PROVE  MirrorInv'
  BY <1>3, MirrorKept DEF LookupClash, LookupFree, Login, WriteClash, LookupFails, WriteFails,
                          Answer, TypeInv, TypeOK
<1>4. ASSUME NEW r \in Request, GatewayTimesOut(r) \/ WriteTimesOut(r) \/ PublishFails(r)
                                  \/ PublishTimesOut(r)
      PROVE  MirrorInv'
  BY <1>4 DEF WriteTimesOut, PublishFails, PublishTimesOut, GatewayTimesOut, Fault, Without,
              Separating, Overtaking, Calm, MirrorInv
<1>5. ASSUME NEW lost \in SUBSET Request, Crash(lost) PROVE MirrorInv'
  BY <1>5 DEF Crash, Fault, Calm, Without, Separating, MirrorInv
<1>6. ASSUME NEW event \in limbo, StoreLate(event) PROVE MirrorInv'
  BY <1>6, CalmBefore DEF CalmInv, MirrorInv
<1> QED BY <1>1, <1>2, <1>3, <1>4, <1>5, <1>6, MirrorWrite, MirrorPublish DEF Next, Handle, Fail

\* Where database and stream are not separated and everybody waits for his
\* answers, the stream tells the email of every account nobody is changing.
THEOREM StreamTellsProfiles == SafeSpec => []StreamAgreesWithProfile
<1>1. Init => ExistInv /\ AnnounceInv /\ CalmInv /\ OwnInv /\ MirrorInv
  BY CalmInit DEF Init, ExistInv, EventsMeanAccounts, Patch, Nothing, AnnounceInv, Exists, OwnInv,
                  MirrorInv
<1>2. MirrorInv => StreamAgreesWithProfile
  BY DEF MirrorInv, StreamAgreesWithProfile, Mirrored, Announces, Exists, InFlight, Calm
<1> QED BY <1>1, <1>2, TypeInit, TypeStep, ExistStep, AnnounceStep, CalmStep, OwnStep, MirrorStep, PTL
        DEF SafeSpec

----------------------------------------------------------------------------
(* Nobody meets an account of his own that he was not told of.             *)

Patient == Without(Overtaking)

\* A person who waits for his answers has one request under way.
SerialInv ==
    Patient =>
        /\ \A r \in Request : pc[r] # "done" => told[r] = "none"
        /\ \A r, q \in Request :
              InFlight(r) /\ InFlight(q) /\ asked[r].person = asked[q].person => r = q

Quiet == Without({"crash", "writeTimesOut"} \union Overtaking)

\* The owner of an account has its token, or the registration that wrote it is
\* about to hand it out, whether the event is stored or not.
KnownInv ==
    Quiet =>
        \A u \in Request : Exists(u) =>
            u \in tokens[Owner(u)] \/ (pc[u] = "publish" /\ asked[u] \in Registration)

LEMMA QuietBefore ==
  ASSUME [Next]_vars
  PROVE  (Patient' => Patient) /\ (Quiet' => Quiet) /\ (Quiet => Patient)
<1>1. ASSUME NEW r \in Request, Arrive(r) PROVE faulted \subseteq faulted'
  BY <1>1 DEF Arrive, SendRegister, SendLogin, SendUpdate, Send, Fault, NoFault, faultVars
<1>2. ASSUME NEW r \in Request, Handle(r) \/ Fail(r) PROVE faulted \subseteq faulted'
  BY <1>2 DEF Handle, Fail, LookupClash, LookupFree, Login, Write, WriteClash, Publish,
              GatewayTimesOut, LookupFails, WriteFails, WriteTimesOut, PublishFails,
              PublishTimesOut, Fault, NoFault, faultVars
<1>3. faulted \subseteq faulted'
  BY <1>1, <1>2 DEF Next, vars, faultVars, Crash, StoreLate, Fault, NoFault
<1> QED BY <1>3 DEF Patient, Quiet, Without

\* What the handler of a request that is under way may do to program counters,
\* answers and tokens.
LEMMA HandlerMoves ==
  ASSUME TypeInv, NEW r \in Request, Handle(r) \/ Fail(r)
  PROVE  /\ InFlight(r) /\ asked' = asked
         /\ \A q \in Request \ {r} : pc'[q] = pc[q] /\ told'[q] = told[q]
         /\ pc'[r] = "done" \/ GatewayTimesOut(r) \/ (pc'[r] # "new" /\ told'[r] = told[r])
         /\ \A p \in Person : tokens[p] \subseteq tokens'[p]
BY DEF Handle, Fail, LookupClash, LookupFree, Login, Write, WriteClash, Publish, Succeed,
       GatewayTimesOut, LookupFails, WriteFails, WriteTimesOut, PublishFails,
       PublishTimesOut, Answer, InFlight, TypeInv, TypeOK

LEMMA SerialStep == TypeInv /\ SerialInv /\ [Next]_vars => SerialInv'
<1> SUFFICES ASSUME TypeInv, SerialInv, [Next]_vars, Patient' PROVE SerialInv'
  BY DEF SerialInv
<1>0. Patient
  BY QuietBefore
<1>1. CASE UNCHANGED vars
  BY <1>0, <1>1 DEF vars, SerialInv, InFlight
<1>2. ASSUME NEW r \in Request, Arrive(r) PROVE SerialInv'
  <2>1. PICK ask \in Registration \union LoginAttempt \union Patch, step \in {"lookup", "write"} :
          Send(r, ask) /\ pc' = [pc EXCEPT ![r] = step]
    <3>1. \A p \in Person, email \in Email :
            /\ [op |-> "register", person |-> p, email |-> email] \in Registration
            /\ [op |-> "login", person |-> p, email |-> email] \in LoginAttempt
      BY DEF Registration, LoginAttempt
    <3>2. \A p \in Person, email \in Email \union {NoEmail} : \A u \in tokens[p] :
            [op |-> "update", person |-> p, user |-> u, email |-> email] \in Patch
      BY DEF Patch, TypeInv, TypeOK
    <3> QED BY <1>2, <3>1, <3>2 DEF Arrive, SendRegister, SendLogin, SendUpdate
  <2>2. /\ told' = told /\ pc[r] = "new" /\ asked'[r] = ask /\ pc'[r] # "done"
        /\ \A q \in Request \ {r} : asked'[q] = asked[q] /\ pc'[q] = pc[q]
    BY <2>1 DEF Send, TypeInv, TypeOK
  <2>3. ~\E q \in Request : InFlight(q) /\ told[q] = "none" /\ asked[q].person = ask.person
    BY <2>1 DEF Send, Fault, Patient, Without, Overtaking
  <2>4. \A q \in Request : InFlight(q) => asked[q].person # ask.person
    BY <1>0, <2>3 DEF SerialInv, InFlight
  <2>5. \A q \in Request \ {r} : InFlight(q)' <=> InFlight(q)
    BY <2>2 DEF InFlight
  <2>6. \A q \in Request : pc'[q] # "done" => told'[q] = "none"
    BY <1>0, <2>2 DEF SerialInv
  <2>7. \A x, y \in Request :
          InFlight(x)' /\ InFlight(y)' /\ asked'[x].person = asked'[y].person => x = y
    BY <1>0, <2>2, <2>4, <2>5 DEF SerialInv
  <2> QED BY <2>6, <2>7 DEF SerialInv
<1>3. ASSUME NEW r \in Request, Handle(r) \/ Fail(r) PROVE SerialInv'
  <2>1. /\ InFlight(r) /\ asked' = asked
        /\ \A q \in Request \ {r} : pc'[q] = pc[q] /\ told'[q] = told[q]
        /\ pc'[r] = "done" \/ GatewayTimesOut(r) \/ (pc'[r] # "new" /\ told'[r] = told[r])
    BY <1>3, HandlerMoves
  <2>2. ~GatewayTimesOut(r)
    BY DEF GatewayTimesOut, Fault, Patient, Without, Overtaking
  <2> QED BY <1>0, <2>1, <2>2 DEF SerialInv, InFlight
<1>4. ASSUME NEW lost \in SUBSET Request, Crash(lost) PROVE SerialInv'
  BY <1>0, <1>4 DEF Crash, SerialInv, InFlight
<1>5. ASSUME NEW event \in limbo, StoreLate(event) PROVE SerialInv'
  BY <1>0, <1>5 DEF StoreLate, SerialInv, InFlight
<1> QED BY <1>1, <1>2, <1>3, <1>4, <1>5 DEF Next

LEMMA KnownStep ==
  TypeInv /\ ExistInv /\ OwnInv /\ SerialInv /\ KnownInv /\ [Next]_vars => KnownInv'
<1> SUFFICES ASSUME TypeInv, ExistInv, OwnInv, SerialInv, KnownInv, [Next]_vars, Quiet'
             PROVE  KnownInv'
  BY DEF KnownInv
<1>0. Quiet /\ Patient
  BY QuietBefore
<1>1. \A u \in Request : Exists(u) =>
        asked'[u] = asked[u] /\ Owner(u)' = Owner(u) /\ Owner(u) \in Person
  <2>1. \A u \in Request : Exists(u) => pc[u] # "new" /\ asked[u] # Nothing
    BY DEF OwnInv, TypeInv, AskInv
  <2> QED BY <2>1, AskedStays, AskedFields DEF Owner
\* No account appears, no registration at publish() goes on, no token is lost.
<1>2. ASSUME users' = users, \A p \in Person : tokens[p] \subseteq tokens'[p],
             \A u \in Request : pc[u] = "publish" => pc'[u] = "publish"
      PROVE  KnownInv'
  BY <1>0, <1>1, <1>2 DEF KnownInv, Exists
<1>3. CASE UNCHANGED vars
  BY <1>2, <1>3 DEF vars
<1>4. ASSUME NEW r \in Request, Arrive(r) PROVE KnownInv'
  BY <1>2, <1>4 DEF Arrive, SendRegister, SendLogin, SendUpdate, Send, TypeInv, TypeOK
<1>5. ASSUME NEW r \in Request,
             LookupClash(r) \/ LookupFree(r) \/ Login(r) \/ WriteClash(r)
               \/ LookupFails(r) \/ WriteFails(r)
      PROVE  KnownInv'
  <2>1. \A p \in Person : tokens[p] \subseteq tokens'[p]
    BY <1>5, HandlerMoves DEF Handle, Fail
  <2>2. users' = users /\ \A u \in Request : pc[u] = "publish" => pc'[u] = "publish"
    BY <1>5 DEF LookupClash, LookupFree, Login, WriteClash, LookupFails, WriteFails, Answer,
                TypeInv, TypeOK
  <2> QED BY <1>2, <2>1, <2>2
<1>6. ASSUME NEW r \in Request, GatewayTimesOut(r) \/ WriteTimesOut(r) PROVE FALSE
  BY <1>6 DEF GatewayTimesOut, WriteTimesOut, Fault, Quiet, Without, Overtaking
<1>7. ASSUME NEW r \in Request, Write(r) PROVE KnownInv'
  <2>1. /\ pc[r] = "write" /\ users' = Written(r) /\ UNCHANGED <<asked, tokens>>
        /\ pc' = [pc EXCEPT ![r] = "publish"]
    BY <1>7 DEF Write
  <2>2. asked[r] \in Registration \union Patch /\ Account(r) \in Request
    BY <2>1, AskedFields DEF TypeInv, AskInv
  <2>3. ASSUME NEW u \in Request, Exists(u)', ~Exists(u)
        PROVE  pc'[u] = "publish" /\ asked'[u] \in Registration
    <3>1. u = Account(r)
      BY <2>1, <2>2, <2>3 DEF Written, Exists, TypeInv, TypeOK
    <3>2. asked[r] \notin Patch
      BY <2>3, <3>1 DEF ExistInv, Account, Patch
    <3>3. asked[r] \in Registration /\ u = r
      BY <2>2, <3>1, <3>2 DEF Account, Registration
    <3> QED BY <2>1, <3>3 DEF TypeInv, TypeOK
  <2>4. \A u \in Request : pc[u] = "publish" => pc'[u] = "publish"
    BY <2>1 DEF TypeInv, TypeOK
  <2> QED BY <1>0, <1>1, <2>1, <2>3, <2>4 DEF KnownInv
<1>8. ASSUME NEW r \in Request, Publish(r) \/ PublishFails(r) \/ PublishTimesOut(r)
      PROVE  KnownInv'
  <2>1. pc[r] = "publish" /\ Succeed(r) /\ users' = users
    BY <1>8 DEF Publish, PublishFails, PublishTimesOut
  <2>2. told[r] = "none" /\ asked[r] # Nothing
    BY <1>0, <2>1 DEF SerialInv, TypeInv, AskInv
  <2>3. asked[r].person \in Person
    BY <2>2, AskedFields
  <2>4. asked[r] \in Registration => r \in tokens'[Owner(r)]
    <3>1. SUFFICES ASSUME asked[r].op = "register" PROVE r \in tokens'[asked[r].person]
      BY DEF Registration, Owner
    <3>2. Answer(r, "201", {r})
      BY <2>1, <3>1 DEF Succeed
    <3>3. tokens' = [tokens EXCEPT ![asked[r].person] = @ \union {r}]
      BY <2>2, <3>2 DEF Answer
    <3> QED BY <2>3, <3>3 DEF TypeInv, TypeOK
  <2>5. /\ \A q \in Request \ {r} : pc'[q] = pc[q]
        /\ \A p \in Person : tokens[p] \subseteq tokens'[p]
    BY <1>8, HandlerMoves DEF Handle, Fail
  <2>6. ASSUME NEW u \in Request, Exists(u)'
        PROVE  u \in tokens'[Owner(u)'] \/ (pc'[u] = "publish" /\ asked'[u] \in Registration)
    <3>1. Exists(u)
      BY <2>1, <2>6 DEF Exists
    <3>2. asked'[u] = asked[u] /\ Owner(u)' = Owner(u) /\ Owner(u) \in Person
      BY <1>1, <3>1
    <3>3. u \in tokens[Owner(u)] \/ (pc[u] = "publish" /\ asked[u] \in Registration)
      BY <1>0, <3>1 DEF KnownInv
    <3> QED BY <2>4, <2>5, <3>2, <3>3
  <2> QED BY <2>6 DEF KnownInv, Owner
<1>9. ASSUME NEW lost \in SUBSET Request, Crash(lost) PROVE FALSE
  BY <1>9 DEF Crash, Fault, Quiet, Without
<1>10. ASSUME NEW event \in limbo, StoreLate(event) PROVE KnownInv'
  BY <1>2, <1>10 DEF StoreLate
<1> QED BY <1>3, <1>4, <1>5, <1>6, <1>7, <1>8, <1>9, <1>10 DEF Next, Handle, Fail

\* Only the two checks of an email answer 409.
LEMMA ConflictAnswers ==
  ASSUME [Next]_vars, TypeInv, NEW r \in Request, told[r] # "409", told'[r] = "409"
  PROVE  Clash(r) /\ pc[r] \in {"lookup", "write"}
<1>1. ~UNCHANGED vars
  BY DEF vars
<1>2. ASSUME NEW q \in Request, Arrive(q) PROVE FALSE
  BY <1>2 DEF Arrive, SendRegister, SendLogin, SendUpdate, Send
<1>3. ASSUME NEW lost \in SUBSET Request, Crash(lost) PROVE FALSE
  BY <1>3 DEF Crash
<1>4. ASSUME NEW event \in limbo, StoreLate(event) PROVE FALSE
  BY <1>4 DEF StoreLate
<1>5. ASSUME NEW q \in Request, Handle(q) \/ Fail(q)
      PROVE  LookupClash(r) \/ WriteClash(r)
  <2>1. q = r
    BY <1>5, HandlerMoves
  <2> QED BY <1>5, <2>1 DEF Handle, Fail, LookupClash, LookupFree, Login, Write, WriteClash,
              Publish, Succeed, GatewayTimesOut, LookupFails, WriteFails, WriteTimesOut,
              PublishFails, PublishTimesOut, Answer, TypeInv, TypeOK
<1> QED BY <1>1, <1>2, <1>3, <1>4, <1>5 DEF Next, LookupClash, WriteClash

\* Whoever waits for his answers is refused an email by an account of his own
\* only if he holds its token, although a publish may fail or go unheard: the
\* service answers 201 all the same (user.service.js:27-35).
THEOREM NobodyMeetsHimself == SafeSpec => NoUnexplainedConflict
<1>1. Init => ExistInv /\ OwnInv /\ SerialInv /\ KnownInv
  BY DEF Init, ExistInv, EventsMeanAccounts, Patch, Nothing, Exists, OwnInv, SerialInv, InFlight,
         KnownInv
<1>2. TypeInv /\ SerialInv /\ KnownInv /\ [Next]_vars =>
        [Without({"crash", "writeTimesOut"} \union Overtaking) =>
           \A r \in Request : told[r] # "409" /\ told'[r] = "409" =>
               \A u \in Holders(asked[r].email) :
                   Owner(u) = asked[r].person => u \in tokens[Owner(u)]]_vars
  <2> SUFFICES ASSUME TypeInv, SerialInv, KnownInv, Next, Quiet, NEW r \in Request,
                      told[r] # "409", told'[r] = "409", NEW u \in Holders(asked[r].email),
                      Owner(u) = asked[r].person
               PROVE  u \in tokens[Owner(u)]
    BY DEF Quiet
  <2>1. Clash(r) /\ pc[r] \in {"lookup", "write"}
    BY ConflictAnswers
  <2>2. u \in Request /\ Exists(u)
    BY <2>1 DEF Clash, Holders, Exists
  <2>3. Patient
    BY QuietBefore
  <2>4. CASE pc[u] = "publish"
    <3>1. u = r
      BY <2>1, <2>2, <2>3, <2>4 DEF SerialInv, InFlight, Owner
    <3> QED BY <2>1, <2>4, <3>1
  <2> QED BY <2>2, <2>4 DEF KnownInv
<1> QED BY <1>1, <1>2, TypeInit, TypeStep, ExistStep, OwnStep, SerialStep, KnownStep, PTL
        DEF SafeSpec, NoUnexplainedConflict

=============================================================================
