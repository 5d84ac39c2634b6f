--------------------------- MODULE PipelineProofs ---------------------------
(***************************************************************************)
(* Theorems about Pipeline for every set of requests, replicas and faults. *)
(* Each service is seen to behave as its own module says, so what is       *)
(* proved of the services holds here; what is added is the link between    *)
(* them: the events on the stream are the events the broker delivers.      *)
(***************************************************************************)
EXTENDS Pipeline, SequenceTheorems, TLAPS

UserFacts == INSTANCE UserServiceProofs WITH
    pc <- handler,
    Faults <- UserFaults, MaxFaults <- MaxUserFaults,
    faultsLeft <- userFaultsLeft, faulted <- userFaulted

ConsumerFacts == INSTANCE NotificationOnceProofs WITH
    Event <- Request, Kind <- PublishedKind, pc <- worker,
    Faults <- ConsumerFaults, MaxFaults <- MaxConsumerFaults,
    faultsLeft <- consumerFaultsLeft, faulted <- consumerFaulted

----------------------------------------------------------------------------
(* Each service behaves as its own module says.                            *)

LEMMA UserAssumptions ==
    /\ UserFacts!EmailAssumption /\ UserFacts!FaultsAssumption
    /\ UserFacts!BoundsAssumption
<1>1. UserFacts!EmailAssumption
  BY EmailAssumption DEF UserFacts!EmailAssumption
<1>2. UserFacts!FaultsAssumption
  BY FaultsAssumption DEF UserFacts!FaultsAssumption, UserFacts!FaultKinds
<1>3. UserFacts!BoundsAssumption
  BY BoundsAssumption DEF UserFacts!BoundsAssumption
<1> QED BY <1>1, <1>2, <1>3

LEMMA ConsumerAssumptions ==
    /\ ConsumerFacts!KindAssumption /\ ConsumerFacts!FaultsAssumption
    /\ ConsumerFacts!BoundsAssumption /\ ConsumerFacts!MaxDeliveriesAssumption
<1>1. ConsumerFacts!KindAssumption
  BY DEF ConsumerFacts!KindAssumption, PublishedKind, ConsumerFacts!Kinds
<1>2. ConsumerFacts!FaultsAssumption
  BY FaultsAssumption DEF ConsumerFacts!FaultsAssumption, ConsumerFacts!FaultKinds
<1>3. ConsumerFacts!BoundsAssumption
  BY BoundsAssumption DEF ConsumerFacts!BoundsAssumption
<1>4. ConsumerFacts!MaxDeliveriesAssumption
  BY BoundsAssumption DEF ConsumerFacts!MaxDeliveriesAssumption
<1> QED BY <1>1, <1>2, <1>3, <1>4

LEMMA SameUserInit == Users!Init => UserFacts!Init
BY DEF Users!Init, UserFacts!Init, UserFacts!Nothing, Users!Nothing

LEMMA SameUserStep == Users!Next <=> UserFacts!Next
BY DEF Users!Next, UserFacts!Next, Users!InFlight, UserFacts!InFlight, Users!Holders, UserFacts!Holders, Users!Owner,
       UserFacts!Owner, Users!Account, UserFacts!Account, Users!EventOf, UserFacts!EventOf,
       Users!Send, UserFacts!Send, Users!SendRegister, UserFacts!SendRegister,
       Users!SendLogin, UserFacts!SendLogin, Users!SendUpdate, UserFacts!SendUpdate,
       Users!Answer, UserFacts!Answer, Users!GatewayTimesOut, UserFacts!GatewayTimesOut,
       Users!Crash, UserFacts!Crash, Users!Clash, UserFacts!Clash, Users!LookupClash,
       UserFacts!LookupClash, Users!LookupFree, UserFacts!LookupFree, Users!Matching,
       UserFacts!Matching, Users!Login, UserFacts!Login, Users!LookupFails,
       UserFacts!LookupFails, Users!Written, UserFacts!Written, Users!Write,
       UserFacts!Write, Users!WriteClash, UserFacts!WriteClash, Users!WriteFails,
       UserFacts!WriteFails, Users!WriteTimesOut, UserFacts!WriteTimesOut, Users!Succeed,
       UserFacts!Succeed, Users!Publish, UserFacts!Publish, Users!PublishFails,
       UserFacts!PublishFails, Users!PublishTimesOut, UserFacts!PublishTimesOut,
       Users!StoreLate, UserFacts!StoreLate, Users!Handle, UserFacts!Handle, Users!Fail,
       UserFacts!Fail, Users!Arrive, UserFacts!Arrive, Users!Fault, UserFacts!Fault,
       Users!NoFault, UserFacts!NoFault, Users!faultVars, UserFacts!faultVars

LEMMA SameConsumerInit == Consumer!Init => ConsumerFacts!Init
BY DEF Consumer!Init, ConsumerFacts!Init, Consumer!None, ConsumerFacts!None,
       Consumer!BrokerInit, ConsumerFacts!BrokerInit

LEMMA SameConsumerStep == Consumer!Next <=> ConsumerFacts!Next
BY DEF Consumer!Next, ConsumerFacts!Next, Consumer!Outstanding, ConsumerFacts!Outstanding, Consumer!AfterFailure,
       ConsumerFacts!AfterFailure, Consumer!Store, ConsumerFacts!Store,
       Consumer!NextDelivery, ConsumerFacts!NextDelivery, Consumer!Dispatch,
       ConsumerFacts!Dispatch, Consumer!Send, ConsumerFacts!Send,
       Consumer!ReceiveSettlement, ConsumerFacts!ReceiveSettlement, Consumer!Ignorable,
       ConsumerFacts!Ignorable, Consumer!DropSettlement, ConsumerFacts!DropSettlement,
       Consumer!AckWaitExpires, ConsumerFacts!AckWaitExpires, Consumer!Malformation,
       ConsumerFacts!Malformation, Consumer!DEAD_LETTER, ConsumerFacts!DEAD_LETTER,
       Consumer!StreamSubjects, ConsumerFacts!StreamSubjects, Consumer!CanCopy,
       ConsumerFacts!CanCopy, Consumer!ElementOf, ConsumerFacts!ElementOf, Consumer!Held,
       ConsumerFacts!Held, Consumer!CurrentDelivery, ConsumerFacts!CurrentDelivery,
       Consumer!Publish, ConsumerFacts!Publish, Consumer!Deliver, ConsumerFacts!Deliver,
       Consumer!BrokerReceives, ConsumerFacts!BrokerReceives, Consumer!BrokerIgnores,
       ConsumerFacts!BrokerIgnores, Consumer!SettlementLost, ConsumerFacts!SettlementLost,
       Consumer!AckWait, ConsumerFacts!AckWait, Consumer!Start, ConsumerFacts!Start,
       Consumer!Consume, ConsumerFacts!Consume, Consumer!Crash, ConsumerFacts!Crash,
       Consumer!Disconnect, ConsumerFacts!Disconnect, Consumer!Yield, ConsumerFacts!Yield,
       Consumer!Goto, ConsumerFacts!Goto, Consumer!Return, ConsumerFacts!Return,
       Consumer!FinalAttempt, ConsumerFacts!FinalAttempt, Consumer!TakeMalformed,
       ConsumerFacts!TakeMalformed, Consumer!TakeUnknown, ConsumerFacts!TakeUnknown,
       Consumer!TakeValid, ConsumerFacts!TakeValid, Consumer!LookupHit,
       ConsumerFacts!LookupHit, Consumer!LookupMiss, ConsumerFacts!LookupMiss,
       Consumer!LookupFails, ConsumerFacts!LookupFails, Consumer!WriteNotification,
       ConsumerFacts!WriteNotification, Consumer!CreateNotification,
       ConsumerFacts!CreateNotification, Consumer!HandlerThrew, ConsumerFacts!HandlerThrew,
       Consumer!CreateFails, ConsumerFacts!CreateFails, Consumer!CreateTimesOut,
       ConsumerFacts!CreateTimesOut, Consumer!WriteLedger, ConsumerFacts!WriteLedger,
       Consumer!RecordEvent, ConsumerFacts!RecordEvent, Consumer!RecordFails,
       ConsumerFacts!RecordFails, Consumer!RecordTimesOut, ConsumerFacts!RecordTimesOut,
       Consumer!Ack, ConsumerFacts!Ack, Consumer!DeadLetter, ConsumerFacts!DeadLetter,
       Consumer!DeadLetterFails, ConsumerFacts!DeadLetterFails, Consumer!Term,
       ConsumerFacts!Term, Consumer!Proceed, ConsumerFacts!Proceed, Consumer!Fail,
       ConsumerFacts!Fail, Consumer!BrokerStep, ConsumerFacts!BrokerStep, Consumer!Fault,
       ConsumerFacts!Fault, Consumer!NoFault, ConsumerFacts!NoFault, Consumer!faultVars,
       ConsumerFacts!faultVars, Consumer!brokerVars, ConsumerFacts!brokerVars,
       Consumer!replicaVars, ConsumerFacts!replicaVars, Consumer!storeVars,
       ConsumerFacts!storeVars, Consumer!None, ConsumerFacts!None, Consumer!Without,
       ConsumerFacts!Without

\* What user-service is proved to keep, about the variables of the pipeline.
UserInv ==
    /\ UserFacts!TypeInv /\ UserFacts!EventsMeanAccounts
    /\ UserFacts!AccountsAnnounced

LEMMA UsersBehave == SafeSpec => UserFacts!SafeSpec
<1>1. Init => UserFacts!Init
  BY SameUserInit DEF Init
<1>2. [Next]_vars => [UserFacts!Next]_(UserFacts!vars)
  BY SameUserStep
  DEF Next, UserStep, ConsumerStep, vars, userVars, UserFacts!vars, UserFacts!faultVars
<1> QED BY <1>1, <1>2, PTL DEF SafeSpec, UserFacts!SafeSpec

LEMMA UserInvariant == SafeSpec => []UserInv
<1>1. UserFacts!SafeSpec => []UserFacts!TypeInv
  <2>1. UserFacts!Init => UserFacts!TypeInv
    BY UserAssumptions, UserFacts!TypeInit
  <2>2. UserFacts!TypeInv /\ [UserFacts!Next]_(UserFacts!vars) => UserFacts!TypeInv'
    BY UserAssumptions, UserFacts!TypeStep
  <2> QED BY <2>1, <2>2, PTL DEF UserFacts!SafeSpec
<1>2. UserFacts!SafeSpec => []UserFacts!EventsMeanAccounts
  BY UserAssumptions, UserFacts!EventsAreAboutAccounts
<1>3. UserFacts!SafeSpec => []UserFacts!AccountsAnnounced
  BY UserAssumptions, UserFacts!NoAccountUnannounced
<1> QED BY <1>1, <1>2, <1>3, UsersBehave, PTL DEF UserInv

\* A step of user-service stores at most one event, at the end of the stream.
LEMMA StreamGrows ==
  ASSUME UserFacts!TypeInv, Users!Next
  PROVE  \/ stream' = stream
         \/ \E m \in UserFacts!EventRecord :
               /\ stream' = Append(stream, m)
               /\ m \in limbo \/ \E r \in Request : m = UserFacts!EventOf(r)
<1> USE DEF UserFacts!TypeInv, UserFacts!TypeOK
<1>1. ASSUME NEW r \in Request, UserFacts!Arrive(r) PROVE stream' = stream
  BY <1>1 DEF UserFacts!Arrive, UserFacts!SendRegister, UserFacts!SendLogin,
              UserFacts!SendUpdate, UserFacts!Send
<1>2. ASSUME NEW r \in Request, UserFacts!Publish(r)
      PROVE  /\ UserFacts!EventOf(r) \in UserFacts!EventRecord
             /\ stream' = Append(stream, UserFacts!EventOf(r))
  BY <1>2, UserAssumptions, UserFacts!EventTyped DEF UserFacts!Publish
<1>3. ASSUME NEW r \in Request, UserFacts!Handle(r) \/ UserFacts!Fail(r)
      PROVE  stream' = stream \/ UserFacts!Publish(r)
  BY <1>3 DEF UserFacts!Handle, UserFacts!Fail, UserFacts!LookupClash,
              UserFacts!LookupFree, UserFacts!Login, UserFacts!Write,
              UserFacts!WriteClash, UserFacts!GatewayTimesOut, UserFacts!LookupFails,
              UserFacts!WriteFails, UserFacts!WriteTimesOut, UserFacts!PublishFails,
              UserFacts!PublishTimesOut
<1>4. ASSUME NEW lost \in SUBSET Request, UserFacts!Crash(lost) PROVE stream' = stream
  BY <1>4 DEF UserFacts!Crash
<1>5. ASSUME NEW event \in limbo, UserFacts!StoreLate(event)
      PROVE  event \in UserFacts!EventRecord /\ stream' = Append(stream, event)
  BY <1>5 DEF UserFacts!StoreLate
<1>6. UserFacts!Next
  BY SameUserStep
<1> QED BY <1>1, <1>2, <1>3, <1>4, <1>5, <1>6 DEF UserFacts!Next

\* The event a step of user-service hands to the broker.
LEMMA Handover ==
  ASSUME UserFacts!TypeInv, UserStep
  PROVE  \/ UNCHANGED consumerVars /\ stream' = stream
         \/ \E m \in UserFacts!EventRecord :
               /\ stream' = Append(stream, m)
               /\ m \in limbo \/ \E r \in Request : m = UserFacts!EventOf(r)
               /\ Consumer!Publish(m.id)
<1>1. CASE stream' = stream
  BY <1>1 DEF UserStep, Forward
<1>2. CASE stream' # stream
  <2>1. PICK m \in UserFacts!EventRecord :
          /\ stream' = Append(stream, m)
          /\ m \in limbo \/ \E r \in Request : m = UserFacts!EventOf(r)
    BY <1>2, StreamGrows DEF UserStep
  <2>2. stream'[Len(stream')] = m
    BY <2>1, AppendProperties DEF UserFacts!TypeInv, UserFacts!TypeOK
  <2> QED BY <1>2, <2>1, <2>2 DEF UserStep, Forward
<1> QED BY <1>1, <1>2

LEMMA ConsumersBehave == SafeSpec => ConsumerFacts!SafeSpec
<1>1. Init => ConsumerFacts!Init
  BY SameConsumerInit DEF Init
<1>2. UserInv /\ [Next]_vars => [ConsumerFacts!Next]_(ConsumerFacts!vars)
  <2> SUFFICES ASSUME UserInv, [Next]_vars
               PROVE  [ConsumerFacts!Next]_(ConsumerFacts!vars)
    OBVIOUS
  <2> USE DEF ConsumerFacts!vars, ConsumerFacts!brokerVars, ConsumerFacts!replicaVars,
              ConsumerFacts!storeVars, ConsumerFacts!faultVars, consumerVars
  <2>1. CASE UserStep
    <3>1. CASE UNCHANGED consumerVars
      BY <3>1
    <3>2. ASSUME NEW m \in UserFacts!EventRecord, Consumer!Publish(m.id)
          PROVE  ConsumerFacts!Next
      <4>1. m.id \in Request
        BY DEF UserFacts!EventRecord
      <4> QED BY <3>2, <4>1, SameConsumerStep DEF Consumer!Next, Consumer!BrokerStep
    <3> QED BY <2>1, <3>1, <3>2, Handover DEF UserInv
  <2>2. CASE ConsumerStep
    BY <2>2, SameConsumerStep DEF ConsumerStep
  <2>3. CASE UNCHANGED vars
    BY <2>3 DEF vars
  <2> QED BY <2>1, <2>2, <2>3 DEF Next
<1> QED BY <1>1, <1>2, UserInvariant, PTL DEF SafeSpec, ConsumerFacts!SafeSpec

\* What notification-service is proved to keep.
ConsumerInv ==
    /\ ConsumerFacts!TypeInv
    /\ ConsumerFacts!AckedMeansPersisted /\ ConsumerFacts!NoSilentDrop
    /\ ConsumerFacts!AtMostOneNotification
    /\ \A d \in notifications : ConsumerFacts!Published(d.event)

LEMMA ConsumerInvariant == SafeSpec => []ConsumerInv
<1>1. ConsumerFacts!SafeSpec => []ConsumerFacts!TypeInv
  <2>1. ConsumerFacts!Init => ConsumerFacts!TypeInv
    BY ConsumerAssumptions, ConsumerFacts!TypeInit
  <2>2. ConsumerFacts!TypeInv /\ [ConsumerFacts!Next]_(ConsumerFacts!vars)
          => ConsumerFacts!TypeInv'
    BY ConsumerAssumptions, ConsumerFacts!TypeStep
  <2> QED BY <2>1, <2>2, PTL DEF ConsumerFacts!SafeSpec
<1>2. ConsumerFacts!SafeSpec => []ConsumerFacts!AckedMeansPersisted
  BY ConsumerAssumptions, ConsumerFacts!AckedIsPersisted
<1>3. ConsumerFacts!SafeSpec => []ConsumerFacts!NoSilentDrop
  BY ConsumerAssumptions, ConsumerFacts!NothingDroppedSilently
<1>4. ConsumerFacts!SafeSpec => []ConsumerFacts!AtMostOneNotification
  BY ConsumerAssumptions, ConsumerFacts!NoSecondNotification
<1>5. ConsumerFacts!SafeSpec =>
        [](\A d \in notifications : ConsumerFacts!Published(d.event))
  BY ConsumerAssumptions, ConsumerFacts!NotifiedArePublished
<1> QED BY <1>1, <1>2, <1>3, <1>4, <1>5, ConsumersBehave, PTL DEF ConsumerInv

----------------------------------------------------------------------------
(* The link between the two: the stream and the broker hold the same       *)
(* events, and the event of a registration bears the name of its account.  *)

Linked(m) == m.type = "created" => m.id = m.user

LinkInv ==
    /\ \A i \in 1..Len(stream) : Linked(stream[i]) /\ phase[stream[i].id] # "absent"
    /\ \A m \in limbo : Linked(m)
    /\ \A e \in Request :
          phase[e] # "absent" => \E i \in 1..Len(stream) : stream[i].id = e

LEMMA EventLinked == \A r \in Request : Linked(UserFacts!EventOf(r))
BY DEF Linked, UserFacts!EventOf, UserFacts!Account

LEMMA LimboGrows ==
  ASSUME Users!Next
  PROVE  limbo' \subseteq limbo \union {UserFacts!EventOf(r) : r \in Request}
<1>1. ASSUME NEW r \in Request, UserFacts!Arrive(r) PROVE limbo' = limbo
  BY <1>1 DEF UserFacts!Arrive, UserFacts!SendRegister, UserFacts!SendLogin,
              UserFacts!SendUpdate, UserFacts!Send
<1>2. ASSUME NEW r \in Request, UserFacts!Handle(r) \/ UserFacts!Fail(r)
      PROVE  limbo' \subseteq limbo \union {UserFacts!EventOf(r)}
  BY <1>2 DEF UserFacts!Handle, UserFacts!Fail, UserFacts!LookupClash, UserFacts!Publish,
              UserFacts!LookupFree, UserFacts!Login, UserFacts!Write,
              UserFacts!WriteClash, UserFacts!GatewayTimesOut, UserFacts!LookupFails,
              UserFacts!WriteFails, UserFacts!WriteTimesOut, UserFacts!PublishFails,
              UserFacts!PublishTimesOut
<1>3. ASSUME NEW lost \in SUBSET Request, UserFacts!Crash(lost)
      PROVE  limbo' \subseteq limbo \union {UserFacts!EventOf(r) : r \in Request}
  BY <1>3 DEF UserFacts!Crash
<1>4. ASSUME NEW event \in limbo, UserFacts!StoreLate(event) PROVE limbo' \subseteq limbo
  BY <1>4 DEF UserFacts!StoreLate
<1>5. UserFacts!Next
  BY SameUserStep
<1> QED BY <1>1, <1>2, <1>3, <1>4, <1>5 DEF UserFacts!Next

LEMMA LinkUser ==
  ASSUME UserInv, ConsumerFacts!TypeInv, LinkInv, UserStep
  PROVE  LinkInv'
<1>1. /\ stream \in Seq(UserFacts!EventRecord)
      /\ phase \in [Request -> ConsumerFacts!Phases]
  BY DEF UserInv, UserFacts!TypeInv, UserFacts!TypeOK, ConsumerFacts!TypeInv,
         ConsumerFacts!TypeOK, ConsumerFacts!BrokerTypeOK
<1>2. \A m \in limbo' : Linked(m)
  BY LimboGrows, EventLinked DEF UserStep, LinkInv
<1>3. CASE stream' = stream /\ UNCHANGED consumerVars
  BY <1>2, <1>3 DEF LinkInv, Linked, consumerVars
<1>4. ASSUME NEW m \in UserFacts!EventRecord, stream' = Append(stream, m),
             m \in limbo \/ \E r \in Request : m = UserFacts!EventOf(r),
             Consumer!Publish(m.id)
      PROVE  LinkInv'
  <2>1. /\ Len(stream) \in Nat /\ Len(stream') = Len(stream) + 1
        /\ \A i \in 1..Len(stream) :
              stream'[i] = stream[i] /\ stream[i] \in UserFacts!EventRecord
        /\ stream'[Len(stream) + 1] = m
    BY <1>1, <1>4, AppendProperties, LenProperties, ElementOfSeq
  <2>2. m.id \in Request /\ \A i \in 1..Len(stream) : stream[i].id \in Request
    BY <2>1 DEF UserFacts!EventRecord
  <2>3. phase' = [phase EXCEPT ![m.id] = "ready"]
    BY <1>4 DEF Consumer!Publish, Consumer!Store
  <2>4. Linked(m)
    BY <1>4, EventLinked DEF LinkInv
  <2>5. \A i \in 1..Len(stream') : Linked(stream'[i]) /\ phase'[stream'[i].id] # "absent"
    BY <1>1, <2>1, <2>2, <2>3, <2>4 DEF LinkInv
  <2>6. ASSUME NEW e \in Request, phase'[e] # "absent"
        PROVE  \E i \in 1..Len(stream') : stream'[i].id = e
    <3>1. CASE e = m.id
      BY <2>1, <3>1
    <3>2. CASE e # m.id
      <4>1. PICK i \in 1..Len(stream) : stream[i].id = e
        BY <1>1, <2>3, <2>6, <3>2 DEF LinkInv
      <4> QED BY <2>1, <4>1
    <3> QED BY <3>1, <3>2
  <2> QED BY <1>2, <2>5, <2>6 DEF LinkInv, Linked
<1> QED BY <1>3, <1>4, Handover DEF UserInv

LEMMA LinkConsumer ==
  ASSUME UserInv, ConsumerFacts!TypeInv, LinkInv, ConsumerStep
  PROVE  LinkInv'
<1>1. stream' = stream /\ limbo' = limbo
  BY DEF ConsumerStep, userVars
<1>2. \A e \in Request : phase[e] # "absent" => phase'[e] # "absent"
  <2>1. ConsumerFacts!Next
    BY SameConsumerStep DEF ConsumerStep
  <2> QED BY <2>1, ConsumerAssumptions, ConsumerFacts!PublishedStays
          DEF ConsumerFacts!Published
<1>3. \A i \in 1..Len(stream) : stream[i].id \in Request
  BY ElementOfSeq DEF UserInv, UserFacts!TypeInv, UserFacts!TypeOK, UserFacts!EventRecord
<1> QED BY <1>1, <1>2, <1>3 DEF ConsumerStep, LinkInv, Linked

LEMMA LinkInvariant == SafeSpec => [](UserInv /\ ConsumerInv /\ LinkInv)
<1>1. Init => LinkInv
  BY DEF Init, LinkInv, Users!Init, Consumer!Init, Consumer!BrokerInit
<1>2. UserInv /\ ConsumerInv /\ LinkInv /\ [Next]_vars => LinkInv'
  <2> SUFFICES ASSUME UserInv, ConsumerInv, LinkInv, [Next]_vars PROVE LinkInv'
    OBVIOUS
  <2>1. CASE UNCHANGED vars
    BY <2>1 DEF vars, userVars, consumerVars, LinkInv, Linked
  <2> QED BY <2>1, LinkUser, LinkConsumer DEF Next, ConsumerInv
<1> QED BY <1>1, <1>2, UserInvariant, ConsumerInvariant, PTL DEF SafeSpec

----------------------------------------------------------------------------
(* From the one database to the other.                                     *)

\* Every notification was written for an event on the stream, about an account
\* that exists (user.publisher.js:19-32, handlers.js:5-29).
THEOREM NotificationsAreMeant == SafeSpec => []NotificationsMeanAccounts
<1>1. UserInv /\ ConsumerInv /\ LinkInv => NotificationsMeanAccounts
  <2> SUFFICES ASSUME UserInv, ConsumerInv, LinkInv, NEW d \in notifications
               PROVE  \E i \in 1..Len(stream) :
                         SourceOf(d, stream[i]) /\ users[stream[i].user] # NoEmail
    BY DEF NotificationsMeanAccounts
  <2>1. d.event \in Request
    BY DEF ConsumerInv, ConsumerFacts!TypeInv, ConsumerFacts!TypeOK, ConsumerFacts!Delivery
  <2>2. PICK i \in 1..Len(stream) : stream[i].id = d.event
    BY <2>1 DEF ConsumerInv, ConsumerFacts!Published, LinkInv
  <2> QED BY <2>2 DEF UserInv, UserFacts!EventsMeanAccounts, SourceOf
<1> QED BY <1>1, LinkInvariant, PTL

\* One registration is one event and one event one notification, as long as no
\* fault of the consumer duplicates its work (README:144).
THEOREM NobodyWelcomedTwice == SafeSpec => []WelcomedOnce
<1>1. ConsumerInv /\ LinkInv => WelcomedOnce
  <2> SUFFICES ASSUME ConsumerInv, LinkInv, Consumer!Without(Consumer!Duplicating),
                      NEW d1 \in notifications, NEW d2 \in notifications,
                      NEW i \in 1..Len(stream), NEW j \in 1..Len(stream),
                      SourceOf(d1, stream[i]), SourceOf(d2, stream[j]),
                      stream[i].type = "created", stream[j].type = "created",
                      stream[i].user = stream[j].user
               PROVE  d1 = d2
    BY DEF WelcomedOnce
  <2>1. d1.event = d2.event
    BY DEF LinkInv, Linked, SourceOf
  <2>2. ConsumerFacts!NotifiedOnce
    BY DEF ConsumerInv, ConsumerFacts!AtMostOneNotification, Consumer!Without,
           ConsumerFacts!Without, Consumer!Duplicating, ConsumerFacts!Duplicating
  <2> QED BY <2>1, <2>2 DEF ConsumerFacts!NotifiedOnce
<1> QED BY <1>1, LinkInvariant, PTL

\* From the users collection of the one service to the notifications of the
\* other: no account is forgotten between them, under the conditions stated in
\* NoAccountForgotten (user.service.js:27-33, consumer.js:160-174, README:64).
THEOREM NobodyForgotten == SafeSpec => []NoAccountForgotten
<1>1. UserInv /\ ConsumerInv /\ LinkInv => NoAccountForgotten
  <2> SUFFICES ASSUME UserInv, ConsumerInv, LinkInv,
                      Users!Without(Users!Separating),
                      Consumer!Without({"crash", "disconnect", "lookupFails",
                                        "deadLetterFails"}),
                      Consumer!DEAD_LETTER \in Consumer!StreamSubjects,
                      NEW u \in Request, users[u] # NoEmail, ~Users!InFlight(u)
               PROVE  Followed(u)
    BY DEF NoAccountForgotten
  <2>1. UserFacts!Announced(u)
    BY DEF UserInv, UserFacts!AccountsAnnounced, Users!Without, UserFacts!Without,
           Users!Separating, UserFacts!Separating, Users!InFlight, UserFacts!InFlight
  <2>2. phase[u] # "absent"
    BY <2>1 DEF UserFacts!Announced, LinkInv, Linked
  <2>3. ConsumerFacts!LeavesTrace
    BY DEF ConsumerInv, ConsumerFacts!NoSilentDrop, Consumer!Without, ConsumerFacts!Without,
           Consumer!DEAD_LETTER, ConsumerFacts!DEAD_LETTER, Consumer!StreamSubjects,
           ConsumerFacts!StreamSubjects
  <2>4. PublishedKind[u] = "valid"
    BY DEF PublishedKind
  <2>5. CASE phase[u] = "acked"
    BY <2>2, <2>4, <2>5 DEF ConsumerInv, ConsumerFacts!AckedMeansPersisted, Followed,
       Consumer!Notified, ConsumerFacts!Notified
  <2>6. CASE phase[u] \in {"termed", "exhausted"}
    <3>1. Consumer!Held(Consumer!CurrentDelivery(u))
            <=> ConsumerFacts!Held(ConsumerFacts!CurrentDelivery(u))
      BY DEF Consumer!Held, ConsumerFacts!Held, Consumer!CurrentDelivery,
             ConsumerFacts!CurrentDelivery, Consumer!ElementOf, ConsumerFacts!ElementOf
    <3> QED BY <2>2, <2>3, <2>4, <2>6, <3>1
        DEF Followed, ConsumerFacts!LeavesTrace, ConsumerFacts!Valid,
            Consumer!Notified, ConsumerFacts!Notified
  <2> QED BY <2>2, <2>5, <2>6 DEF Followed, Consumer!Settled
<1> QED BY <1>1, LinkInvariant, PTL

=============================================================================
