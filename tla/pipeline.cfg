\* A person who registers and then changes his profile, or registers twice; one
\* replica, faults of both services.
SPECIFICATION Spec
CONSTANTS
    Request = {q1, q2}
    Person = {alice}
    Email = {a}
    NoEmail = NoEmail
    MaxUserFaults = 1
    UserFaults = {"overlap", "gatewayTimeout", "crash", "writeFails", "publishTimesOut"}
    Replica = {r1}
    MaxDeliveries = 2
    InboxSize = 1
    ExtraSubjects = {"events.deadletter"}
    MaxConsumerFaults = 2
    ConsumerFaults = {"crash", "createFails", "recordTimesOut", "slow", "settleLost"}
INVARIANTS
    NotificationsMeanAccounts
    WelcomedOnce
    NoAccountForgotten
PROPERTY WelcomedInTheEnd
\* Requests are used once; afterwards the replicas wait for ever.
CHECK_DEADLOCK FALSE
