\* Four requests of two persons about two emails, every kind of fault.
SPECIFICATION SafeSpec
CONSTANTS
    Request = {q1, q2, q3, q4}
    Person = {alice, bob}
    Email = {a, b}
    NoEmail = NoEmail
    MaxFaults = 2
    Faults = {"overlap", "gatewayTimeout", "crash", "lookupFails", "writeFails",
              "writeTimesOut", "publishFails", "publishTimesOut"}
SYMMETRY Interchangeable
INVARIANTS
    TypeOK
    OneAccountPerEmail
    EventsMeanAccounts
    AccountsAnnounced
    CreatedFirst
    StreamAgreesWithProfile
PROPERTY NoUnexplainedConflict
\* Each request is used once.
CHECK_DEADLOCK FALSE
