\* Answers and shutdowns of one process under fair scheduling.
SPECIFICATION Life
CONSTANTS
    Request = {q1, q2}
    Person = {alice, bob}
    Email = {a, b}
    NoEmail = NoEmail
    MaxFaults = 2
    Faults = {"overlap", "gatewayTimeout", "crash", "lookupFails", "writeFails",
              "writeTimesOut", "publishFails", "publishTimesOut"}
INVARIANT AnnouncedOrAbandoned
PROPERTIES
    EventuallyAnswered
    ShutdownEnds
