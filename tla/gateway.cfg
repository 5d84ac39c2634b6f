\* Two addresses, a window of one second, a clock that ticks twice a second.
SPECIFICATION Spec
CONSTANTS
    Address = {"home", "cafe"}
    Points = 2
    Window = 2
    Second = 2
    MaxRequests = 6
    MaxForwarded = 1
    MaxTime = 3
    MaxFaults = 1
    Faults = {"restart"}
INVARIANTS
    TypeOK
    RateBound
    RetryAfterHonoured
PROPERTIES
    AnsweredOnce
    EventuallyEnded
\* The requests of a behaviour and its clock are bounded.
CHECK_DEADLOCK FALSE
