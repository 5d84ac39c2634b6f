\* One process that is stopped gracefully while it handles events and lists.
SPECIFICATION SafeLife
CONSTANTS
    Event = {"created", "badPayload"}
    Replica = {r1}
    Kind <- KindByName
    MaxDeliveries = 3
    MaxFaults = 1
    MaxExits = 2
    InboxSize = 2
    Limit = 1
    Instant = {1, 2}
    ExtraSubjects = {}
    Faults = {"crash", "disconnect", "createFails", "recordTimesOut", "slow"}
INVARIANTS
    OneRowPerExit
    RestartsTolerated
    WalkMissesNothing
\* Once all events are settled and no fault is left the process waits for ever.
CHECK_DEADLOCK FALSE
