\* Progress and the refinement of EventDelivery, for an event that is handled and one
\* that is skipped.  No more faults than deliveries.
SPECIFICATION Spec
CONSTANTS
    Event = {"created", "unknownType"}
    Replica = {r1, r2}
    Kind <- KindByName
    MaxDeliveries = 2
    MaxFaults = 2
    InboxSize = 1
    ExtraSubjects = {}
    Faults = {"crash", "disconnect", "lookupFails", "createFails", "createTimesOut",
              "recordFails", "recordTimesOut", "deadLetterFails", "slow", "settleLost"}
PROPERTIES
    EventuallySettled
    EventuallyNotified
    KeepsPromise
\* Once all events are settled and no fault is left the replicas wait for ever.
CHECK_DEADLOCK FALSE
