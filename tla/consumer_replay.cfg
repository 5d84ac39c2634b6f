\* README:144: replaying an event produces exactly one notification.  The ledger
\* write fails, the nak makes the broker replay the event.
SPECIFICATION SafeSpec
CONSTANTS
    Event = {"created"}
    Replica = {r1}
    Kind <- KindByName
    MaxDeliveries = 3
    MaxFaults = 3
    InboxSize = 1
    ExtraSubjects = {}
    Faults = {"recordFails"}
INVARIANT NotifiedOnce
CHECK_DEADLOCK FALSE
