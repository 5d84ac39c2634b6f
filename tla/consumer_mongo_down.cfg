\* README:150: with MongoDB down the event ends as a dead letter.  The lookup comes
\* first and is outside the try block.
SPECIFICATION SafeSpec
CONSTANTS
    Event = {"created"}
    Replica = {r1}
    Kind <- KindByName
    MaxDeliveries = 3
    MaxFaults = 3
    InboxSize = 1
    ExtraSubjects = {"events.deadletter"}
    Faults = {"lookupFails"}
INVARIANT LeavesTrace
CHECK_DEADLOCK FALSE
