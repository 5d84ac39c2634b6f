\* README:134: a terminated message is copied to events.deadletter.  The streams
\* are those the services provision.
SPECIFICATION SafeSpec
CONSTANTS
    Event = {"created"}
    Replica = {r1}
    Kind <- KindByName
    MaxDeliveries = 3
    MaxFaults = 3
    InboxSize = 1
    ExtraSubjects = {}
    Faults = {"createFails"}
INVARIANT TermMeansCopied
CHECK_DEADLOCK FALSE
