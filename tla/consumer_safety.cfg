\* Two replicas, every kind of fault, a well-formed event next to one that cannot be parsed.
SPECIFICATION SafeSpec
CONSTANTS
    Event = {"created", "notJson"}
    Replica = {r1, r2}
    Kind <- KindByName
    MaxDeliveries = 3
    MaxFaults = 3
    InboxSize = 1
    ExtraSubjects = {"events.deadletter"}
    Faults = {"crash", "disconnect", "lookupFails", "createFails", "createTimesOut",
              "recordFails", "recordTimesOut", "deadLetterFails", "slow", "settleLost"}
SYMMETRY ReplicaSymmetry
INVARIANTS
    TypeOK
    LedgerMeansNotified
    AckedMeansPersisted
    TermMeansHopeless
    AtMostOneNotification
    NoSilentDrop
    DeadLetterMeansUnnotified
    FaultsTolerated
PROPERTY NoWorkAfterSettlement
\* Once all events are settled and no fault is left the replicas wait for ever.
CHECK_DEADLOCK FALSE
