\* Two clients that start, stop and take the session from each other.
SPECIFICATION Spec
CONSTANTS
    Event = {e1, e2}
    Client = {c1, c2}
    Nobody = Nobody
    MaxDeliver = 2
    Faults = {"crash"}
    MaxFaults = 2
INVARIANTS
    TypeOK
    InOrder
PROPERTY EventuallyTaken
\* Every event may be published, delivered and forgotten.
CHECK_DEADLOCK FALSE
