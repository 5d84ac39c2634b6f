SPECIFICATION SafeSpec
CONSTANTS
    Event = {e1}
    Client = {c1}
    Nobody = Nobody
    MaxDeliver = 3
    Faults = {}
    MaxFaults = 0
INVARIANT KeepsTrack
CHECK_DEADLOCK FALSE
