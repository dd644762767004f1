\* Every sequence of outcomes; rates of 3/4 and 4/4 on either side of the target.
SPECIFICATION Spec
INVARIANTS TypeOK RingIsRecent WithinDelta
PROPERTY NudgesJustified
CONSTANTS
    unknown = unknown  complaint = complaint  other = other
    Intents = {unknown, complaint}
    Unknown = unknown
    Others = {other}
    Base <- MCBase
    RingSize = 4
    MinSamples = 3
    Target = 75
    Loose = 99
    Step = 1
    MaxDelta = 2
