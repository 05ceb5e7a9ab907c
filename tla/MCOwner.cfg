\* Two processes with two slots each, three faults.
CONSTANTS
    Processes = {p1, p2}
    Slots = {s1, s2}
    MaxFaults = 3
SPECIFICATION OwnerFairSpec
INVARIANTS OverrunBounded
PROPERTIES QueueServed
