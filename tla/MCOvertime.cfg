\* Two offers of one owner, two requesters and two sessions at a time.
SPECIFICATION FairSpec
CONSTANTS
    o1 = o1  o2 = o2  q1 = q1  q2 = q2  t1 = t1  t2 = t2
    Offers = {o1, o2}
    Requesters = {q1, q2}
    Tx = {t1, t2}
    Home = "foreign"
    Final <- FinalTwo
    DecisionTicks = 1
    CooldownTicks = 1
    GraceTicks = 2
    TransitTicks = 0
    MaxOutstanding = 3
    MaxRows = 2
    MaxTime = 2
PROPERTIES DecisionsAreFinal DecisionWindowKept LiveRequestsEnd
CHECK_DEADLOCK FALSE
